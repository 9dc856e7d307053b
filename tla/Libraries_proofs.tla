-------------------------- MODULE Libraries_proofs --------------------------
(***************************************************************************)
(* Proofs about the areas of a table, about the lists of verifiers and of  *)
(* clients and about the fields of tables and clients, after any number of *)
(* calls.                                                                  *)
(***************************************************************************)
EXTENDS Libraries, DataTable_proofs, FiniteSetTheorems

-----------------------------------------------------------------------------
(* Sequences *)

(* A sequence without the item at a place. *)
LEMMA RemoveAtFacts ==
    ASSUME NEW S, NEW s \in Seq(S), NEW i \in 1 .. Len(s)
    PROVE  /\ RemoveAt(s, i) \in Seq(S)
           /\ Len(RemoveAt(s, i)) = Len(s) - 1
           /\ \A k \in 1 .. Len(s) - 1 :
                 RemoveAt(s, i)[k] = IF k < i THEN s[k] ELSE s[k + 1]
<1> DEFINE a == SubSeq(s, 1, i - 1)
           b == SubSeq(s, i + 1, Len(s))
<1>1. Len(s) \in Nat /\ i - 1 \in 0 .. Len(s) /\ i + 1 \in 1 .. Len(s) + 1
  BY LenProperties
<1>2. a \in Seq(S) /\ Len(a) = i - 1 /\ \A k \in 1 .. i - 1 : a[k] = s[k]
  BY <1>1
<1>3. b \in Seq(S) /\ Len(b) = Len(s) - i /\ \A k \in 1 .. Len(s) - i : b[k] = s[i + k]
  BY <1>1
<1>4. RemoveAt(s, i) = a \o b
  BY DEF RemoveAt
<1> HIDE DEF a, b
<1>5. /\ a \o b \in Seq(S)
      /\ Len(a \o b) = Len(a) + Len(b)
      /\ \A k \in 1 .. Len(a) + Len(b) :
            (a \o b)[k] = IF k <= Len(a) THEN a[k] ELSE b[k - Len(a)]
  BY <1>2, <1>3, ConcatProperties
<1>6. ASSUME NEW k \in 1 .. Len(s) - 1
      PROVE  (a \o b)[k] = IF k < i THEN s[k] ELSE s[k + 1]
  <2>1. CASE k < i
    BY <2>1, <1>1, <1>2, <1>3, <1>5
  <2>2. CASE ~(k < i)
    <3>1. k - (i - 1) \in 1 .. Len(s) - i /\ i + (k - (i - 1)) = k + 1
      BY <2>2, <1>1
    <3>2. b[k - (i - 1)] = s[k + 1]
      BY <3>1, <1>3
    <3>3. QED
      BY <2>2, <3>2, <1>1, <1>2, <1>3, <1>5
  <2>3. QED
    BY <2>1, <2>2
<1>7. QED
  BY <1>1, <1>2, <1>3, <1>4, <1>5, <1>6

-----------------------------------------------------------------------------
(* Verifiers *)

(* Place finds the verifier, or there is none. *)
LEMMA PlaceFacts ==
    ASSUME NEW S, NEW list, list.verifiers \in Seq(S), NEW id
    PROVE  /\ Ver!Place(list, id) \in 0 .. Len(list.verifiers)
           /\ Ver!Place(list, id) # 0 => list.verifiers[Ver!Place(list, id)].id = id
           /\ Ver!Place(list, id) = 0
              => \A i \in 1 .. Len(list.verifiers) : list.verifiers[i].id # id
<1> DEFINE I == {i \in 1 .. Len(list.verifiers) : list.verifiers[i].id = id}
<1>1. Ver!Place(list, id) = IF I # {} THEN Min(I) ELSE 0
  BY DEF Ver!Place, Ver!SelectInSeq, Ver!Min, Min
<1>2. I \in SUBSET Nat
  OBVIOUS
<1>3. CASE I = {}
  BY <1>1, <1>3, LenProperties
<1>4. CASE I # {}
  <2>1. Min(I) \in I
    BY <1>2, <1>4, MinFacts
  <2>2. QED
    BY <1>1, <1>4, <2>1, LenProperties
<1>5. QED
  BY <1>3, <1>4

Record == [id : Verifiers, pid : Verifiers, client_count : 1 .. (Ver!Count32 - 1)]

(* What the list holds when the verifiers have as many clients as e says.  *)
Serves(list, e) ==
    /\ list \in Ver!verifiers_t(Verifiers, Verifiers)
    /\ list.verifiers_count = Len(list.verifiers)
    /\ \A i, j \in 1 .. Len(list.verifiers) :
          list.verifiers[i].id = list.verifiers[j].id => i = j
    /\ \A i \in 1 .. Len(list.verifiers) :
          /\ list.verifiers[i].pid = list.verifiers[i].id
          /\ list.verifiers[i].client_count = e[list.verifiers[i].id]
    /\ \A id \in Verifiers :
          e[id] > 0 => \E i \in 1 .. Len(list.verifiers) : list.verifiers[i].id = id

(* The parts of such a list. *)
LEMMA ServesParts ==
    ASSUME NEW list, NEW e, Serves(list, e)
    PROVE  /\ list = [verifiers |-> list.verifiers, verifiers_count |-> list.verifiers_count]
           /\ list.verifiers \in Seq(Record)
           /\ Len(list.verifiers) \in Nat
           /\ \A i \in 1 .. Len(list.verifiers) : list.verifiers[i] \in Record
<1>1. /\ list = [verifiers |-> list.verifiers, verifiers_count |-> list.verifiers_count]
      /\ list.verifiers \in Seq(Record)
  BY DEF Serves, Ver!verifiers_t, Record
<1>2. QED
  BY <1>1, LenProperties, ElementOfSeq

(* Conversely. *)
LEMMA ServesIntro ==
    ASSUME NEW v \in Seq(Record), NEW e,
           \A i, j \in 1 .. Len(v) : v[i].id = v[j].id => i = j,
           \A i \in 1 .. Len(v) : v[i].pid = v[i].id /\ v[i].client_count = e[v[i].id],
           \A id \in Verifiers : e[id] > 0 => \E i \in 1 .. Len(v) : v[i].id = id
    PROVE  Serves([verifiers |-> v, verifiers_count |-> Len(v)], e)
<1>1. Len(v) \in Nat
  BY LenProperties
<1>2. QED
  BY <1>1 DEF Serves, Ver!verifiers_t, Record

(* RA_VER_is_running finds the number of clients.  *)
LEMMA ServesCount ==
    ASSUME NEW list, NEW e \in [Verifiers -> Nat], Serves(list, e), NEW id \in Verifiers
    PROVE  /\ Ver!Place(list, id) \in 0 .. Len(list.verifiers)
           /\ Ver!Place(list, id) = 0 <=> e[id] = 0
           /\ Ver!Place(list, id) # 0 =>
                 /\ list.verifiers[Ver!Place(list, id)].id = id
                 /\ list.verifiers[Ver!Place(list, id)].client_count = e[id]
           /\ Ver!RA_VER_is_running(list, id) = e[id]
<1> DEFINE p == Ver!Place(list, id)
<1>1. /\ list.verifiers \in Seq(Record)
      /\ Len(list.verifiers) \in Nat
      /\ \A i \in 1 .. Len(list.verifiers) : list.verifiers[i] \in Record
  BY ServesParts
<1>2. /\ p \in 0 .. Len(list.verifiers)
      /\ p # 0 => list.verifiers[p].id = id
      /\ p = 0 => \A i \in 1 .. Len(list.verifiers) : list.verifiers[i].id # id
  BY <1>1, PlaceFacts
<1>3. e[id] \in Nat
  OBVIOUS
<1>4. CASE p = 0
  <2>1. ~(e[id] > 0)
    BY <1>2, <1>4 DEF Serves
  <2>2. QED
    BY <1>2, <1>3, <1>4, <2>1 DEF Ver!RA_VER_is_running
<1>5. CASE p # 0
  <2>1. p \in 1 .. Len(list.verifiers)
    BY <1>1, <1>2, <1>5
  <2>2. list.verifiers[p].client_count = e[id]
    BY <2>1, <1>2, <1>5 DEF Serves
  <2>3. list.verifiers[p].client_count \in 1 .. (Ver!Count32 - 1)
    BY <2>1, <1>1 DEF Record
  <2>4. e[id] # 0
    BY <2>2, <2>3
  <2>5. QED
    BY <1>2, <1>5, <2>2, <2>4 DEF Ver!RA_VER_is_running
<1>6. QED
  BY <1>4, <1>5

(* A verifier that is new comes first, with its count. *)
LEMMA ServesInsert ==
    ASSUME NEW list, NEW e \in [Verifiers -> Nat], Serves(list, e),
           NEW id \in Verifiers, e[id] = 0, 1 < Ver!Count32, Ver!Count32 \in Nat,
           NEW allocated \in BOOLEAN
    PROVE  Serves(Ver!RA_VER_insert(list, id, id, allocated).list,
                  [e EXCEPT ![id] = IF allocated THEN 1 ELSE 0])
<1> DEFINE s == list.verifiers
           r == [id |-> id, pid |-> id, client_count |-> 1]
           v == <<r>> \o s
           f == [e EXCEPT ![id] = 1]
<1>1. Ver!Place(list, id) = 0
  BY ServesCount
<1>2. /\ s \in Seq(Record)
      /\ Len(s) \in Nat
      /\ \A i \in 1 .. Len(s) : s[i] \in Record
  BY ServesParts
<1>3. \A i \in 1 .. Len(s) : s[i].id # id
  BY <1>1, <1>2, PlaceFacts
<1>4. r \in Record
  BY DEF Record
<1>5. CASE ~allocated
  <2>1. Ver!RA_VER_insert(list, id, id, allocated).list = list
    BY <1>1, <1>5 DEF Ver!RA_VER_insert, Ver!insert_with_count, Ver!VAnswer
  <2>2. [e EXCEPT ![id] = IF allocated THEN 1 ELSE 0] = e
    BY <1>5
  <2>3. QED
    BY <2>1, <2>2
<1>6. CASE allocated
  <2>1. Ver!RA_VER_insert(list, id, id, allocated).list
           = [verifiers |-> v, verifiers_count |-> list.verifiers_count + 1]
    BY <1>1, <1>6 DEF Ver!RA_VER_insert, Ver!insert_with_count, Ver!VAnswer
  <2>2. /\ v \in Seq(Record)
        /\ Len(v) = Len(s) + 1
        /\ v[1] = r
        /\ \A i \in 2 .. Len(s) + 1 : v[i] = s[i - 1]
    BY <1>2, <1>4
  <2>3. list.verifiers_count + 1 = Len(v)
    BY <2>2 DEF Serves
  <2> HIDE DEF v
  <2>4. \A i \in 1 .. Len(v) : v[i] = IF i = 1 THEN r ELSE s[i - 1]
    BY <1>2, <2>2
  <2>5. \A i \in 1 .. Len(v) : i # 1 => i - 1 \in 1 .. Len(s)
    BY <1>2, <2>2
  <2>6. ASSUME NEW i \in 1 .. Len(v), NEW j \in 1 .. Len(v), v[i].id = v[j].id
        PROVE  i = j
    <3>1. CASE i = 1 \/ j = 1
      BY <3>1, <2>4, <2>5, <2>6, <1>3
    <3>2. CASE i # 1 /\ j # 1
      <4>1. /\ i - 1 \in 1 .. Len(s) /\ j - 1 \in 1 .. Len(s)
            /\ s[i - 1].id = s[j - 1].id
        BY <3>2, <2>4, <2>5, <2>6
      <4>2. i - 1 = j - 1
        BY <4>1 DEF Serves
      <4>3. QED
        BY <4>2
    <3>3. QED
      BY <3>1, <3>2
  <2>7. ASSUME NEW i \in 1 .. Len(v)
        PROVE  v[i].pid = v[i].id /\ v[i].client_count = f[v[i].id]
    <3>1. CASE i = 1
      BY <3>1, <2>4
    <3>2. CASE i # 1
      <4>1. v[i] = s[i - 1] /\ i - 1 \in 1 .. Len(s)
        BY <3>2, <2>4, <2>5
      <4>2. s[i - 1].id \in Verifiers /\ s[i - 1].id # id
        BY <4>1, <1>2, <1>3 DEF Record
      <4>3. f[s[i - 1].id] = e[s[i - 1].id]
        BY <4>2
      <4>4. QED
        BY <4>1, <4>3 DEF Serves
    <3>3. QED
      BY <3>1, <3>2
  <2>8. ASSUME NEW other \in Verifiers, f[other] > 0
        PROVE  \E i \in 1 .. Len(v) : v[i].id = other
    <3>1. CASE other = id
      BY <3>1, <2>2, <1>2
    <3>2. CASE other # id
      <4>1. e[other] > 0
        BY <3>2, <2>8
      <4>2. PICK i \in 1 .. Len(s) : s[i].id = other
        BY <4>1 DEF Serves
      <4>3. i + 1 \in 1 .. Len(v) /\ v[i + 1] = s[i]
        BY <1>2, <2>2
      <4>4. QED
        BY <4>2, <4>3
    <3>3. QED
      BY <3>1, <3>2
  <2>9. Serves([verifiers |-> v, verifiers_count |-> Len(v)], f)
    <3>1. v \in Seq(Record)
      BY <2>2
    <3> HIDE DEF f
    <3>2. QED
      BY <3>1, <2>6, <2>7, <2>8, ServesIntro
  <2>10. QED
    BY <1>6, <2>1, <2>3, <2>9
<1>7. QED
  BY <1>5, <1>6

(* Another count for a verifier of the list. *)
LEMMA ServesChange ==
    ASSUME NEW list, NEW e \in [Verifiers -> Nat], Serves(list, e),
           NEW id \in Verifiers, e[id] # 0, NEW n \in 1 .. (Ver!Count32 - 1)
    PROVE  Serves([list EXCEPT !.verifiers[Ver!Place(list, id)].client_count = n],
                  [e EXCEPT ![id] = n])
<1> DEFINE s == list.verifiers
           p == Ver!Place(list, id)
           v == [s EXCEPT ![p].client_count = n]
           f == [e EXCEPT ![id] = n]
<1>1. p \in 1 .. Len(s) /\ s[p].id = id
  <2>1. p \in 0 .. Len(s) /\ p # 0 /\ s[p].id = id
    BY ServesCount
  <2>2. QED
    BY <2>1, ServesParts
<1>2. /\ s \in Seq(Record)
      /\ Len(s) \in Nat
      /\ \A i \in 1 .. Len(s) : s[i] \in Record
      /\ list = [verifiers |-> s, verifiers_count |-> list.verifiers_count]
  BY ServesParts
<1>3. DOMAIN s = 1 .. Len(s)
  BY <1>2
<1>4. \A i \in 1 .. Len(s) :
         v[i] = [id |-> s[i].id, pid |-> s[i].pid,
                 client_count |-> IF i = p THEN n ELSE s[i].client_count]
  BY <1>1, <1>2, <1>3 DEF Record
<1>5. [list EXCEPT !.verifiers[p].client_count = n]
         = [verifiers |-> v, verifiers_count |-> list.verifiers_count]
  <2> HIDE DEF s
  <2>1. [[verifiers |-> s, verifiers_count |-> list.verifiers_count]
            EXCEPT !.verifiers[p].client_count = n]
           = [verifiers |-> v, verifiers_count |-> list.verifiers_count]
    BY DEF v
  <2>2. QED
    BY <1>2, <2>1
<1>6. v \in Seq(Record) /\ Len(v) = Len(s)
  <2>0. DOMAIN v = 1 .. Len(s) /\ v = [i \in 1 .. Len(s) |-> v[i]]
    BY <1>3
  <2> HIDE DEF v
  <2>1. ASSUME NEW i \in 1 .. Len(s) PROVE v[i] \in Record
    <3>1. s[i].id \in Verifiers /\ s[i].pid \in Verifiers
          /\ s[i].client_count \in 1 .. (Ver!Count32 - 1)
      BY <1>2 DEF Record
    <3> DEFINE c == IF i = p THEN n ELSE s[i].client_count
    <3>2. c \in 1 .. (Ver!Count32 - 1)
      BY <3>1
    <3>3. v[i] = [id |-> s[i].id, pid |-> s[i].pid, client_count |-> c]
      BY <1>4
    <3> HIDE DEF c
    <3>4. QED
      BY <3>1, <3>2, <3>3 DEF Record
  <2>2. DOMAIN v = 1 .. Len(s) /\ v = [i \in 1 .. Len(s) |-> v[i]]
    BY <2>0
  <2>3. v \in [1 .. Len(s) -> Record]
    BY <2>1, <2>2
  <2>4. v \in Seq(Record)
    BY <2>3, <1>2, SeqDef
  <2>5. QED
    BY <2>2, <2>4, <1>2, LenProperties
<1>7. list.verifiers_count = Len(s)
  BY DEF Serves
<1> HIDE DEF v
<1>4a. \A i \in 1 .. Len(v) :
          /\ v[i].id = s[i].id /\ v[i].pid = s[i].pid
          /\ v[i].client_count = IF i = p THEN n ELSE s[i].client_count
  <2> SUFFICES ASSUME NEW i \in 1 .. Len(v)
               PROVE  /\ v[i].id = s[i].id /\ v[i].pid = s[i].pid
                      /\ v[i].client_count = IF i = p THEN n ELSE s[i].client_count
    OBVIOUS
  <2>1. i \in 1 .. Len(s)
    BY <1>6
  <2>2. v[i] = [id |-> s[i].id, pid |-> s[i].pid,
                client_count |-> IF i = p THEN n ELSE s[i].client_count]
    BY <2>1, <1>4
  <2> HIDE DEF p, s
  <2>3. QED
    BY <2>2
<1> HIDE DEF p
<1>8. ASSUME NEW i \in 1 .. Len(v), NEW j \in 1 .. Len(v), v[i].id = v[j].id
      PROVE  i = j
  <2>1. i \in 1 .. Len(s) /\ j \in 1 .. Len(s) /\ s[i].id = s[j].id
    BY <1>4a, <1>6, <1>8
  <2>2. QED
    BY <2>1 DEF Serves
<1>9. ASSUME NEW i \in 1 .. Len(v)
      PROVE  v[i].pid = v[i].id /\ v[i].client_count = f[v[i].id]
  <2>0. /\ s[i].pid = s[i].id /\ s[i].client_count = e[s[i].id]
        /\ s[i].id \in Verifiers
    BY <1>2, <1>6 DEF Serves, Record
  <2>1. CASE i = p
    BY <2>0, <2>1, <1>1, <1>4a
  <2>2. CASE i # p
    <3>1. s[i].id # id
      BY <2>2, <1>1, <1>6 DEF Serves
    <3>2. QED
      BY <2>0, <2>2, <3>1, <1>4a
  <2>3. QED
    BY <2>1, <2>2
<1>10. ASSUME NEW other \in Verifiers, f[other] > 0
       PROVE  \E i \in 1 .. Len(v) : v[i].id = other
  <2>1. e[other] > 0
    BY <1>10
  <2>2. PICK i \in 1 .. Len(s) : s[i].id = other
    BY <2>1 DEF Serves
  <2>3. QED
    BY <2>2, <1>4a, <1>6
<1>11. Serves([verifiers |-> v, verifiers_count |-> Len(v)], f)
  <2> HIDE DEF f
  <2>1. QED
    BY <1>6, <1>8, <1>9, <1>10, ServesIntro
<1>12. QED
  BY <1>5, <1>6, <1>7, <1>11 DEF p

(* The list without a verifier. *)
LEMMA ServesWithout ==
    ASSUME NEW list, NEW e \in [Verifiers -> Nat], Serves(list, e),
           NEW id \in Verifiers, e[id] # 0
    PROVE  Serves(Ver!Without(list, Ver!Place(list, id)), [e EXCEPT ![id] = 0])
<1> DEFINE s == list.verifiers
           p == Ver!Place(list, id)
           v == RemoveAt(s, p)
           f == [e EXCEPT ![id] = 0]
<1>1. /\ s \in Seq(Record)
      /\ Len(s) \in Nat
      /\ \A i \in 1 .. Len(s) : s[i] \in Record
  BY ServesParts
<1>2. p \in 1 .. Len(s) /\ s[p].id = id
  <2>1. p \in 0 .. Len(s) /\ p # 0 /\ s[p].id = id
    BY ServesCount
  <2>2. QED
    BY <2>1, <1>1
<1>3. /\ v \in Seq(Record)
      /\ Len(v) = Len(s) - 1
      /\ \A k \in 1 .. Len(s) - 1 : v[k] = IF k < p THEN s[k] ELSE s[k + 1]
  <2> HIDE DEF p
  <2>1. QED
    BY <1>1, <1>2, RemoveAtFacts
<1>4. Ver!Without(list, p) = [verifiers |-> v, verifiers_count |-> list.verifiers_count - 1]
  BY DEF Ver!Without, Ver!RemoveAt, RemoveAt
<1>5. list.verifiers_count - 1 = Len(v)
  BY <1>3 DEF Serves
<1> HIDE DEF v, p
<1> DEFINE old(k) == IF k < p THEN k ELSE k + 1
<1>6. \A k \in 1 .. Len(v) : old(k) \in 1 .. Len(s) /\ old(k) # p /\ v[k] = s[old(k)]
  BY <1>1, <1>2, <1>3
<1>7. \A j, k \in 1 .. Len(v) : old(j) = old(k) => j = k
  BY <1>1, <1>2, <1>3
<1>8. \A i \in 1 .. Len(s) : i # p => \E k \in 1 .. Len(v) : old(k) = i
  <2> SUFFICES ASSUME NEW i \in 1 .. Len(s), i # p
               PROVE  \E k \in 1 .. Len(v) : old(k) = i
    OBVIOUS
  <2>1. CASE i < p
    BY <2>1, <1>1, <1>2, <1>3
  <2>2. CASE i > p
    <3>1. i - 1 \in 1 .. Len(v) /\ old(i - 1) = i
      BY <2>2, <1>1, <1>2, <1>3
    <3>2. QED
      BY <3>1
  <2>3. QED
    BY <2>1, <2>2, <1>1, <1>2
<1> HIDE DEF old
<1>9. ASSUME NEW j \in 1 .. Len(v), NEW k \in 1 .. Len(v), v[j].id = v[k].id
      PROVE  j = k
  <2>1. /\ old(j) \in 1 .. Len(s) /\ old(k) \in 1 .. Len(s)
        /\ s[old(j)].id = s[old(k)].id
    BY <1>6, <1>9
  <2>2. old(j) = old(k)
    BY <2>1 DEF Serves
  <2>3. QED
    BY <2>2, <1>7
<1>10. ASSUME NEW k \in 1 .. Len(v)
       PROVE  v[k].pid = v[k].id /\ v[k].client_count = f[v[k].id]
  <2>1. s[old(k)].id # id
    BY <1>2, <1>6 DEF Serves
  <2>2. s[old(k)].id \in Verifiers
    BY <1>1, <1>6 DEF Record
  <2>3. QED
    BY <2>1, <2>2, <1>6 DEF Serves
<1>11. ASSUME NEW other \in Verifiers, f[other] > 0
       PROVE  \E k \in 1 .. Len(v) : v[k].id = other
  <2>1. e[other] > 0 /\ other # id
    BY <1>11
  <2>2. PICK i \in 1 .. Len(s) : s[i].id = other
    BY <2>1 DEF Serves
  <2>3. i # p
    BY <2>1, <2>2, <1>2
  <2>4. QED
    BY <2>2, <2>3, <1>6, <1>8
<1>12. Serves([verifiers |-> v, verifiers_count |-> Len(v)], f)
  <2> HIDE DEF f
  <2>1. QED
    BY <1>3, <1>9, <1>10, <1>11, ServesIntro
<1>13. QED
  BY <1>4, <1>5, <1>12 DEF p

(* Such a list answers as the caller expects. *)
LEMMA ServesAnswers ==
    ASSUME NEW list, NEW e \in [Verifiers -> Nat], Serves(list, e)
    PROVE  /\ \A id \in Verifiers : Ver!RA_VER_is_running(list, id) = e[id]
           /\ Ver!RA_VER_count(list) = Cardinality({id \in Verifiers : e[id] > 0})
           /\ \A id \in Verifiers : e[id] > 0 => Ver!RA_VER_get_pid(list, id) = id
<1> DEFINE s == list.verifiers
           T == {id \in Verifiers : e[id] > 0}
           f == [i \in 1 .. Len(s) |-> s[i].id]
<1>1. /\ Len(s) \in Nat
      /\ \A i \in 1 .. Len(s) : s[i] \in Record
  BY ServesParts
<1>2. \A id \in Verifiers : Ver!RA_VER_is_running(list, id) = e[id]
  BY ServesCount
<1>3. ASSUME NEW id \in Verifiers, e[id] > 0
      PROVE  Ver!RA_VER_get_pid(list, id) = id
  <2> DEFINE p == Ver!Place(list, id)
  <2>1. p \in 0 .. Len(s) /\ p # 0 /\ s[p].id = id
    BY <1>3, ServesCount
  <2>2. p \in 1 .. Len(s)
    BY <2>1, <1>1
  <2>3. s[p].pid = s[p].id
    BY <2>2 DEF Serves
  <2>4. QED
    BY <2>1, <2>3 DEF Ver!RA_VER_get_pid
<1>4. f \in Bijection(1 .. Len(s), T)
  <2>1. ASSUME NEW i \in 1 .. Len(s) PROVE s[i].id \in T
    <3>1. /\ s[i].id \in Verifiers
          /\ s[i].client_count \in 1 .. (Ver!Count32 - 1)
      BY <1>1 DEF Record
    <3>2. s[i].client_count = e[s[i].id]
      BY DEF Serves
    <3>3. QED
      BY <3>1, <3>2
  <2>2. f \in [1 .. Len(s) -> T]
    BY <2>1
  <2>3. \A i, j \in 1 .. Len(s) : f[i] = f[j] => i = j
    BY DEF Serves
  <2>4. \A id \in T : \E i \in 1 .. Len(s) : f[i] = id
    BY DEF Serves
  <2>5. QED
    <3> HIDE DEF f, T
    <3>1. QED
      BY <2>2, <2>3, <2>4 DEF Bijection, Injection, Surjection, IsInjective
<1>5. Cardinality(T) = Len(s)
  <2>1. IsFiniteSet(1 .. Len(s)) /\ Cardinality(1 .. Len(s)) = Len(s)
    BY <1>1, FS_Interval
  <2>2. ExistsBijection(1 .. Len(s), T)
    BY <1>4 DEF ExistsBijection
  <2>3. QED
    BY <2>1, <2>2, FS_Bijection
<1>6. QED
  BY <1>2, <1>3, <1>5 DEF Ver!RA_VER_count, Serves

(* The inductive invariant behind VerifiersExact. *)
VerifiersInv ==
    subject = "verifiers" =>
        /\ expected \in [Verifiers -> Nat]
        /\ object \notin {Undefined, Null}
        /\ object = Diverged => \E id \in Verifiers : expected[id] > 0
        /\ object \notin Gone => Serves(object, expected)

(* Lists are told from what a call yields instead of one. *)
LEMMA ServesLive ==
    ASSUME NEW list, NEW e, Serves(list, e)
    PROVE  list \notin Gone
  BY GoneAssumption DEF Serves

(* The widths. *)
LEMMA Counts == Ver!Count32 \in Nat /\ Ver!Count32 > 1
<1>1. PICK h \in Nat : h = 2 ^ (Width - 1) /\ h # 0
  BY PowerAssumption
<1>2. 2 ^ Width = 2 * h
  BY <1>1, PowerAssumption
<1>3. QED
  BY <1>1, <1>2 DEF Ver!Count32

(* A list that answers for the new expectations keeps the invariant. *)
LEMMA VerifiersKept ==
    ASSUME expected' \in [Verifiers -> Nat], Serves(object', expected')
    PROVE  VerifiersInv'
<1>1. object' \notin {Null, Undefined, Diverged}
  BY ServesLive DEF Gone
<1>2. QED
  BY <1>1 DEF VerifiersInv, Gone

(* Each call on the list of verifiers. *)
LEMMA NextVerifiersKeeps ==
    ASSUME VerifiersInv, NextVerifiers
    PROVE  VerifiersInv'
<1> DEFINE m == Ver!Count32
<1>0. /\ subject = "verifiers" /\ subject' = subject
      /\ object \notin Gone
      /\ expected \in [Verifiers -> Nat]
      /\ Serves(object, expected)
  BY DEF NextVerifiers, VerifiersInv, Live, Appear, Leave, Stop, Reload
<1>1. m \in Nat /\ m > 1
  BY Counts
<1>2. ASSUME NEW id \in Verifiers, NEW allocated \in BOOLEAN, Appear(id, allocated)
      PROVE  VerifiersInv'
  <2>1. /\ Ver!RA_VER_is_running(object, id) = expected[id]
        /\ expected[id] \in Nat
        /\ expected[id] < m - 1
    BY <1>0, <1>2, ServesCount DEF Appear, Ver!Count32
  <2>2. CASE expected[id] = 0
    <3>1. object' = Ver!RA_VER_insert(object, id, id, allocated).list
      BY <1>2, <2>1, <2>2 DEF Appear
    <3>2. expected' = [expected EXCEPT ![id] = IF allocated THEN 1 ELSE 0]
      <4>1. expected' = [expected EXCEPT ![id] = IF @ = 0 /\ ~allocated THEN 0 ELSE @ + 1]
        BY <1>2 DEF Appear
      <4>2. CASE allocated
        BY <2>2, <4>1, <4>2
      <4>3. CASE ~allocated
        BY <2>2, <4>1, <4>3
      <4>4. QED
        BY <4>2, <4>3
    <3>3. expected' \in [Verifiers -> Nat]
      BY <1>0, <3>2
    <3>4. Serves(object', expected')
      BY <1>0, <1>1, <2>2, <3>1, <3>2, ServesInsert
    <3>5. QED
      BY <3>3, <3>4, VerifiersKept
  <2>3. CASE expected[id] # 0
    <3> DEFINE p == Ver!Place(object, id)
               n == expected[id] + 1
    <3>1. n \in 1 .. (m - 1) /\ n \in Nat /\ n < m
      BY <1>1, <2>1
    <3>2. p # 0 /\ object.verifiers[p].client_count = expected[id]
      BY <1>0, <2>3, ServesCount
    <3>3. object' = [object EXCEPT !.verifiers[p].client_count = (@ + 1) % m]
      BY <1>2, <2>1, <2>3, <3>2 DEF Appear, Ver!RA_VER_update, Ver!VAnswer
    <3>4. n % m = n
      BY <1>1, <3>1, SmallRemainder
    <3>5. object' = [object EXCEPT !.verifiers[p].client_count = n]
      BY <3>2, <3>3, <3>4
    <3>6. expected' = [expected EXCEPT ![id] = n]
      BY <1>2, <2>3 DEF Appear
    <3>7. expected' \in [Verifiers -> Nat]
      BY <1>0, <3>1, <3>6
    <3>8. Serves(object', expected')
      <4> HIDE DEF n
      <4>1. QED
        BY <1>0, <2>3, <3>1, <3>5, <3>6, ServesChange
    <3>9. QED
      BY <3>7, <3>8, VerifiersKept
  <2>4. QED
    BY <2>2, <2>3
<1>3. ASSUME NEW id \in Verifiers, Leave(id)
      PROVE  VerifiersInv'
  <2> DEFINE p == Ver!Place(object, id)
             n == expected[id] - 1
  <2>1. CASE expected[id] = 0
    <3>1. p = 0
      BY <1>0, <2>1, ServesCount
    <3>2. object' = object
      BY <1>3, <3>1 DEF Leave, Ver!RA_VER_dec_clients, Ver!VAnswer
    <3>3. expected' = expected
      BY <1>0, <1>3, <2>1 DEF Leave
    <3>4. QED
      BY <1>0, <3>2, <3>3, VerifiersKept
  <2>2. CASE expected[id] # 0
    <3>1. /\ p # 0 /\ p \in 0 .. Len(object.verifiers)
          /\ object.verifiers[p].client_count = expected[id]
      BY <1>0, <2>2, ServesCount
    <3>2. expected[id] \in 1 .. (m - 1)
      <4>1. p \in 1 .. Len(object.verifiers)
        BY <1>0, <3>1, ServesParts
      <4>2. object.verifiers[p].client_count \in 1 .. (m - 1)
        BY <1>0, <4>1, ServesParts DEF Record
      <4>3. QED
        BY <3>1, <4>2
    <3>3. n \in Nat /\ n < m /\ n % m = n
      <4>1. n \in Nat /\ n < m
        BY <1>1, <3>2
      <4>2. QED
        BY <1>1, <4>1, SmallRemainder
    <3>4. expected' = [expected EXCEPT ![id] = n]
      BY <1>3, <2>2 DEF Leave
    <3>5. expected' \in [Verifiers -> Nat]
      BY <1>0, <3>3, <3>4
    <3>6. CASE n = 0
      <4>1. object' = Ver!Without(object, p)
        BY <1>3, <3>1, <3>3, <3>6 DEF Leave, Ver!RA_VER_dec_clients, Ver!VAnswer
      <4>2. Serves(object', expected')
        BY <1>0, <2>2, <3>4, <3>6, <4>1, ServesWithout
      <4>3. QED
        BY <3>5, <4>2, VerifiersKept
    <3>7. CASE n # 0
      <4>1. object' = [object EXCEPT !.verifiers[p].client_count = n]
        BY <1>3, <3>1, <3>3, <3>7 DEF Leave, Ver!RA_VER_dec_clients, Ver!VAnswer
      <4>2. n \in 1 .. (m - 1)
        BY <1>1, <3>2, <3>7
      <4>3. Serves(object', expected')
        <5> HIDE DEF n
        <5>1. QED
          BY <1>0, <2>2, <3>4, <4>1, <4>2, ServesChange
      <4>4. QED
        BY <3>5, <4>3, VerifiersKept
    <3>8. QED
      BY <3>6, <3>7
  <2>3. QED
    BY <2>1, <2>2
<1>4. ASSUME NEW id \in Verifiers, Stop(id)
      PROVE  VerifiersInv'
  <2> DEFINE p == Ver!Place(object, id)
  <2>1. expected' = [expected EXCEPT ![id] = 0] /\ expected' \in [Verifiers -> Nat]
    BY <1>0, <1>4 DEF Stop
  <2>2. CASE expected[id] = 0
    <3>1. p = 0
      BY <1>0, <2>2, ServesCount
    <3>2. object' = object
      BY <1>4, <3>1 DEF Stop, Ver!RA_VER_remove, Ver!VAnswer
    <3>3. expected' = expected
      BY <1>0, <2>1, <2>2
    <3>4. QED
      BY <1>0, <3>2, <3>3, VerifiersKept
  <2>3. CASE expected[id] # 0
    <3>1. p # 0
      BY <1>0, <2>3, ServesCount
    <3>2. object' = Ver!Without(object, p)
      BY <1>4, <3>1 DEF Stop, Ver!RA_VER_remove, Ver!VAnswer
    <3>3. Serves(object', expected')
      BY <1>0, <2>1, <2>3, <3>2, ServesWithout
    <3>4. QED
      BY <2>1, <3>3, VerifiersKept
  <2>4. QED
    BY <2>2, <2>3
<1>5. ASSUME Reload
      PROVE  VerifiersInv'
  <2> DEFINE s == object.verifiers
  <2>1. s \in Seq(Record) /\ object.verifiers_count = Len(s)
        /\ object = [verifiers |-> s, verifiers_count |-> object.verifiers_count]
    BY <1>0, ServesParts DEF Serves
  <2>2. expected' = expected
    BY <1>5 DEF Reload
  <2>3. CASE s = <<>>
    <3>1. object' = Ver!RA_VER_create
      BY <1>5, <2>3 DEF Reload, Ver!RA_VER_parse, Ver!RA_VER_serialize
    <3>2. object = [verifiers |-> <<>>, verifiers_count |-> 0]
      <4> HIDE DEF s
      <4>1. QED
        BY <2>1, <2>3
    <3>3. object' = object
      BY <3>1, <3>2 DEF Ver!RA_VER_create
    <3>4. QED
      BY <1>0, <2>2, <3>3, VerifiersKept
  <2>4. CASE s # <<>>
    <3>1. object' = Diverged
      BY <1>5, <2>4 DEF Reload, Ver!RA_VER_parse, Ver!RA_VER_serialize
    <3>2. 1 \in 1 .. Len(s)
      BY <2>1, <2>4
    <3>3. s[1].id \in Verifiers /\ s[1].client_count \in 1 .. (m - 1)
      BY <1>0, <3>2, ServesParts DEF Record
    <3>4. s[1].client_count = expected[s[1].id]
      BY <1>0, <3>2 DEF Serves
    <3>5. expected[s[1].id] > 0
      BY <3>3, <3>4
    <3>6. QED
      BY <1>0, <2>2, <3>1, <3>3, <3>5, GoneAssumption DEF VerifiersInv, Gone
  <2>5. QED
    BY <2>3, <2>4
<1>6. QED
  BY <1>2, <1>3, <1>4, <1>5 DEF NextVerifiers

(* Every step keeps the invariant: the calls on other objects are none on  *)
(* a list of verifiers.                                                    *)
LEMMA VerifiersStep == VerifiersInv /\ [Next]_vars => VerifiersInv'
<1> SUFFICES ASSUME VerifiersInv, [Next]_vars PROVE VerifiersInv'
    OBVIOUS
<1>1. CASE NextVerifiers
  BY <1>1, NextVerifiersKeeps
<1>2. CASE UNCHANGED vars
  BY <1>2 DEF VerifiersInv, vars
<1>3. CASE NextAreas
  BY <1>3 DEF VerifiersInv, NextAreas, InsertArea, InsertBlock, RemoveBlock, RemoveArea,
              DestroyTable, Live
<1>4. CASE NextValues
  BY <1>4 DEF VerifiersInv, NextValues, SetNonce, SetKey, SetPrepared, SetIdentity,
              ResetPrepared, Live
<1>5. CASE NextList
  BY <1>5 DEF VerifiersInv, NextList, InsertClient, RemoveClient, DeleteClient, Reconnect,
              DestroyList, Live
<1>6. CASE SetClient
  BY <1>6 DEF VerifiersInv, SetClient, Live
<1>7. QED
  BY <1>1, <1>2, <1>3, <1>4, <1>5, <1>6 DEF Next

(* The invariant holds at the start. *)
LEMMA VerifiersStart == Init => VerifiersInv
<1> SUFFICES ASSUME Init, subject = "verifiers" PROVE VerifiersInv
  BY DEF VerifiersInv
<1>1. /\ object = [verifiers |-> <<>>, verifiers_count |-> 0]
      /\ expected = [id \in Verifiers |-> 0]
  BY DEF Init, InitVerifiers, Ver!RA_VER_create
<1>2. expected \in [Verifiers -> Nat]
  BY <1>1
<1>3. Serves(object, expected)
  <2>1. <<>> \in Seq(Record) /\ Len(<<>>) = 0
    OBVIOUS
  <2>2. object \in Ver!verifiers_t(Verifiers, Verifiers)
    BY <1>1, <2>1 DEF Ver!verifiers_t, Record
  <2>3. QED
    BY <1>1, <2>1, <2>2 DEF Serves
<1>4. object \notin Gone
  BY <1>3, ServesLive
<1>5. QED
  BY <1>2, <1>3, <1>4 DEF VerifiersInv, Gone

(* A verifier is in the list as long as it has clients, with their number, *)
(* and is taken out to be killed when the last one leaves, never before;   *)
(* for any number of verifiers, any width of the counter and any sequence  *)
(* of the calls of verifiers_list.c.                                       *)
THEOREM VerifiersExactHolds == Spec => []VerifiersExact
<1>1. Init => VerifiersInv
  BY VerifiersStart
<1>2. VerifiersInv => VerifiersExact
  BY ServesAnswers DEF VerifiersInv, VerifiersExact
<1>3. QED
  BY <1>1, <1>2, VerifiersStep, PTL DEF Spec

-----------------------------------------------------------------------------
(* The fields of a table *)

(* A table without areas, and what may be expected of its fields. *)
ValueTable ==
    ra_table_t({}, Value \cup {Undefined}, Value \cup {Undefined}, Value \cup {Null})

Answers ==
    [nonce : Value \cup {Failed}, key : Value \cup {Failed}, data : Value \cup {Failed},
     AID : Value \cup {Failed}, number : Value \cup {Failed, Undefined}]

(* Beyond what SetThenGet says of it: the types, and what the getter of the *)
(* number yields before it is set.                                         *)
ValuesInv ==
    subject = "values" =>
        /\ object \in ValueTable
        /\ expected \in Answers
        /\ ra_get_current_nonce(object) = expected.nonce
        /\ ra_get_prepared_data(object) = expected.data
        /\ ra_get_AID_reference(object) = expected.AID
        /\ ra_get_attestator_number(object) = expected.number

(* Each setter of the table. *)
LEMMA NextValuesKeeps ==
    ASSUME ValuesInv, NextValues
    PROVE  ValuesInv'
<1>0. subject = "values" /\ subject' = subject
  BY DEF NextValues, Live, SetNonce, SetKey, SetPrepared, SetIdentity, ResetPrepared
<1> USE DEF ValuesInv, ValueTable, Answers, ra_table_t, Answer, Size,
            ra_get_current_nonce, ra_get_prepared_data, ra_get_AID_reference,
            ra_get_attestator_number
<1>1. ASSUME NEW v \in Value, NEW allocated \in BOOLEAN, SetNonce(v, allocated)
      PROVE  ValuesInv'
  <2>1. CASE allocated
    <3>1. /\ object' = [object EXCEPT !.current_nonce = v, !.current_nonce_size = 1]
          /\ expected' = [expected EXCEPT !.nonce = v]
      BY <1>1, <2>1 DEF SetNonce, ra_set_current_nonce
    <3>2. v \in Value \cup {Null} /\ v \in Value \cup {Failed} /\ v # Null /\ 1 \in Nat /\ 1 # 0
      BY ValueAssumption
    <3>3. object' \in ValueTable
      BY <1>0, <3>1, <3>2
    <3>4. expected' \in Answers
      BY <1>0, <3>1, <3>2
    <3>5. QED
      BY <1>0, <3>1, <3>2, <3>3, <3>4
  <2>2. CASE ~allocated
    <3>1. /\ \E n \in Nat : object' = [object EXCEPT !.current_nonce = Null,
                                                  !.current_nonce_size = n]
          /\ expected' = [expected EXCEPT !.nonce = Failed]
      BY <1>0, <1>1, <2>2 DEF SetNonce, ra_set_current_nonce
    <3>2. QED
      BY <1>0, <3>1
  <2>3. QED
    BY <2>1, <2>2
<1>2. ASSUME NEW v \in Value, NEW allocated \in BOOLEAN, SetKey(v, allocated)
      PROVE  ValuesInv'
  <2>1. CASE allocated
    <3>1. /\ object' = [object EXCEPT !.current_key = v, !.current_key_size = 1]
          /\ expected' = [expected EXCEPT !.key = v]
      BY <1>2, <2>1 DEF SetKey, ra_set_current_key
    <3>2. v \in Value \cup {Null} /\ v \in Value \cup {Failed} /\ v # Null /\ 1 \in Nat /\ 1 # 0
      BY ValueAssumption
    <3>3. object' \in ValueTable
      BY <1>0, <3>1, <3>2
    <3>4. expected' \in Answers
      BY <1>0, <3>1, <3>2
    <3>5. QED
      BY <1>0, <3>1, <3>2, <3>3, <3>4
  <2>2. CASE ~allocated
    <3>1. /\ \E n \in Nat : object' = [object EXCEPT !.current_key = Null,
                                                  !.current_key_size = n]
          /\ expected' = [expected EXCEPT !.key = Failed]
      BY <1>0, <1>2, <2>2 DEF SetKey, ra_set_current_key
    <3>2. QED
      BY <1>0, <3>1
  <2>3. QED
    BY <2>1, <2>2
<1>3. ASSUME NEW v \in Value, NEW allocated \in BOOLEAN, SetPrepared(v, allocated)
      PROVE  ValuesInv'
  <2>1. CASE allocated
    <3>1. /\ object' = [object EXCEPT !.prepared_data = v, !.prepared_data_size = 1]
          /\ expected' = [expected EXCEPT !.data = v]
      BY <1>3, <2>1, ValueAssumption DEF SetPrepared, ra_set_prepared_data
    <3>2. v \in Value \cup {Null} /\ v \in Value \cup {Failed} /\ v # Null /\ 1 \in Nat /\ 1 # 0
      BY ValueAssumption
    <3>3. object' \in ValueTable
      BY <1>0, <3>1, <3>2
    <3>4. expected' \in Answers
      BY <1>0, <3>1, <3>2
    <3>5. QED
      BY <1>0, <3>1, <3>2, <3>3, <3>4
  <2>2. CASE ~allocated
    <3>1. /\ object' = [object EXCEPT !.prepared_data = Null]
          /\ expected' = [expected EXCEPT !.data = Failed]
      BY <1>3, <2>2, ValueAssumption DEF SetPrepared, ra_set_prepared_data
    <3>2. QED
      BY <1>0, <3>1
  <2>3. QED
    BY <2>1, <2>2
<1>4. ASSUME NEW v \in Value, SetIdentity(v)
      PROVE  ValuesInv'
  BY <1>0, <1>4 DEF SetIdentity, ra_set_AID, ra_set_attestator_number
<1>5. ASSUME ResetPrepared
      PROVE  ValuesInv'
  BY <1>0, <1>5 DEF ResetPrepared, ra_set_prepared_data, ra_reset_prepared_data
<1>6. QED
  BY <1>1, <1>2, <1>3, <1>4, <1>5 DEF NextValues

-----------------------------------------------------------------------------
(* Clients *)

(* Different AIDs have different strings and compare as different. *)
LEMMA AIDFacts ==
    ASSUME NEW a \in AIDs, NEW b \in AIDs
    PROVE  /\ CompareBytes(a, b) = 0 <=> a = b
           /\ Len(a) = 1 /\ Len(b) = 1
           /\ a[1] \div 16 = b[1] \div 16 <=> a = b
<1>1. PICK x \in {0, 18, 255} : a = <<x>>
  BY DEF AIDs
<1>2. PICK y \in {0, 18, 255} : b = <<y>>
  BY DEF AIDs
<1>3. /\ Len(a) = 1 /\ Len(b) = 1 /\ DOMAIN a = {1}
      /\ a[1] = x /\ b[1] = y
      /\ a = b <=> x = y
  BY <1>1, <1>2
<1>4. x \div 16 = y \div 16 <=> x = y
  <2>1. 0 \div 16 = 0 /\ 18 \div 16 = 1 /\ 255 \div 16 = 15
    OBVIOUS
  <2>2. QED
    BY <2>1
<1>5. CompareBytes(a, b) = 0 <=> x = y
  <2> DEFINE diff == {i \in DOMAIN a : a[i] # b[i]}
  <2>1. CASE x = y
    <3>1. diff = {}
      BY <1>3, <2>1
    <3>2. QED
      BY <2>1, <3>1 DEF CompareBytes
  <2>2. CASE x # y
    <3>1. diff = {1}
      BY <1>3, <2>2
    <3>2. CompareBytes(a, b) \in {-1, 1}
      BY <3>1 DEF CompareBytes
    <3>3. QED
      BY <2>2, <3>2
  <2>3. QED
    BY <2>1, <2>2
<1>6. QED
  BY <1>3, <1>4, <1>5

(* RA_CLI_compare takes two clients for one exactly when their AIDs are the *)
(* same and their numbers are so in the bits of an int.                    *)
LEMMA CompareFacts ==
    ASSUME NEW c, NEW d, c.AID \in AIDs, d.AID \in AIDs,
           c.attestator_number \in Nat, d.attestator_number \in Nat
    PROVE  SameClient(c, d) <=>
              /\ c.AID = d.AID
              /\ c.attestator_number % 2 ^ Width = d.attestator_number % 2 ^ Width
<1>1. PICK h \in Nat \ {0} : h = 2 ^ (Width - 1) /\ 2 ^ Width = 2 * h
  BY PowerAssumption
<1>2. PICK m \in Nat \ {0} : m = 2 ^ Width /\ m = 2 * h
  BY <1>1
<1>3. PICK x \in Nat : x = c.attestator_number
  OBVIOUS
<1>4. PICK y \in Nat : y = d.attestator_number
  OBVIOUS
<1>5. CompareBytes(c.AID, d.AID) = 0 <=> c.AID = d.AID
  BY AIDFacts
<1>6. PICK z \in Nat : z = (x - y) % m /\ z < m
  <2>1. x - y \in Int
    OBVIOUS
  <2>2. QED
    BY <2>1, DivMod
<1>7. z = 0 <=> x % m = y % m
  <2>1. x \in Int /\ y \in Int
    OBVIOUS
  <2>2. (x - y) % m = 0 <=> x % m = y % m
    BY <2>1, SameRemainder
  <2>3. QED
    BY <1>6, <2>2
<1>8. CASE c.AID # d.AID
  BY <1>5, <1>8 DEF SameClient, RA_CLI_compare
<1>9. CASE c.AID = d.AID
  <2>1. RA_CLI_compare(c, d) = IF z < h THEN z ELSE z - m
    BY <1>1, <1>2, <1>3, <1>4, <1>5, <1>6, <1>9 DEF RA_CLI_compare
  <2>2. RA_CLI_compare(c, d) = 0 <=> z = 0
    BY <1>1, <1>2, <1>6, <2>1
  <2>3. QED
    BY <1>2, <1>3, <1>4, <1>7, <1>9, <2>2 DEF SameClient
<1>10. QED
  BY <1>8, <1>9

(* The setters of a client and of its history do the same. *)
ClientInv ==
    subject = "client" =>
        /\ object = expected
        /\ object \in ra_client_t(AIDs, Nat, Nat, Nat, Session \cup {1})

(* Each setter of a client. *)
LEMMA SetClientKeeps ==
    ASSUME ClientInv, SetClient
    PROVE  ClientInv'
<1>0. /\ subject = "client" /\ subject' = subject
      /\ object = expected
      /\ object \in ra_client_t(AIDs, Nat, Nat, Nat, Session \cup {1})
  BY DEF SetClient, Live, ClientInv
<1>1. object' = expected'
  BY <1>0 DEF SetClient, RA_CLI_set_AID, RA_CLI_set_attestator_number,
              RA_CLI_set_attestator_id, RA_CLI_set_sleep_avg_seconds,
              RA_CLI_set_sleep_var_seconds, RA_CLI_set_session_id
<1>2. object' \in ra_client_t(AIDs, Nat, Nat, Nat, Session \cup {1})
  BY <1>0, NumbersAssumption
     DEF SetClient, RA_CLI_set_AID, RA_CLI_set_attestator_number,
         RA_CLI_set_attestator_id, RA_CLI_set_sleep_avg_seconds,
         RA_CLI_set_sleep_var_seconds, RA_CLI_set_session_id, ra_client_t
<1>3. QED
  BY <1>1, <1>2 DEF ClientInv

(* Every step keeps both invariants. *)
LEMMA FieldsStep == ValuesInv /\ ClientInv /\ [Next]_vars => ValuesInv' /\ ClientInv'
<1> SUFFICES ASSUME ValuesInv, ClientInv, [Next]_vars PROVE ValuesInv' /\ ClientInv'
    OBVIOUS
<1>1. CASE NextValues
  <2>1. subject = "values" /\ subject' = subject
    BY <1>1 DEF NextValues, Live, SetNonce, SetKey, SetPrepared, SetIdentity, ResetPrepared
  <2>2. QED
    BY <1>1, <2>1, NextValuesKeeps DEF ClientInv
<1>2. CASE SetClient
  <2>1. subject = "client" /\ subject' = subject
    BY <1>2 DEF SetClient, Live
  <2>2. QED
    BY <1>2, <2>1, SetClientKeeps DEF ValuesInv
<1>3. CASE UNCHANGED vars
  BY <1>3 DEF ValuesInv, ClientInv, vars
<1>4. CASE NextAreas
  BY <1>4 DEF ValuesInv, ClientInv, NextAreas, InsertArea, InsertBlock, RemoveBlock,
              RemoveArea, DestroyTable, Live
<1>5. CASE NextList
  BY <1>5 DEF ValuesInv, ClientInv, NextList, InsertClient, RemoveClient, DeleteClient,
              Reconnect, DestroyList, Live
<1>6. CASE NextVerifiers
  BY <1>6 DEF ValuesInv, ClientInv, NextVerifiers, Appear, Leave, Stop, Reload, Live
<1>7. QED
  BY <1>1, <1>2, <1>3, <1>4, <1>5, <1>6 DEF Next

(* A field that is read is the one set last, of tables and of clients, and *)
(* a client is equal to those with its AID and number.                     *)
LEMMA FieldsAnswer == ValuesInv /\ ClientInv => SetThenGet
<1> SUFFICES ASSUME ValuesInv, ClientInv PROVE SetThenGet
    OBVIOUS
<1>1. ASSUME Live("values")
      PROVE  /\ ra_get_current_nonce(object) = expected.nonce
             /\ ra_get_prepared_data(object) = expected.data
             /\ ra_get_AID_reference(object) = expected.AID
             /\ ra_get_attestator_number(object) = expected.number
  BY <1>1 DEF Live, ValuesInv
<1>2. ASSUME Live("client")
      PROVE  /\ object = expected
             /\ object \in ra_client_t(AIDs, Nat, Nat, Nat, Session \cup {1})
  BY <1>2 DEF Live, ClientInv
<1>3. ASSUME Live("client"), NEW AID \in AIDs
      PROVE  RA_CLI_get_AID_as_string(object)
                = RA_CLI_get_AID_as_string(RA_CLI_set_AID(object, AID)) <=> AID = expected.AID
  <2> DEFINE a == object.AID
             other == RA_CLI_set_AID(object, AID)
             first == RA_CLI_get_AID_as_string(object)
             second == RA_CLI_get_AID_as_string(other)
  <2>1. /\ a \in AIDs /\ expected.AID = a /\ other.AID = AID
        /\ other = [object EXCEPT !.AID = AID]
    BY <1>2, <1>3 DEF ra_client_t, RA_CLI_set_AID
  <2>2. /\ Len(a) = 1 /\ Len(AID) = 1
        /\ a[1] \div 16 = AID[1] \div 16 <=> a = AID
    BY <2>1, AIDFacts
  <2>3. 1 \in 1 .. 2 * 1 /\ (1 + 1) \div 2 = 1 /\ 1 % 2 = 1
    OBVIOUS
  <2>4. first[1] = a[1] \div 16
    BY <2>2, <2>3 DEF RA_CLI_get_AID_as_string
  <2>5. second[1] = AID[1] \div 16
    BY <2>1, <2>2, <2>3 DEF RA_CLI_get_AID_as_string
  <2>6. a = AID => first = second
    BY <2>1 DEF RA_CLI_get_AID_as_string
  <2>7. QED
    BY <2>1, <2>2, <2>4, <2>5, <2>6
<1>4. ASSUME Live("client"), NEW c \in Client, c.AID = expected.AID,
             c.attestator_number = expected.attestator_number
      PROVE  SameClient(object, c)
  <2>1. object.AID \in AIDs /\ object.attestator_number \in Nat /\ expected = object
    BY <1>2, <1>4 DEF ra_client_t
  <2>2. c.AID \in AIDs /\ c.attestator_number \in Nat
    BY NumbersAssumption DEF Client, RA_CLI_create, AIDs
  <2>3. SameClient(object, c) <=>
           /\ object.AID = c.AID
           /\ object.attestator_number % 2 ^ Width = c.attestator_number % 2 ^ Width
    BY <2>1, <2>2, CompareFacts
  <2>4. QED
    BY <1>4, <2>1, <2>3
<1>5. QED
  BY <1>1, <1>2, <1>3, <1>4
     DEF SetThenGet, RA_CLI_get_AID_reference, RA_CLI_get_attestator_number,
         RA_CLI_get_attestator_id, RA_CLI_get_sleep_avg_seconds,
         RA_CLI_get_sleep_var_seconds, RA_CLI_get_session_id

(* As it does of a client. *)
LEMMA ClientStart == Init => ClientInv
<1>1. <<0>> \in AIDs
  BY DEF AIDs
<1>2. QED
  BY <1>1 DEF Init, InitClient, ClientInv, RA_CLI_create, ra_client_t

(* The invariant of the fields holds at the start. *)
LEMMA ValuesStart == Init => ValuesInv
<1> SUFFICES ASSUME Init, subject = "values" PROVE ValuesInv
  BY DEF ValuesInv
<1>1. PICK garbage \in BOOLEAN :
         /\ object = ra_create_table(garbage)
         /\ expected = [nonce |-> Failed, key |-> Failed, data |-> Failed,
                        AID |-> Failed, number |-> IF garbage THEN Undefined ELSE Failed]
  BY DEF Init, InitValues
<1>2. object \in ValueTable /\ expected \in Answers
  BY <1>1 DEF ValueTable, Answers, ra_table_t, ra_create_table, Pointer
<1>3. QED
  BY <1>1, <1>2 DEF ValuesInv, ra_create_table, ra_get_current_nonce, ra_get_prepared_data,
                    ra_get_AID_reference, ra_get_attestator_number

(* A nonce, prepared data, an AID or a number that is read is the one set  *)
(* last, after any sequence of calls and failed allocations of             *)
(* ra_data_table.c, and so is any field of a client after any setters of   *)
(* ra_client.c, which compares as equal to its likes: for any values and   *)
(* any width of an int.  The key, whose getter refuses every key that was  *)
(* set, is not among them.                                                 *)
THEOREM SetThenGetHolds == Spec => []SetThenGet
<1>1. Init => ValuesInv
  BY ValuesStart
<1>2. Init => ClientInv
  BY ClientStart
<1>3. QED
  BY <1>1, <1>2, FieldsStep, FieldsAnswer, PTL DEF Spec

-----------------------------------------------------------------------------
(* Lists of clients *)

(* What the list tells clients apart by. *)
Low(c) == c.attestator_number % 2 ^ Width

(* Two clients of the model are compared by their numbers only. *)
LEMMA SameLow ==
    ASSUME NEW c \in Client, NEW d \in Client
    PROVE  SameClient(c, d) <=> Low(c) = Low(d)
<1>1. \A x \in Client : x.AID = <<0>> /\ x.attestator_number \in Nat
  BY NumbersAssumption DEF Client, RA_CLI_create
<1>2. <<0>> \in AIDs
  BY Zenon DEF AIDs
<1>3. QED
  BY <1>1, <1>2, CompareFacts DEF Low

(* No two items are taken for one. *)
Apart(items) == \A j, k \in 1 .. Len(items) : Low(items[j]) = Low(items[k]) => j = k

(* A list of clients that are told apart, whose counter is not too small.  *)
Listed(list) ==
    /\ list \in List!generic_list(Client)
    /\ Len(list.items) <= list.items_count
    /\ Apart(list.items)

(* The inductive invariant behind ListExact. *)
ListInv ==
    subject = "list" =>
        /\ removed \in Nat
        /\ expected \subseteq Client
        /\ object = Undefined => removed > 0 \/ expected = {}
        /\ object \notin Gone =>
              /\ Listed(object)
              /\ removed = 0 => /\ object.items_count = Len(object.items)
                                /\ ToSet(object.items) = expected

(* The parts of such a list. *)
LEMMA ListedParts ==
    ASSUME NEW list, Listed(list)
    PROVE  /\ list = [items |-> list.items, items_count |-> list.items_count]
           /\ list.items \in Seq(Client)
           /\ list.items_count \in Nat
           /\ Len(list.items) \in Nat
           /\ DOMAIN list.items = 1 .. Len(list.items)
           /\ \A i \in 1 .. Len(list.items) : list.items[i] \in Client
<1>1. /\ list = [items |-> list.items, items_count |-> list.items_count]
      /\ list.items \in Seq(Client)
      /\ list.items_count \in Nat
  BY DEF Listed, List!generic_list
<1>2. QED
  BY <1>1, LenProperties, ElementOfSeq

(* Conversely. *)
LEMMA ListedIntro ==
    ASSUME NEW items \in Seq(Client), NEW n \in Nat, Len(items) <= n, Apart(items)
    PROVE  Listed([items |-> items, items_count |-> n])
  BY DEF Listed, List!generic_list

(* The search finds an item that matches, or there is none. *)
LEMMA MatchFacts ==
    ASSUME NEW list, Listed(list), NEW data \in Client, NEW first \in Nat \ {0}
    PROVE  LET k == List!MatchFrom(list, data, first) IN
           /\ k = 0 \/ k \in first .. Len(list.items)
           /\ k # 0 => Low(list.items[k]) = Low(data)
           /\ k = 0 => \A i \in first .. Len(list.items) : Low(list.items[i]) # Low(data)
<1> DEFINE s == list.items
           k == List!MatchFrom(list, data, first)
           I == {i \in first .. Len(s) : SameClient(s[i], data)}
<1>1. k = IF I # {} THEN Min(I) ELSE 0
  BY DEF List!MatchFrom, List!SelectInSubSeq, List!Min, Min
<1>2. Len(s) \in Nat /\ \A i \in 1 .. Len(s) : s[i] \in Client
  BY ListedParts
<1>3. \A i \in first .. Len(s) : i \in 1 .. Len(s)
  BY <1>2
<1>4. \A i \in first .. Len(s) : i \in I <=> Low(s[i]) = Low(data)
  BY <1>2, <1>3, SameLow
<1>5. I \in SUBSET Nat
  BY <1>2
<1>6. CASE I = {}
  BY <1>1, <1>4, <1>6
<1>7. CASE I # {}
  <2>1. Min(I) \in I
    BY <1>5, <1>7, MinFacts
  <2> HIDE DEF k
  <2>2. k \in I /\ k \in first .. Len(s)
    BY <1>1, <1>7, <2>1
  <2>3. k # 0 /\ Low(s[k]) = Low(data)
    BY <1>2, <1>4, <2>2
  <2>4. QED
    BY <2>2, <2>3 DEF k
<1>8. QED
  BY <1>6, <1>7

(* Without one of its items a list is still one. *)
LEMMA RemoveListed ==
    ASSUME NEW list, Listed(list), NEW p \in 1 .. Len(list.items)
    PROVE  /\ RemoveAt(list.items, p) \in Seq(Client)
           /\ Len(RemoveAt(list.items, p)) = Len(list.items) - 1
           /\ Apart(RemoveAt(list.items, p))
           /\ ToSet(RemoveAt(list.items, p))
                 = {c \in ToSet(list.items) : Low(c) # Low(list.items[p])}
<1> DEFINE s == list.items
           v == RemoveAt(s, p)
<1>1. /\ s \in Seq(Client) /\ Len(s) \in Nat /\ DOMAIN s = 1 .. Len(s)
      /\ \A i \in 1 .. Len(s) : s[i] \in Client
      /\ Apart(s)
  BY ListedParts DEF Listed
<1>2. /\ v \in Seq(Client)
      /\ Len(v) = Len(s) - 1
      /\ \A k \in 1 .. Len(s) - 1 : v[k] = IF k < p THEN s[k] ELSE s[k + 1]
  BY <1>1, RemoveAtFacts
<1> HIDE DEF v
<1>3. DOMAIN v = 1 .. Len(v)
  BY <1>2
<1> DEFINE old(k) == IF k < p THEN k ELSE k + 1
<1>4. \A k \in 1 .. Len(v) : old(k) \in 1 .. Len(s) /\ old(k) # p /\ v[k] = s[old(k)]
  BY <1>1, <1>2
<1>5. \A j, k \in 1 .. Len(v) : old(j) = old(k) => j = k
  BY <1>1, <1>2
<1>6. \A i \in 1 .. Len(s) : i # p => \E k \in 1 .. Len(v) : old(k) = i
  <2> SUFFICES ASSUME NEW i \in 1 .. Len(s), i # p
               PROVE  \E k \in 1 .. Len(v) : old(k) = i
    OBVIOUS
  <2>1. CASE i < p
    BY <2>1, <1>1, <1>2
  <2>2. CASE i > p
    <3>1. i - 1 \in 1 .. Len(v) /\ old(i - 1) = i
      BY <2>2, <1>1, <1>2
    <3>2. QED
      BY <3>1
  <2>3. QED
    BY <2>1, <2>2, <1>1
<1> HIDE DEF old, s
<1>7. ASSUME NEW j \in 1 .. Len(v), NEW k \in 1 .. Len(v), Low(v[j]) = Low(v[k])
      PROVE  j = k
  <2>1. /\ old(j) \in 1 .. Len(s) /\ old(k) \in 1 .. Len(s)
        /\ Low(s[old(j)]) = Low(s[old(k)])
    BY <1>4, <1>7
  <2>2. old(j) = old(k)
    BY <2>1, <1>1 DEF Apart
  <2>3. QED
    BY <2>2, <1>5
<1>8. ASSUME NEW c
      PROVE  c \in ToSet(v) <=> c \in ToSet(s) /\ Low(c) # Low(s[p])
  <2>0. p \in 1 .. Len(s)
    BY DEF s
  <2>1. ASSUME c \in ToSet(v) PROVE c \in ToSet(s) /\ Low(c) # Low(s[p])
    <3>1. PICK k \in 1 .. Len(v) : c = v[k]
      BY <2>1, <1>3 DEF ToSet
    <3>2. c = s[old(k)] /\ old(k) \in 1 .. Len(s) /\ old(k) # p
      BY <3>1, <1>4
    <3>3. QED
      BY <2>0, <3>2, <1>1 DEF ToSet, Apart
  <2>2. ASSUME c \in ToSet(s), Low(c) # Low(s[p]) PROVE c \in ToSet(v)
    <3>1. PICK i \in 1 .. Len(s) : c = s[i]
      BY <2>2, <1>1 DEF ToSet
    <3>2. i # p
      BY <3>1, <2>2
    <3>3. PICK k \in 1 .. Len(v) : old(k) = i
      BY <3>2, <1>6
    <3>4. QED
      BY <3>1, <3>3, <1>3, <1>4 DEF ToSet
  <2>3. QED
    BY <2>1, <2>2
<1>9. QED
  BY <1>2, <1>7, <1>8 DEF Apart, v, s

(* A list that holds what is expected keeps the invariant. *)
LEMMA ListKept ==
    ASSUME Listed(object'), removed' \in Nat, expected' \subseteq Client,
           removed' = 0 => /\ object'.items_count = Len(object'.items)
                           /\ ToSet(object'.items) = expected'
    PROVE  ListInv'
<1>1. object' \notin {Null, Undefined, Diverged}
  BY GoneAssumption DEF Listed, Gone
<1>2. QED
  BY <1>1 DEF ListInv, Gone

(* The clients taken for a given one are those with its low bits. *)
LEMMA AlikeLow ==
    ASSUME NEW set, NEW client
    PROVE  Alike(set, client) = {c \in set : Low(c) = Low(client)}
  BY DEF Alike, Low

(* Whether a list holds a client. *)
LEMMA ContainingLow ==
    ASSUME NEW list, Listed(list), NEW client \in Client
    PROVE  List!gl_is_containing(list, client)
              <=> \E k \in 1 .. Len(list.items) : Low(list.items[k]) = Low(client)
<1>1. /\ DOMAIN list.items = 1 .. Len(list.items)
      /\ \A i \in 1 .. Len(list.items) : list.items[i] \in Client
  BY ListedParts
<1>2. List!gl_is_containing(list, client)
         <=> \E k \in 1 .. Len(list.items) : SameClient(list.items[k], client)
  BY <1>1 DEF List!gl_is_containing
<1>3. QED
  BY <1>1, <1>2, SameLow

(* The same in terms of the set of items. *)
LEMMA ContainingAlike ==
    ASSUME NEW list, Listed(list), NEW client \in Client
    PROVE  List!gl_is_containing(list, client) <=> Alike(ToSet(list.items), client) # {}
<1>1. DOMAIN list.items = 1 .. Len(list.items)
  BY ListedParts
<1>2. Alike(ToSet(list.items), client) = {c \in ToSet(list.items) : Low(c) = Low(client)}
  BY AlikeLow
<1>3. (\E k \in 1 .. Len(list.items) : Low(list.items[k]) = Low(client))
         <=> \E c \in ToSet(list.items) : Low(c) = Low(client)
  BY <1>1 DEF ToSet
<1>4. List!gl_is_containing(list, client)
         <=> \E k \in 1 .. Len(list.items) : Low(list.items[k]) = Low(client)
  BY ContainingLow
<1>5. QED
  BY <1>2, <1>3, <1>4

(* A reference is to the item that matches. *)
LEMMA ReferenceFacts ==
    ASSUME NEW list, Listed(list), NEW client \in Client,
           List!gl_get_reference(list, client) # Failed
    PROVE  \E p \in 1 .. Len(list.items) :
              /\ List!gl_get_reference(list, client) = list.items[p]
              /\ Low(list.items[p]) = Low(client)
<1> DEFINE s == list.items
           I == {i \in 1 .. Len(s) : SameClient(s[i], client)}
<1>1. List!gl_get_reference(list, client)
         = IF (IF I # {} THEN Min(I) ELSE 0) = 0 THEN Failed
           ELSE s[IF I # {} THEN Min(I) ELSE 0]
  BY DEF List!gl_get_reference, List!SelectInSeq, List!Min, Min
<1>2. I # {}
  BY <1>1
<1>3. Min(I) \in I
  <2>1. I \in SUBSET Nat
    OBVIOUS
  <2>2. QED
    BY <1>2, <2>1, MinFacts
<1>4. Min(I) \in 1 .. Len(s) /\ Min(I) # 0 /\ SameClient(s[Min(I)], client)
  BY <1>3
<1>5. s[Min(I)] \in Client
  BY <1>4, ListedParts
<1>6. Low(s[Min(I)]) = Low(client)
  BY <1>4, <1>5, SameLow
<1>7. List!gl_get_reference(list, client) = s[Min(I)]
  BY <1>1, <1>2, <1>4
<1>8. QED
  BY <1>4, <1>6, <1>7

(* Another session makes no other client to the list. *)
LEMMA ReconnectedClient ==
    ASSUME NEW client \in Client, NEW c \in Client
    PROVE  /\ RA_CLI_set_session_id(c, client.session_id) \in Client
           /\ Low(RA_CLI_set_session_id(c, client.session_id)) = Low(c)
<1>1. PICK a \in Numbers, t \in Session : c = RA_CLI_create(<<0>>, a, a, 1, 1, t)
  BY DEF Client
<1>2. client.session_id \in Session
  BY DEF Client, RA_CLI_create
<1>3. RA_CLI_set_session_id(c, client.session_id)
         = RA_CLI_create(<<0>>, a, a, 1, 1, client.session_id)
  BY <1>1 DEF RA_CLI_set_session_id, RA_CLI_create
<1>4. RA_CLI_set_session_id(c, client.session_id).attestator_number = c.attestator_number
  BY <1>1, <1>3 DEF RA_CLI_create
<1>5. QED
  BY <1>2, <1>3, <1>4 DEF Client, Low

(* The calls of generic_list.c. *)
LEMMA NextListKeeps ==
    ASSUME ListInv, NextList
    PROVE  ListInv'
<1> DEFINE s == object.items
           n == object.items_count
<1>0. /\ subject = "list" /\ subject' = subject
      /\ removed \in Nat
      /\ expected \subseteq Client
      /\ Listed(object)
      /\ removed = 0 => n = Len(s) /\ ToSet(s) = expected
  BY DEF NextList, Live, InsertClient, RemoveClient, DeleteClient, Reconnect, DestroyList,
         ListInv
<1>1. /\ object = [items |-> s, items_count |-> n]
      /\ s \in Seq(Client) /\ n \in Nat /\ Len(s) \in Nat /\ Len(s) <= n
      /\ DOMAIN s = 1 .. Len(s)
      /\ \A i \in 1 .. Len(s) : s[i] \in Client
      /\ Apart(s)
  BY <1>0, ListedParts DEF Listed
<1>2. ASSUME NEW client \in Client, NEW allocated \in BOOLEAN, InsertClient(client, allocated)
      PROVE  ListInv'
  <2>1. removed' = removed
    BY <1>2 DEF InsertClient
  <2>2. CASE List!gl_is_containing(object, client) \/ ~allocated
    <3>1. object' = object
      BY <1>2, <2>2 DEF InsertClient, List!gl_insert, List!GLAnswer
    <3>2. expected' = expected \/ expected' = expected \cup {client}
      BY <1>2 DEF InsertClient
    <3>3. removed = 0 => expected' = expected
      BY <1>0, <1>2, <2>2, ContainingAlike DEF InsertClient
    <3>4. expected' \subseteq Client
      BY <1>0, <3>2
    <3>5. QED
      BY <1>0, <2>1, <3>1, <3>3, <3>4, ListKept
  <2>3. CASE ~List!gl_is_containing(object, client) /\ allocated
    <3> DEFINE v == <<client>> \o s
    <3>1. object' = [items |-> v, items_count |-> n + 1]
      BY <1>2, <2>3 DEF InsertClient, List!gl_insert, List!GLAnswer
    <3>2. /\ v \in Seq(Client) /\ Len(v) = Len(s) + 1
          /\ v[1] = client /\ \A i \in 2 .. Len(s) + 1 : v[i] = s[i - 1]
      BY <1>1
    <3> HIDE DEF v
    <3>3. \A i \in 1 .. Len(s) : Low(s[i]) # Low(client)
      BY <1>0, <2>3, ContainingLow
    <3>4. \A i \in 1 .. Len(v) : i # 1 => i - 1 \in 1 .. Len(s) /\ v[i] = s[i - 1]
      <4> SUFFICES ASSUME NEW i \in 1 .. Len(v), i # 1
                   PROVE  i - 1 \in 1 .. Len(s) /\ v[i] = s[i - 1]
        OBVIOUS
      <4>1. i \in 2 .. Len(s) + 1 /\ i - 1 \in 1 .. Len(s)
        BY <1>1, <3>2
      <4>2. QED
        BY <3>2, <4>1
    <3>5. ASSUME NEW i \in 1 .. Len(v), NEW k \in 1 .. Len(v), Low(v[i]) = Low(v[k])
          PROVE  i = k
      <4>1. CASE i = 1 \/ k = 1
        BY <3>2, <3>3, <3>4, <3>5, <4>1
      <4>2. CASE i # 1 /\ k # 1
        <5>1. i - 1 = k - 1
          BY <1>1, <3>4, <3>5, <4>2 DEF Apart
        <5>2. QED
          BY <5>1
      <4>3. QED
        BY <4>1, <4>2
    <3>6. n + 1 \in Nat /\ Len(v) <= n + 1
      BY <1>1, <3>2
    <3>7. Listed(object')
      <4>1. Apart(v)
        BY <3>5 DEF Apart
      <4>2. QED
        BY <3>1, <3>2, <3>6, <4>1, ListedIntro
    <3>8. object'.items = v /\ object'.items_count = n + 1
      BY <3>1
    <3>9. expected' \subseteq Client
      BY <1>0, <1>2 DEF InsertClient
    <3>10. ToSet(v) = ToSet(s) \cup {client}
      <4>1. DOMAIN v = 1 .. Len(v)
        BY <3>2
      <4>2. \A i \in 1 .. Len(s) : i + 1 \in 1 .. Len(v) /\ v[i + 1] = s[i]
        BY <1>1, <3>2
      <4>3. 1 \in 1 .. Len(v)
        BY <1>1, <3>2
      <4>4. QED
        BY <1>1, <3>2, <3>4, <4>1, <4>2, <4>3 DEF ToSet
    <3>11. removed = 0 => expected' = expected \cup {client}
      BY <1>0, <1>2, <2>3, ContainingAlike DEF InsertClient
    <3>12. removed = 0 => n + 1 = Len(v) /\ ToSet(v) = expected'
      BY <1>0, <3>2, <3>10, <3>11
    <3>13. QED
      BY <1>0, <2>1, <3>7, <3>8, <3>9, <3>12, ListKept
  <2>4. QED
    BY <2>2, <2>3
<1>3. ASSUME NEW client \in Client, RemoveClient(client)
      PROVE  ListInv'
  <2> DEFINE k == List!MatchFrom(object, client, 1)
  <2>1. /\ removed' = removed
        /\ expected' = expected \ Alike(expected, client)
        /\ expected' \subseteq Client
    BY <1>0, <1>3 DEF RemoveClient
  <2>2. expected' = {c \in expected : Low(c) # Low(client)}
    BY <2>1, AlikeLow
  <2>3. CASE s = <<>>
    <3>1. object' = Undefined
      BY <1>3, <2>3 DEF RemoveClient, List!gl_remove, List!GLAnswer
    <3>2. removed = 0 => expected = {}
      BY <1>0, <2>3 DEF ToSet
    <3>3. removed > 0 \/ expected' = {}
      BY <1>0, <2>2, <3>2
    <3>4. QED
      BY <1>0, <2>1, <3>1, <3>3 DEF ListInv, Gone
  <2>4. CASE s # <<>> /\ k = 0
    <3>1. object' = object
      BY <1>3, <2>4 DEF RemoveClient, List!gl_remove, List!GLAnswer
    <3>2. \A i \in 1 .. Len(s) : Low(s[i]) # Low(client)
      BY <1>0, <2>4, MatchFacts
    <3>3. removed = 0 => expected' = expected
      BY <1>0, <1>1, <2>2, <3>2 DEF ToSet
    <3>4. QED
      BY <1>0, <2>1, <3>1, <3>3, ListKept
  <2>5. CASE s # <<>> /\ k # 0
    <3> DEFINE v == RemoveAt(s, k)
    <3>1. k \in 1 .. Len(s) /\ Low(s[k]) = Low(client)
      BY <1>0, <2>5, MatchFacts
    <3>2. object' = [items |-> v, items_count |-> n - 1]
      BY <1>3, <2>5 DEF RemoveClient, List!gl_remove, List!GLAnswer, List!RemoveAt, RemoveAt
    <3> HIDE DEF k
    <3>3. /\ v \in Seq(Client) /\ Len(v) = Len(s) - 1 /\ Apart(v)
          /\ ToSet(v) = {c \in ToSet(s) : Low(c) # Low(s[k])}
      BY <1>0, <3>1, RemoveListed
    <3> HIDE DEF v
    <3>4. n - 1 \in Nat /\ Len(v) <= n - 1
      BY <1>1, <3>1, <3>3
    <3>5. Listed(object')
      BY <3>2, <3>3, <3>4, ListedIntro
    <3>6. object'.items = v /\ object'.items_count = n - 1
      BY <3>2
    <3>7. removed = 0 => n - 1 = Len(v) /\ ToSet(v) = expected'
      BY <1>0, <2>2, <3>1, <3>3
    <3>8. QED
      BY <1>0, <2>1, <3>5, <3>6, <3>7, ListKept
  <2>6. QED
    BY <2>3, <2>4, <2>5
<1>4. ASSUME NEW client \in Client, DeleteClient(client)
      PROVE  ListInv'
  <2> DEFINE k == List!MatchFrom(object, client, 3)
  <2>1. /\ removed' \in Nat /\ removed' > 0
        /\ expected' \subseteq Client
    BY <1>0, <1>4 DEF DeleteClient
  <2>2. CASE object' = Undefined
    BY <2>1, <2>2 DEF ListInv, Gone
  <2>3. CASE object' = object
    BY <1>0, <2>1, <2>3, ListKept
  <2>4. CASE s # <<>> /\ object' = [object EXCEPT !.items = Tail(s)]
    <3>1. 1 \in 1 .. Len(s) /\ Tail(s) = RemoveAt(s, 1)
      <4>1. 1 \in 1 .. Len(s)
        BY <1>1, <2>4
      <4>2. /\ Tail(s) \in Seq(Client) /\ Len(Tail(s)) = Len(s) - 1
            /\ \A i \in 1 .. Len(s) - 1 : Tail(s)[i] = s[i + 1]
        BY <1>1, <2>4, HeadTailProperties
      <4>3. /\ RemoveAt(s, 1) \in Seq(Client) /\ Len(RemoveAt(s, 1)) = Len(s) - 1
            /\ \A i \in 1 .. Len(s) - 1 : RemoveAt(s, 1)[i] = s[i + 1]
        BY <1>1, <4>1, RemoveAtFacts
      <4>4. QED
        BY <4>1, <4>2, <4>3, SeqEqual
    <3> DEFINE v == RemoveAt(s, 1)
    <3>2. v \in Seq(Client) /\ Len(v) = Len(s) - 1 /\ Apart(v)
      BY <1>0, <3>1, RemoveListed
    <3>3. object' = [items |-> v, items_count |-> n]
      <4> HIDE DEF v
      <4>1. object' = [object EXCEPT !.items = v]
        BY <2>4, <3>1 DEF v
      <4>2. QED
        BY <1>1, <4>1
    <3> HIDE DEF v
    <3>4. Listed(object')
      BY <1>1, <3>2, <3>3, ListedIntro
    <3>5. QED
      BY <2>1, <3>4, ListKept
  <2>5. CASE s # <<>> /\ k # 0 /\ object' = [object EXCEPT !.items = RemoveAt(@, k)]
    <3> DEFINE v == RemoveAt(s, k)
    <3>1. k \in 3 .. Len(s)
      BY <1>0, <2>5, MatchFacts
    <3> HIDE DEF k
    <3>2. k \in 1 .. Len(s)
      BY <1>1, <3>1
    <3>3. v \in Seq(Client) /\ Len(v) = Len(s) - 1 /\ Apart(v)
      BY <1>0, <3>2, RemoveListed
    <3>4. object' = [items |-> v, items_count |-> n]
      BY <1>1, <2>5
    <3> HIDE DEF v
    <3>5. Listed(object')
      BY <1>1, <3>3, <3>4, ListedIntro
    <3>6. QED
      BY <2>1, <3>5, ListKept
  <2>6. QED
    BY <1>4, <2>2, <2>3, <2>4, <2>5
       DEF DeleteClient, List!gl_delete, List!GLAnswer, List!RemoveAt, RemoveAt
<1>5. ASSUME NEW client \in Client, Reconnect(client)
      PROVE  ListInv'
  <2> DEFINE ref == List!gl_get_reference(object, client)
             new(c) == RA_CLI_set_session_id(c, client.session_id)
             v == [k \in DOMAIN s |-> IF s[k] = ref THEN new(s[k]) ELSE s[k]]
  <2>1. PICK p \in 1 .. Len(s) : ref = s[p] /\ Low(s[p]) = Low(client)
    BY <1>0, <1>5, ReferenceFacts DEF Reconnect
  <2>2. object' = [items |-> v, items_count |-> n]
    <3>1. object' = [object EXCEPT !.items =
                       [k \in DOMAIN @ |-> IF @[k] = ref THEN new(@[k]) ELSE @[k]]]
      BY <1>5 DEF Reconnect
    <3> HIDE DEF ref, new
    <3>2. QED
      BY <1>1, <3>1
  <2>3. /\ removed' = removed
        /\ expected' = (expected \ Alike(expected, client))
                          \cup {new(c) : c \in Alike(expected, client)}
    BY <1>5 DEF Reconnect
  <2>4. \A c \in Client : new(c) \in Client /\ Low(new(c)) = Low(c)
    BY ReconnectedClient
  <2> HIDE DEF new, ref
  <2>5. \A i \in 1 .. Len(s) : i # p => s[i] # ref /\ Low(s[i]) # Low(client)
    BY <1>1, <2>1 DEF Apart
  <2>6. \A i \in 1 .. Len(s) : v[i] = IF i = p THEN new(s[p]) ELSE s[i]
    BY <1>1, <2>1, <2>5
  <2>7. DOMAIN v = 1 .. Len(s)
    BY <1>1
  <2>8. v \in [1 .. Len(s) -> Client]
    BY <1>1, <2>4
  <2> HIDE DEF v
  <2>9. v \in Seq(Client) /\ Len(v) = Len(s)
    <3>1. v \in Seq(Client)
      BY <1>1, <2>8, SeqDef
    <3>2. QED
      BY <1>1, <2>7, <3>1, LenProperties
  <2>10. Apart(v)
    <3>1. \A i \in 1 .. Len(s) : Low(v[i]) = Low(s[i])
      BY <1>1, <2>1, <2>4, <2>6
    <3>2. QED
      BY <1>1, <2>9, <3>1 DEF Apart
  <2>11. Listed(object')
    BY <1>1, <2>2, <2>9, <2>10, ListedIntro
  <2>12. \A c \in Alike(expected, client) : c \in expected /\ c \in Client
    BY <1>0 DEF Alike
  <2>13. expected' \subseteq Client
    BY <1>0, <2>3, <2>4, <2>12
  <2>14. ASSUME removed = 0 PROVE ToSet(v) = expected'
    <3>1. expected = {s[i] : i \in 1 .. Len(s)}
      BY <1>0, <1>1, <2>14 DEF ToSet
    <3>2. Alike(expected, client) = {s[p]}
      <4>1. Alike(expected, client) = {c \in expected : Low(c) = Low(client)}
        BY AlikeLow
      <4>2. QED
        BY <2>1, <2>5, <3>1, <4>1
    <3>3. expected' = (expected \ {s[p]}) \cup {new(s[p])}
      BY <2>3, <3>2
    <3>4. ToSet(v) = {v[i] : i \in 1 .. Len(s)}
      BY <2>7 DEF ToSet
    <3>5. \A i \in 1 .. Len(s) : i # p => s[i] # s[p]
      BY <2>1, <2>5
    <3>6. QED
      BY <2>1, <2>6, <3>1, <3>3, <3>4, <3>5
  <2>15. object'.items = v /\ object'.items_count = n
    BY <2>2
  <2>16. QED
    BY <1>0, <2>3, <2>9, <2>11, <2>13, <2>14, <2>15, ListKept
<1>6. ASSUME DestroyList
      PROVE  ListInv'
  <2>1. removed' \in Nat /\ removed' > 0 /\ expected' = expected /\ object' \in {Null, Undefined}
    BY <1>0, <1>6 DEF DestroyList
  <2>2. QED
    BY <1>0, <2>1 DEF ListInv, Gone

<1>7. QED
  BY <1>2, <1>3, <1>4, <1>5, <1>6 DEF NextList

(* Every step keeps the invariant. *)
LEMMA ListStep == ListInv /\ [Next]_vars => ListInv'
<1> SUFFICES ASSUME ListInv, [Next]_vars PROVE ListInv'
    OBVIOUS
<1>1. CASE NextList
  BY <1>1, NextListKeeps
<1>2. CASE UNCHANGED vars
  BY <1>2 DEF ListInv, vars
<1>3. CASE NextAreas
  BY <1>3 DEF ListInv, NextAreas, InsertArea, InsertBlock, RemoveBlock, RemoveArea,
              DestroyTable, Live
<1>4. CASE NextValues
  BY <1>4 DEF ListInv, NextValues, SetNonce, SetKey, SetPrepared, SetIdentity,
              ResetPrepared, Live
<1>5. CASE SetClient
  BY <1>5 DEF ListInv, SetClient, Live
<1>6. CASE NextVerifiers
  BY <1>6 DEF ListInv, NextVerifiers, Appear, Leave, Stop, Reload, Live
<1>7. QED
  BY <1>1, <1>2, <1>3, <1>4, <1>5, <1>6 DEF Next

(* A list of clients that are told apart has as many clients as items. *)
LEMMA ListedCount ==
    ASSUME NEW list, Listed(list)
    PROVE  Cardinality(ToSet(list.items)) = Len(list.items)
<1> DEFINE s == list.items
           f == [i \in 1 .. Len(s) |-> s[i]]
<1>1. Len(s) \in Nat /\ DOMAIN s = 1 .. Len(s) /\ Apart(s)
  BY ListedParts DEF Listed
<1>2. f \in [1 .. Len(s) -> ToSet(s)]
  BY <1>1 DEF ToSet
<1>3. \A i, k \in 1 .. Len(s) : f[i] = f[k] => i = k
  BY <1>1 DEF Apart
<1>4. \A c \in ToSet(s) : \E i \in 1 .. Len(s) : f[i] = c
  BY <1>1 DEF ToSet
<1> HIDE DEF f
<1>5. f \in Bijection(1 .. Len(s), ToSet(s))
  BY <1>2, <1>3, <1>4 DEF Bijection, Injection, Surjection, IsInjective
<1>6. IsFiniteSet(1 .. Len(s)) /\ Cardinality(1 .. Len(s)) = Len(s)
  BY <1>1, FS_Interval
<1>7. ExistsBijection(1 .. Len(s), ToSet(s))
  BY <1>5 DEF ExistsBijection
<1>8. QED
  BY <1>6, <1>7, FS_Bijection

(* It holds at the start. *)
LEMMA ListStart == Init => ListInv
<1> SUFFICES ASSUME Init, subject = "list" PROVE ListInv
  BY DEF ListInv
<1>1. object = [items |-> <<>>, items_count |-> 0] /\ expected = {} /\ removed = 0
  BY DEF Init, InitList, List!gl_create
<1>2. <<>> \in Seq(Client) /\ Len(<<>>) = 0 /\ DOMAIN <<>> = {}
  OBVIOUS
<1>3. Listed(object)
  <2>1. Apart(<<>>)
    BY <1>2 DEF Apart
  <2>2. 0 \in Nat /\ Len(<<>>) <= 0
    BY <1>2
  <2>3. Listed([items |-> <<>>, items_count |-> 0])
    BY <1>2, <2>1, <2>2, ListedIntro
  <2>4. QED
    BY <1>1, <2>3
<1>4. ToSet(object.items) = {}
  BY <1>1 DEF ToSet
<1>5. object # Undefined
  BY <1>3, GoneAssumption DEF Listed, Gone
<1>6. QED
  BY <1>1, <1>2, <1>3, <1>4, <1>5 DEF ListInv

(* A list holds each client once, whatever the numbers, and the counter is *)
(* exact and the calls of generic_list.c are defined, with the exceptions  *)
(* ListExact names, for any clients, width of an int and length.           *)
THEOREM ListExactHolds == Spec => []ListExact
<1>1. Init => ListInv
  BY ListStart
<1>2. ListInv => ListExact
  <2> SUFFICES ASSUME ListInv, subject = "list" PROVE ListExact
    BY DEF ListExact
  <2>1. ASSUME object \notin Gone
        PROVE  /\ \A j, k \in DOMAIN object.items :
                     j # k => ~SameClient(object.items[j], object.items[k])
               /\ removed = 0 =>
                     /\ ToSet(object.items) = expected
                     /\ List!gl_count(object) = Cardinality(expected)
                     /\ \A c \in Client : List!gl_is_containing(object, c)
                                             <=> Alike(expected, c) # {}
    <3>1. Listed(object)
      BY <2>1 DEF ListInv
    <3>2. \A j, k \in DOMAIN object.items :
             j # k => ~SameClient(object.items[j], object.items[k])
      BY <3>1, ListedParts, SameLow DEF Listed, Apart
    <3>3. removed = 0 => object.items_count = Len(object.items) /\ ToSet(object.items) = expected
      BY <2>1 DEF ListInv
    <3>4. Cardinality(ToSet(object.items)) = Len(object.items)
      BY <3>1, ListedCount
    <3>5. \A c \in Client : List!gl_is_containing(object, c)
                               <=> Alike(ToSet(object.items), c) # {}
      BY <3>1, ContainingAlike
    <3>6. QED
      BY <3>2, <3>3, <3>4, <3>5 DEF List!gl_count
  <2>2. QED
    BY <2>1 DEF ListInv, ListExact
<1>3. QED
  BY <1>1, <1>2, ListStep, PTL DEF Spec

-----------------------------------------------------------------------------
(* The areas of a table *)

AreaTable == ra_table_t(memory_area_t(Label, Block), {SampleAID}, {1}, {Null})

AnArea == memory_area_t(Label, Block)

(* The areas are a dictionary: one area for each label of e, with its blocks. *)
Holds(areas, e) ==
    /\ DOMAIN e \subseteq Label
    /\ \A l \in DOMAIN e : e[l] \in Seq(Block)
    /\ \A j, k \in 1 .. Len(areas) : areas[j].label = areas[k].label => j = k
    /\ \A k \in 1 .. Len(areas) : /\ areas[k].label \in DOMAIN e
                                  /\ areas[k].blocks = e[areas[k].label]
    /\ \A l \in DOMAIN e : \E k \in 1 .. Len(areas) : areas[k].label = l

(* The table as insertions alone leave it. *)
Exact(table) ==
    /\ table.memory_areas_count = Len(table.areas)
    /\ table.head = IF table.areas = <<>> THEN "null" ELSE "live"
    /\ table.tail = IF table.areas = <<>> THEN "null" ELSE "live"
    /\ table.is_AID_set = TRUE /\ table.is_attestator_number_set = TRUE
    /\ \A k \in 1 .. Len(table.areas) :
          table.areas[k] = Filled(table.areas[k].label, table.areas[k].blocks)

(* What is true of a table after r removals: the counters are never too     *)
(* small and, as long as the head of the list is there, so are the areas.   *)
Sound(table, e, r) ==
    /\ table \in AreaTable
    /\ Len(table.areas) <= table.memory_areas_count
    /\ table.head = "null" => table.areas = <<>>
    /\ table.head = "freed" => table.memory_areas_count > 0
    /\ \A k \in 1 .. Len(table.areas) :
          Len(table.areas[k].blocks) <= table.areas[k].total_blocks
    /\ table.head # "freed" => Holds(table.areas, e)
    /\ r = 0 => Exact(table)

(* The inductive invariant behind the properties of the areas. *)
AreasInv ==
    subject = "areas" =>
        /\ removed \in Nat
        /\ object = Undefined => removed > 0
        /\ object = Null => expected = Null
        /\ object \notin Gone => Sound(object, expected, removed)

(* The areas and blocks of the instance are areas and blocks. *)
LEMMA AreaTypes ==
    /\ AnArea \subseteq AnyArea
    /\ \A b \in Block : b \in AnyBlock /\ b.size \in Nat
    /\ Label \subseteq Nat
    /\ Seq(Block) \subseteq Seq(AnyBlock)
    /\ Seq(AnArea) \subseteq Seq(AnyArea)
<1>1. Label \subseteq Nat /\ Block \subseteq AnyBlock
  BY AreasAssumption DEF AnyBlock
<1>2. Seq(Block) \subseteq Seq(AnyBlock)
  BY <1>1, SeqMonotonic
<1>3. AnArea \subseteq AnyArea
  BY <1>1, <1>2 DEF AnArea, AnyArea, memory_area_t
<1>4. Seq(AnArea) \subseteq Seq(AnyArea)
  BY <1>3, SeqMonotonic
<1>5. \A b \in AnyBlock : b.size \in Nat
  BY DEF AnyBlock, memory_block_t
<1>6. QED
  BY <1>1, <1>2, <1>3, <1>4, <1>5

(* The identity that the table is parsed with. *)
LEMMA SampleFacts ==
    /\ SampleAID \in Seq(0 .. 255) /\ Len(SampleAID) = AID_SIZE
    /\ SampleAID \in Seq(Nat)
    /\ AID_SIZE \in 2 .. 16
<1>1. AID_SIZE \in 2 .. 16
  BY AIDAssumption
<1>2. SampleAID \in [1 .. AID_SIZE -> 0 .. 255]
  BY <1>1 DEF SampleAID
<1>3. SampleAID \in Seq(0 .. 255)
  BY <1>1, <1>2, SeqDef
<1>4. DOMAIN SampleAID = 1 .. AID_SIZE
  BY DEF SampleAID
<1>5. Len(SampleAID) = AID_SIZE
  BY <1>1, <1>3, <1>4, LenProperties
<1>6. 0 .. 255 \subseteq Nat
  OBVIOUS
<1>7. SampleAID \in Seq(Nat)
  BY <1>3, <1>6, SeqMonotonic
<1>8. QED
  BY <1>1, <1>3, <1>5, <1>7

(* Such a table is a table, and no value that stands for something else. *)
LEMMA AreaTableFacts ==
    ASSUME NEW t \in AreaTable
    PROVE  /\ t \in AnyTable
           /\ t.areas \in Seq(AnArea) /\ t.areas \in Seq(AnyArea)
           /\ Len(t.areas) \in Nat /\ DOMAIN t.areas = 1 .. Len(t.areas)
           /\ \A k \in 1 .. Len(t.areas) : t.areas[k] \in AnArea
           /\ t.head \in Pointer /\ t.tail \in Pointer /\ t.memory_areas_count \in Nat
           /\ t # Null /\ t # Undefined
<1>1. t.areas \in Seq(AnArea) /\ t.head \in Pointer /\ t.tail \in Pointer
      /\ t.memory_areas_count \in Nat
  BY DEF AreaTable, ra_table_t, AnArea
<1>2. Seq(AnArea) \subseteq Seq(AnyArea)
  BY AreaTypes
<1>3. t \in AnyTable
  <2>1. SampleAID \in Seq(Nat)
    BY SampleFacts
  <2>2. QED
    BY <1>2, <2>1 DEF AreaTable, AnyTable, ra_table_t, AnArea
<1>4. t # Null /\ t # Undefined
  BY <1>3, NoValue
<1>5. Len(t.areas) \in Nat /\ DOMAIN t.areas = 1 .. Len(t.areas)
  BY <1>1, LenProperties
<1>6. \A k \in 1 .. Len(t.areas) : t.areas[k] \in AnArea
  BY <1>1, ElementOfSeq
<1>7. QED
  BY <1>1, <1>2, <1>3, <1>4, <1>5, <1>6

(* A table with its list, counter and pointers replaced. *)
Rebuilt(t, areas, head, tail, count) ==
    [t EXCEPT !.areas = areas, !.head = head, !.tail = tail, !.memory_areas_count = count]

(* What a table has of another from which it was made so. *)
Changed(u, t, areas, head, tail, count) ==
    /\ u \in AreaTable
    /\ u.areas = areas /\ u.head = head /\ u.tail = tail
    /\ u.memory_areas_count = count
    /\ u.is_AID_set = t.is_AID_set
    /\ u.is_attestator_number_set = t.is_attestator_number_set

(* Its type and its fields. *)
LEMMA AreaTableChanged ==
    ASSUME NEW t \in AreaTable, NEW areas \in Seq(AnArea),
           NEW head \in Pointer, NEW tail \in Pointer, NEW count \in Nat
    PROVE  Changed(Rebuilt(t, areas, head, tail, count), t, areas, head, tail, count)
  BY DEF Changed, Rebuilt, AreaTable, ra_table_t, AnArea

(* ra_get_memory_area finds the area of a label exactly when there is one. *)
Finds(table, e, label) ==
    IF label \in DOMAIN e
    THEN \E k \in 1 .. Len(table.areas) :
            /\ k = LabelPlace(table.areas, label)
            /\ ra_get_memory_area(table, label) = table.areas[k]
            /\ table.areas[k].label = label
            /\ table.areas[k].blocks = e[label]
            /\ \A j \in 1 .. Len(table.areas) : table.areas[j].label = label <=> j = k
    ELSE /\ ra_get_memory_area(table, label) = Null
         /\ \A j \in 1 .. Len(table.areas) : table.areas[j].label # label

(* So it is with tables whose areas are a dictionary. *)
LEMMA FindsArea ==
    ASSUME NEW table \in AreaTable, NEW e, Holds(table.areas, e), table.head # "freed",
           NEW label
    PROVE  Finds(table, e, label)
<1> DEFINE s == table.areas
           p == LabelPlace(s, label)
<1>1. s \in Seq(AnArea) /\ Len(s) \in Nat
  BY AreaTableFacts
<1>2. /\ p \in 0 .. Len(s) /\ (p # 0 => s[p].label = label)
      /\ p = 0 => \A k \in 1 .. Len(s) : s[k].label # label
  BY <1>1, LabelPlaceFacts
<1>3. ra_get_memory_area(table, label) = IF p = 0 THEN Null ELSE s[p]
  BY DEF ra_get_memory_area, LabelPlace
<1> HIDE DEF p
<1>4. CASE p = 0
  <2>1. label \notin DOMAIN e
    BY <1>2, <1>4 DEF Holds
  <2>2. QED
    BY <1>2, <1>3, <1>4, <2>1 DEF Finds
<1>5. CASE p # 0
  <2>1. p \in 1 .. Len(s)
    BY <1>1, <1>2, <1>5
  <2>2. label \in DOMAIN e /\ s[p].blocks = e[label]
    BY <1>2, <1>5, <2>1 DEF Holds
  <2>3. \A j \in 1 .. Len(s) : s[j].label = label <=> j = p
    BY <1>2, <1>5, <2>1 DEF Holds
  <2>4. QED
    BY <1>2, <1>3, <1>5, <2>1, <2>2, <2>3 DEF Finds, p
<1>6. QED
  BY <1>4, <1>5

(* What is expected when one more label is defined. *)
Added(d, e, label) ==
    DOMAIN d = DOMAIN e \cup {label} /\ d[label] = <<>> /\ \A l \in DOMAIN e : d[l] = e[l]

(* One more label with one more area at the end. *)
LEMMA HoldsAppend ==
    ASSUME NEW areas \in Seq(AnArea), NEW e, Holds(areas, e), NEW label \in Label,
           label \notin DOMAIN e, NEW area \in AnArea, area = Filled(label, <<>>),
           NEW d, Added(d, e, label), NEW s, s = Append(areas, area)
    PROVE  Holds(s, d)
<1>0. area.label = label /\ area.blocks = <<>>
  BY DEF Filled
<1>1. PICK n \in Nat : n = Len(areas)
  BY LenProperties
<1>2. Len(s) = n + 1 /\ s[n + 1] = area /\ \A k \in 1 .. n : s[k] = areas[k]
  BY <1>1, AppendProperties
<1>3. DOMAIN d = DOMAIN e \cup {label} /\ d[label] = <<>>
      /\ \A l \in DOMAIN e : d[l] = e[l]
  BY DEF Added
<1>4. DOMAIN d \subseteq Label /\ \A l \in DOMAIN d : d[l] \in Seq(Block)
  <2>1. DOMAIN e \subseteq Label /\ \A l \in DOMAIN e : e[l] \in Seq(Block)
    BY DEF Holds
  <2>2. <<>> \in Seq(Block)
    OBVIOUS
  <2>3. ASSUME NEW l \in DOMAIN d PROVE l \in Label /\ d[l] \in Seq(Block)
    <3>1. CASE l = label
      BY <1>3, <2>2, <3>1
    <3>2. CASE l \in DOMAIN e
      BY <1>3, <2>1, <3>2
    <3>3. QED
      BY <1>3, <2>3, <3>1, <3>2
  <2>4. QED
    BY <2>3
<1>5. \A k \in 1 .. n : areas[k].label \in DOMAIN e /\ areas[k].blocks = e[areas[k].label]
                        /\ areas[k].label # label
  BY <1>1 DEF Holds
<1>6. \A k \in 1 .. n + 1 : k \in 1 .. n \/ k = n + 1
  OBVIOUS
<1>7. \A k \in 1 .. n + 1 : s[k].label \in DOMAIN d /\ s[k].blocks = d[s[k].label]
  BY <1>0, <1>2, <1>3, <1>5, <1>6
<1>8. \A j, k \in 1 .. n + 1 : s[j].label = s[k].label => j = k
  <2>1. \A j, k \in 1 .. n : areas[j].label = areas[k].label => j = k
    BY <1>1 DEF Holds
  <2>2. \A k \in 1 .. n : s[k].label = areas[k].label /\ s[k].label # label
    BY <1>2, <1>5
  <2>3. s[n + 1].label = label
    BY <1>0, <1>2
  <2>4. QED
    BY <1>6, <2>1, <2>2, <2>3
<1>9. \A l \in DOMAIN d : \E k \in 1 .. n + 1 : s[k].label = l
  <2> TAKE l \in DOMAIN d
  <2>1. CASE l = label
    BY <1>0, <1>2, <2>1
  <2>2. CASE l \in DOMAIN e
    <3>1. PICK k \in 1 .. n : areas[k].label = l
      BY <1>1, <2>2 DEF Holds
    <3>2. QED
      BY <1>2, <3>1
  <2>3. QED
    BY <1>3, <2>1, <2>2
<1>10. QED
  BY <1>2, <1>4, <1>7, <1>8, <1>9 DEF Holds

(* What InsertArea makes of the expectations. *)
Extended(e, label, allocated) ==
    IF label \in DOMAIN e \/ ~allocated THEN e
    ELSE [l \in DOMAIN e \cup {label} |-> IF l = label THEN <<>> ELSE e[l]]

(* ra_insert_memory_area of a new area. *)
LEMMA SoundInsert ==
    ASSUME NEW t, NEW e, NEW r \in Nat, Sound(t, e, r), NEW label \in Label,
           NEW allocated \in BOOLEAN, NEW u,
           u = ra_insert_memory_area(t, ra_mA_create(label), allocated).table
    PROVE  Sound(u, Extended(e, label, allocated), r) \/ (u = Undefined /\ r > 0)
<1> DEFINE s == t.areas
           area == Filled(label, <<>>)
<1>10. PICK d : d = Extended(e, label, allocated)
  OBVIOUS
<1>11. d = IF label \in DOMAIN e \/ ~allocated THEN e
          ELSE [l \in DOMAIN e \cup {label} |-> IF l = label THEN <<>> ELSE e[l]]
  BY <1>10 DEF Extended
<1>0. /\ t \in AreaTable /\ s \in Seq(AnArea)
      /\ Len(s) \in Nat /\ DOMAIN s = 1 .. Len(s)
      /\ \A k \in 1 .. Len(s) : s[k] \in AnArea
      /\ t.head \in Pointer /\ t.tail \in Pointer /\ t.memory_areas_count \in Nat
  BY AreaTableFacts DEF Sound
<1>1. /\ ra_mA_create(label) = area
      /\ area \in AnArea /\ area # Null
      /\ area.label = label /\ area.blocks = <<>> /\ area.total_blocks = Len(<<>>)
  <2>1. ra_mA_create(label) = area
    BY CreatedFilled
  <2>2. area \in AnArea
    <3>1. \A b \in Block : b.size \in Nat
      BY AreaTypes
    <3>2. <<>> \in Seq(Block)
      OBVIOUS
    <3>3. QED
      BY <3>1, <3>2, FilledType DEF AnArea
  <2>3. area # Null
    BY <2>2, NoValue, AreaTypes
  <2>4. QED
    BY <2>1, <2>2, <2>3 DEF Filled
<1> DEFINE def == ra_is_label_defined(t, label)
           has == \E k \in 1 .. Len(s) : s[k].label = label
<1>2. HasLabel(t, label) <=> has
  BY <1>0 DEF HasLabel, ra_mA_get_label
<1>3. u = IF def = Undefined THEN Undefined ELSE IF def THEN t
          ELSE IF ~allocated THEN t ELSE insert_table_item(t, area)
  BY <1>1 DEF ra_insert_memory_area, Answer, ra_mA_get_label
<1> HIDE DEF area
<1>12. SUFFICES Sound(u, d, r) \/ (u = Undefined /\ r > 0)
  BY <1>10
<1>4. CASE t.head = "freed"
  <2>1. ~Walkable(t)
    BY <1>0, <1>4 DEF Walkable, Sound
  <2>2. def = Undefined
    BY <1>4, <2>1 DEF ra_is_label_defined
  <2>3. r > 0
    BY <1>4 DEF Sound, Exact
  <2>4. QED
    BY <1>3, <2>2, <2>3
<1>5. CASE t.head # "freed" /\ has
  <2>1. def = TRUE /\ TRUE # Undefined
    BY <1>2, <1>5, NoValue DEF ra_is_label_defined
  <2>2. label \in DOMAIN e
    BY <1>5 DEF Sound, Holds
  <2>3. QED
    BY <1>3, <1>11, <2>1, <2>2
<1>6. CASE t.head # "freed" /\ ~has /\ ~Walkable(t)
  <2>1. def = Undefined
    BY <1>2, <1>6 DEF ra_is_label_defined
  <2>2. r > 0
    <3>1. SUFFICES ASSUME r = 0 PROVE FALSE
      OBVIOUS
    <3>2. Exact(t) /\ (s = <<>> => Len(s) = 0)
      BY <3>1 DEF Sound
    <3>3. QED
      BY <1>0, <1>6, <3>2 DEF Exact, Walkable
  <2>3. QED
    BY <1>3, <2>1, <2>2
<1>7. CASE t.head # "freed" /\ ~has /\ Walkable(t)
  <2>1. def = FALSE /\ FALSE # Undefined
    BY <1>2, <1>7, NoValue DEF ra_is_label_defined
  <2>2. label \notin DOMAIN e
    BY <1>7 DEF Sound, Holds
  <2>3. CASE ~allocated
    BY <1>3, <1>11, <2>1, <2>3
  <2>4. CASE allocated /\ t.tail = "freed"
    <3>1. u = Undefined
      BY <1>3, <2>1, <2>4 DEF insert_table_item
    <3>2. r > 0
      BY <2>4 DEF Sound, Exact
    <3>3. QED
      BY <3>1, <3>2
  <2>5. CASE allocated /\ t.tail # "freed"
    <3>1. u = insert_table_item(t, area)
      BY <1>3, <2>1, <2>5
    <3>2. u = Rebuilt(t, Append(s, area), "live", "live", t.memory_areas_count + 1)
      <4>1. t.head = "null" \/ t.head = "live"
        BY <1>0, <1>7 DEF Pointer
      <4>2. QED
        BY <3>1, <4>1, <2>5, <1>0 DEF insert_table_item, AreaTable, ra_table_t, Rebuilt
    <3>3. /\ Append(s, area) \in Seq(AnArea) /\ Len(Append(s, area)) = Len(s) + 1
          /\ Append(s, area)[Len(s) + 1] = area
          /\ \A k \in 1 .. Len(s) : Append(s, area)[k] = s[k]
      BY <1>0, <1>1, AppendProperties
    <3>4. PICK n \in Nat, c \in Nat : n = Len(s) /\ c = t.memory_areas_count
      BY <1>0
    <3>5. /\ u \in AreaTable
          /\ u.areas = Append(s, area) /\ u.head = "live" /\ u.tail = "live"
          /\ u.memory_areas_count = c + 1
          /\ u.is_AID_set = t.is_AID_set
          /\ u.is_attestator_number_set = t.is_attestator_number_set
      <4>1. c + 1 \in Nat /\ "live" \in Pointer
        BY DEF Pointer
      <4>2. Changed(u, t, Append(s, area), "live", "live", c + 1)
        BY <1>0, <3>2, <3>3, <3>4, <4>1, AreaTableChanged
      <4>3. QED
        BY <4>2 DEF Changed
    <3>6. \A k \in 1 .. n + 1 : k \in 1 .. n \/ k = n + 1
      OBVIOUS
    <3>7. Holds(u.areas, d)
      <4>1. Holds(s, e)
        BY <1>7 DEF Sound
      <4>2. d = [l \in DOMAIN e \cup {label} |-> IF l = label THEN <<>> ELSE e[l]]
        BY <1>11, <2>2, <2>5
      <4>3. s \in Seq(AnArea) /\ u.areas = Append(s, area)
        BY <1>0, <3>5
      <4>4. area \in AnArea /\ area = Filled(label, <<>>)
        BY <1>1 DEF area
      <4>5. Added(d, e, label)
        BY <2>2, <4>2 DEF Added
      <4> HIDE DEF s
      <4>6. QED
        BY <2>2, <4>1, <4>3, <4>4, <4>5, HoldsAppend
    <3>8. n + 1 <= c + 1
      BY <3>4 DEF Sound
    <3>9. \A k \in 1 .. n + 1 : Len(u.areas[k].blocks) <= u.areas[k].total_blocks
      <4>1. Len(<<>>) <= Len(<<>>)
        OBVIOUS
      <4>2. \A k \in 1 .. n : Len(s[k].blocks) <= s[k].total_blocks
        BY <3>4 DEF Sound
      <4>3. QED
        BY <1>1, <3>3, <3>4, <3>5, <3>6, <4>1, <4>2
    <3>10. ASSUME r = 0 PROVE Exact(u)
      <4>1. Exact(t)
        BY <3>10 DEF Sound
      <4>2. u.areas # <<>>
        <5>1. Len(u.areas) = n + 1 /\ n + 1 # 0
          BY <3>3, <3>4, <3>5
        <5>2. Len(<<>>) = 0
          OBVIOUS
        <5>3. QED
          BY <5>1, <5>2
      <4>3. \A k \in 1 .. n : s[k] = Filled(s[k].label, s[k].blocks)
        BY <4>1, <3>4 DEF Exact
      <4>4. area = Filled(area.label, area.blocks)
        BY <1>1 DEF area
      <4>5. \A k \in 1 .. n + 1 : u.areas[k] = Filled(u.areas[k].label, u.areas[k].blocks)
        BY <3>3, <3>4, <3>5, <3>6, <4>3, <4>4
      <4>6. Len(u.areas) = n + 1 /\ c = n
        BY <3>3, <3>4, <3>5, <4>1 DEF Exact
      <4>7. QED
        BY <3>5, <4>1, <4>2, <4>5, <4>6 DEF Exact
    <3>11. QED
      BY <3>3, <3>4, <3>5, <3>7, <3>8, <3>9, <3>10 DEF Sound
  <2>6. QED
    BY <2>3, <2>4, <2>5
<1>8. QED
  BY <1>4, <1>5, <1>6, <1>7

(* What is expected when a label has other blocks. *)
Updated(d, e, label, blocks) ==
    /\ DOMAIN d = DOMAIN e /\ d[label] = blocks
    /\ \A l \in DOMAIN e : l # label => d[l] = e[l]

(* A table whose area of a label is replaced. *)
Replaced(t, label, area) ==
    [t EXCEPT !.areas = [k \in DOMAIN @ |-> IF @[k].label = label THEN area ELSE @[k]]]

(* The area of a label is changed through the reference found. *)
LEMMA SoundReplace ==
    ASSUME NEW t, NEW e, NEW r \in Nat, Sound(t, e, r), t.head # "freed",
           NEW p \in 1 .. Len(t.areas), NEW label \in DOMAIN e, t.areas[p].label = label,
           NEW area \in AnArea, area.label = label, Len(area.blocks) <= area.total_blocks,
           NEW q \in Nat, q = 0 => r = 0 /\ area = Filled(label, area.blocks),
           NEW d, Updated(d, e, label, area.blocks)
    PROVE  Sound(Replaced(t, label, area), d, q)
<1> DEFINE s == t.areas
           v == [k \in DOMAIN s |-> IF s[k].label = label THEN area ELSE s[k]]
           u == Replaced(t, label, area)
<1>0. /\ t \in AreaTable /\ s \in Seq(AnArea)
      /\ Len(s) \in Nat /\ DOMAIN s = 1 .. Len(s)
      /\ \A k \in 1 .. Len(s) : s[k] \in AnArea
      /\ t.head \in Pointer /\ t.tail \in Pointer /\ t.memory_areas_count \in Nat
  BY AreaTableFacts DEF Sound
<1>1. Holds(s, e)
  BY DEF Sound
<1>2. \A k \in 1 .. Len(s) : s[k].label = label <=> k = p
  BY <1>1 DEF Holds
<1>3. \A k \in 1 .. Len(s) : v[k] = IF k = p THEN area ELSE s[k]
  BY <1>0, <1>2
<1>4. v \in [1 .. Len(s) -> AnArea] /\ DOMAIN v = 1 .. Len(s)
  BY <1>0
<1>5. u = Rebuilt(t, v, t.head, t.tail, t.memory_areas_count)
  BY <1>0 DEF AreaTable, ra_table_t, Rebuilt, Replaced
<1> HIDE DEF v, u
<1>6. v \in Seq(AnArea) /\ Len(v) = Len(s)
  <2>1. v \in Seq(AnArea)
    BY <1>0, <1>4, SeqDef
  <2>2. QED
    BY <1>0, <1>4, <2>1, LenProperties
<1>7. /\ u \in AreaTable
      /\ u.areas = v /\ u.head = t.head /\ u.tail = t.tail
      /\ u.memory_areas_count = t.memory_areas_count
      /\ u.is_AID_set = t.is_AID_set
      /\ u.is_attestator_number_set = t.is_attestator_number_set
  <2>1. PICK hd, tl, c : hd = t.head /\ tl = t.tail /\ c = t.memory_areas_count
    OBVIOUS
  <2>2. hd \in Pointer /\ tl \in Pointer /\ c \in Nat
    BY <1>0, <2>1
  <2>3. Changed(Rebuilt(t, v, hd, tl, c), t, v, hd, tl, c)
    BY <1>0, <1>6, <2>2, AreaTableChanged
  <2>4. QED
    BY <1>5, <2>1, <2>3 DEF Changed
<1>8. /\ DOMAIN d = DOMAIN e /\ d[label] = area.blocks
      /\ \A l \in DOMAIN e : l # label => d[l] = e[l]
  BY DEF Updated
<1>9. area.blocks \in Seq(Block)
  BY DEF AnArea, memory_area_t
<1>10. Holds(v, d)
  <2>1. DOMAIN d \subseteq Label /\ \A l \in DOMAIN d : d[l] \in Seq(Block)
    BY <1>1, <1>8, <1>9 DEF Holds
  <2>2. \A k \in 1 .. Len(s) : v[k].label = s[k].label
    BY <1>3
  <2>3. \A k \in 1 .. Len(s) : v[k].label \in DOMAIN d /\ v[k].blocks = d[v[k].label]
    <3> TAKE k \in 1 .. Len(s)
    <3>1. CASE k = p
      BY <1>3, <1>8, <3>1
    <3>2. CASE k # p
      <4>1. s[k].label \in DOMAIN e /\ s[k].blocks = e[s[k].label] /\ s[k].label # label
        BY <1>1, <1>2, <3>2 DEF Holds
      <4>2. QED
        BY <1>3, <1>8, <3>2, <4>1
    <3>3. QED
      BY <3>1, <3>2
  <2>4. \A j, k \in 1 .. Len(s) : s[j].label = s[k].label => j = k
    BY <1>1 DEF Holds
  <2>5. \A l \in DOMAIN e : \E k \in 1 .. Len(s) : s[k].label = l
    BY <1>1 DEF Holds
  <2>6. PICK n : n = Len(s)
    OBVIOUS
  <2>7. \A j, k \in 1 .. n : v[j].label = v[k].label => j = k
    BY <2>2, <2>4, <2>6
  <2>8. \A l \in DOMAIN d : \E k \in 1 .. n : v[k].label = l
    BY <1>8, <2>2, <2>5, <2>6
  <2>9. \A k \in 1 .. n : v[k].label \in DOMAIN d /\ v[k].blocks = d[v[k].label]
    BY <2>3, <2>6
  <2>10. QED
    BY <1>6, <2>1, <2>6, <2>7, <2>8, <2>9 DEF Holds
<1>11. \A k \in 1 .. Len(s) : Len(v[k].blocks) <= v[k].total_blocks
  BY <1>3 DEF Sound
<1>12. s # <<>> /\ v # <<>>
  <2>1. Len(s) # 0
    BY <1>0
  <2>2. QED
    BY <1>6, <2>1
<1>13. ASSUME q = 0 PROVE Exact(u)
  <2>1. Exact(t)
    BY <1>13 DEF Sound
  <2>2. \A k \in 1 .. Len(s) : v[k] = Filled(v[k].label, v[k].blocks)
    BY <1>3, <1>13, <2>1 DEF Exact
  <2>3. QED
    BY <1>6, <1>7, <1>12, <2>1, <2>2 DEF Exact
<1>14. t.head # "null"
  BY <1>12 DEF Sound
<1>15. QED
  BY <1>6, <1>7, <1>10, <1>11, <1>13, <1>14 DEF Sound, u

(* ra_remove_memory_area. *)
LEMMA SoundRemove ==
    ASSUME NEW t, NEW e, NEW r \in Nat, Sound(t, e, r), NEW label \in Label,
           NEW q \in Nat, q > 0
    PROVE  \/ ra_remove_memory_area(t, label) = Undefined
           \/ Sound(ra_remove_memory_area(t, label),
                    [l \in DOMAIN e \ {label} |-> e[l]], q)
<1> DEFINE s == t.areas
           p == LabelPlace(s, label)
           u == ra_remove_memory_area(t, label)
           d == [l \in DOMAIN e \ {label} |-> e[l]]
<1>0. /\ t \in AreaTable /\ s \in Seq(AnArea)
      /\ Len(s) \in Nat /\ DOMAIN s = 1 .. Len(s)
      /\ \A k \in 1 .. Len(s) : s[k] \in AnArea
      /\ t.head \in Pointer /\ t.tail \in Pointer /\ t.memory_areas_count \in Nat
  BY AreaTableFacts DEF Sound
<1>1. CASE t.head # "live" \/ ~HasLabel(t, label)
  BY <1>1 DEF ra_remove_memory_area
<1>2. CASE t.head = "live" /\ HasLabel(t, label)
  <2> DEFINE v == RemoveAt(s, p)
             hd == IF p = 1 THEN "freed" ELSE t.head
             tl == IF p = Len(s) THEN "freed" ELSE t.tail
  <2>1. u = Rebuilt(t, v, hd, tl, t.memory_areas_count)
    BY <1>0, <1>2 DEF ra_remove_memory_area, LabelPlace, AreaTable, ra_table_t, Rebuilt
  <2>2. p \in 1 .. Len(s) /\ s[p].label = label
    <3>1. \E k \in 1 .. Len(s) : s[k].label = label
      BY <1>0, <1>2 DEF HasLabel, ra_mA_get_label
    <3>2. p \in 0 .. Len(s) /\ p # 0 /\ s[p].label = label
      BY <1>0, <3>1, LabelPlaceFacts
    <3>3. QED
      BY <1>0, <3>2
  <2> HIDE DEF p, u
  <2>3. /\ v \in Seq(AnArea) /\ Len(v) = Len(s) - 1
        /\ \A k \in 1 .. Len(s) - 1 : v[k] = IF k < p THEN s[k] ELSE s[k + 1]
    BY <1>0, <2>2, RemoveAtFacts
  <2> HIDE DEF v
  <2>4. hd \in Pointer /\ tl \in Pointer
    BY <1>0 DEF Pointer
  <2>5. /\ u \in AreaTable
        /\ u.areas = v /\ u.head = hd /\ u.tail = tl
        /\ u.memory_areas_count = t.memory_areas_count
    <3> HIDE DEF hd, tl
    <3>1. Changed(u, t, v, hd, tl, t.memory_areas_count)
      BY <1>0, <2>1, <2>3, <2>4, AreaTableChanged
    <3>2. QED
      BY <3>1 DEF Changed
  <2>6. PICK n \in Nat, c \in Nat : n = Len(s) /\ c = t.memory_areas_count
    BY <1>0
  <2>7. n <= c /\ p \in 1 .. n
    BY <2>2, <2>6 DEF Sound
  <2>8. Holds(s, e)
    BY <1>2 DEF Sound
  <2>9. \A k \in 1 .. n - 1 : \E j \in 1 .. n :
           v[k] = s[j] /\ j # p /\ j = IF k < p THEN k ELSE k + 1
    <3> TAKE k \in 1 .. n - 1
    <3>1. (IF k < p THEN k ELSE k + 1) \in 1 .. n /\ (IF k < p THEN k ELSE k + 1) # p
      BY <2>7
    <3>2. QED
      BY <2>3, <2>6, <3>1
  <2>10. \A j \in 1 .. n : j # p => \E k \in 1 .. n - 1 : v[k] = s[j]
    <3> SUFFICES ASSUME NEW j \in 1 .. n, j # p PROVE \E k \in 1 .. n - 1 : v[k] = s[j]
      OBVIOUS
    <3>1. CASE j < p
      <4>1. j \in 1 .. n - 1
        BY <2>7, <3>1
      <4>2. QED
        BY <2>3, <2>6, <3>1, <4>1
    <3>2. CASE ~(j < p)
      <4>1. j - 1 \in 1 .. n - 1 /\ ~(j - 1 < p) /\ (j - 1) + 1 = j
        BY <2>7, <3>2
      <4>2. QED
        BY <2>3, <2>6, <4>1
    <3>3. QED
      BY <3>1, <3>2
  <2>11. Holds(v, d)
    <3>1. DOMAIN d = DOMAIN e \ {label} /\ \A l \in DOMAIN d : d[l] = e[l]
      OBVIOUS
    <3> HIDE DEF d
    <3>2. Len(v) = n - 1
      BY <2>3, <2>6
    <3>3. \A i, j \in 1 .. n : s[i].label = s[j].label => i = j
      BY <2>6, <2>8 DEF Holds
    <3>4. \A i, j \in 1 .. n - 1 : v[i].label = v[j].label => i = j
      <4> SUFFICES ASSUME NEW i \in 1 .. n - 1, NEW j \in 1 .. n - 1, v[i].label = v[j].label
                   PROVE  i = j
        OBVIOUS
      <4>1. PICK a \in 1 .. n : v[i] = s[a] /\ a = IF i < p THEN i ELSE i + 1
        BY <2>9
      <4>2. PICK b \in 1 .. n : v[j] = s[b] /\ b = IF j < p THEN j ELSE j + 1
        BY <2>9
      <4>3. a = b
        BY <3>3, <4>1, <4>2
      <4>4. QED
        BY <2>7, <4>1, <4>2, <4>3
    <3>5. \A k \in 1 .. n - 1 : v[k].label \in DOMAIN d /\ v[k].blocks = d[v[k].label]
      <4> TAKE k \in 1 .. n - 1
      <4>1. PICK a \in 1 .. n : v[k] = s[a] /\ a # p
        BY <2>9
      <4>2. s[a].label # label /\ s[a].label \in DOMAIN e /\ s[a].blocks = e[s[a].label]
        BY <2>2, <2>6, <2>7, <2>8, <3>3, <4>1 DEF Holds
      <4>3. QED
        BY <3>1, <4>1, <4>2
    <3>6. \A l \in DOMAIN d : \E k \in 1 .. n - 1 : v[k].label = l
      <4> TAKE l \in DOMAIN d
      <4>1. PICK a \in 1 .. n : s[a].label = l
        BY <2>6, <2>8, <3>1 DEF Holds
      <4>2. a # p
        BY <2>2, <3>1, <4>1
      <4>3. QED
        BY <2>10, <4>1, <4>2
    <3>7. DOMAIN d \subseteq Label /\ \A l \in DOMAIN d : d[l] \in Seq(Block)
      BY <2>8, <3>1 DEF Holds
    <3>8. QED
      BY <3>2, <3>4, <3>5, <3>6, <3>7 DEF Holds
  <2>12. \A k \in 1 .. n - 1 : Len(v[k].blocks) <= v[k].total_blocks
    <3>1. \A k \in 1 .. n : Len(s[k].blocks) <= s[k].total_blocks
      BY <2>6 DEF Sound
    <3>2. QED
      BY <2>9, <3>1
  <2>13. n - 1 <= c /\ c > 0
    BY <2>7
  <2>14. hd # "null"
    BY <1>2
  <2>15. Sound(u, d, q)
    <3> HIDE DEF d, hd
    <3>1. QED
      BY <2>3, <2>5, <2>6, <2>11, <2>12, <2>13, <2>14 DEF Sound
  <2>16. QED
    BY <2>15 DEF u
<1>3. QED
  BY <1>0, <1>1, <1>2 DEF Pointer

(* A sound table, or none after a removal, keeps the invariant. *)
LEMMA AreasKept ==
    ASSUME removed' \in Nat,
           Sound(object', expected', removed') \/ (object' = Undefined /\ removed' > 0)
    PROVE  AreasInv'
<1>1. CASE Sound(object', expected', removed')
  <2>1. object' \in AreaTable
    BY <1>1 DEF Sound
  <2>2. object' # Null /\ object' # Undefined
    BY <2>1, AreaTableFacts
  <2>3. QED
    BY <1>1, <2>2 DEF AreasInv
<1>2. CASE object' = Undefined /\ removed' > 0
  BY <1>2, NoValue DEF AreasInv, Gone
<1>3. QED
  BY <1>1, <1>2

(* An area after one more insertion. *)
LEMMA InsertedBlock ==
    ASSUME NEW area \in AnArea, Len(area.blocks) <= area.total_blocks, NEW block \in Block,
           area.tail # "freed"
    PROVE  /\ ra_mA_insert_block(area, block, TRUE) \in AnArea
           /\ ra_mA_insert_block(area, block, TRUE).label = area.label
           /\ ra_mA_insert_block(area, block, TRUE).blocks = Append(area.blocks, block)
           /\ Len(Append(area.blocks, block))
                <= ra_mA_insert_block(area, block, TRUE).total_blocks
<1> DEFINE v == Append(area.blocks, block)
<1>1. /\ area.blocks \in Seq(Block) /\ area.total_blocks \in Nat /\ area.total_size \in Nat
      /\ area.head \in Pointer /\ area.label \in Label
  BY DEF AnArea, memory_area_t
<1>2. v \in Seq(Block) /\ Len(v) = Len(area.blocks) + 1 /\ Len(area.blocks) \in Nat
  BY <1>1, AppendProperties, LenProperties
<1>3. block.size \in Nat
  BY AreaTypes
<1>4. PICK hd \in Pointer : hd = IF area.head = "null" THEN "live" ELSE area.head
  BY <1>1 DEF Pointer
<1>5. PICK m \in Nat, z \in Nat : m = area.total_blocks + 1 /\ z = area.total_size + block.size
  BY <1>1, <1>3
<1>6. ra_mA_insert_block(area, block, TRUE)
        = [label |-> area.label, blocks |-> v, total_blocks |-> m, total_size |-> z,
           head |-> hd, tail |-> "live"]
  BY <1>4, <1>5 DEF ra_mA_insert_block, AnArea, memory_area_t
<1>7. Len(v) <= m
  BY <1>1, <1>2, <1>5
<1> HIDE DEF v
<1>8. "live" \in Pointer
  BY DEF Pointer
<1>9. PICK new : new = [label |-> area.label, blocks |-> v, total_blocks |-> m,
                        total_size |-> z, head |-> hd, tail |-> "live"]
  OBVIOUS
<1>10. new \in AnArea
  BY <1>1, <1>2, <1>8, <1>9 DEF AnArea, memory_area_t
<1>11. new.label = area.label /\ new.blocks = v /\ new.total_blocks = m
  BY <1>9
<1>12. ra_mA_insert_block(area, block, TRUE) = new
  BY <1>6, <1>9
<1>13. QED
  BY <1>7, <1>10, <1>11, <1>12 DEF v

(* An area after one more removal. *)
LEMMA RemovedBlock ==
    ASSUME NEW area \in AnArea, Len(area.blocks) <= area.total_blocks, NEW block \in Block,
           NEW new, new = ra_mA_remove_block(area, block), new # Undefined
    PROVE  /\ new \in AnArea /\ new.label = area.label
           /\ new.blocks = IF Contains(area.blocks, block)
                           THEN RemoveFirst(area.blocks, block) ELSE area.blocks
           /\ Len(new.blocks) <= new.total_blocks
<1> DEFINE s == area.blocks
<1>1. /\ s \in Seq(Block) /\ area.total_blocks \in Nat /\ area.total_size \in Nat
      /\ area.head \in Pointer /\ area.tail \in Pointer /\ area.label \in Label
      /\ Len(s) \in Nat
  BY LenProperties DEF AnArea, memory_area_t
<1>2. CASE NeverFilled(area)
  <2>1. ~Contains(s, block)
    <3>1. Len(s) = 0
      BY <1>1, <1>2 DEF NeverFilled
    <3>2. QED
      BY <3>1 DEF Contains
  <2>2. QED
    BY <1>2, <2>1 DEF ra_mA_remove_block
<1>3. CASE ~NeverFilled(area)
  <2> DEFINE k == SelectInSeq(s, LAMBDA b : b = block)
             v == RemoveAt(s, k)
  <2>1. Contains(s, block)
    BY <1>3 DEF ra_mA_remove_block
  <2>2. k \in 1 .. Len(s)
    <3> DEFINE I == {i \in 1 .. Len(s) : s[i] = block}
    <3>1. I # {} /\ I \in SUBSET Nat
      BY <2>1 DEF Contains
    <3>2. k = Min(I)
      BY <3>1 DEF SelectInSeq
    <3>3. QED
      BY <3>1, <3>2, MinFacts
  <2>3. RemoveFirst(s, block) = v
    BY <2>1 DEF RemoveFirst, Contains
  <2>4. PICK hd \in Pointer, tl \in Pointer :
           hd = (IF k = 1 THEN "freed" ELSE area.head)
           /\ tl = IF k = Len(s) THEN "freed" ELSE area.tail
    BY <1>1 DEF Pointer
  <2>5. new = [label |-> area.label, blocks |-> v, total_blocks |-> area.total_blocks,
               total_size |-> area.total_size, head |-> hd, tail |-> tl]
    BY <1>3, <2>1, <2>4 DEF ra_mA_remove_block, AnArea, memory_area_t
  <2> HIDE DEF k
  <2>6. v \in Seq(Block) /\ Len(v) = Len(s) - 1
    BY <1>1, <2>2, RemoveAtFacts
  <2>7. Len(v) <= area.total_blocks
    BY <1>1, <2>6
  <2> HIDE DEF v
  <2>8. new \in AnArea
    BY <1>1, <2>5, <2>6 DEF AnArea, memory_area_t
  <2>9. QED
    BY <2>1, <2>3, <2>5, <2>7, <2>8
<1>4. QED
  BY <1>2, <1>3

(* Each call on the areas. *)
LEMMA NextAreasKeeps ==
    ASSUME AreasInv, NextAreas
    PROVE  AreasInv'
<1>0. /\ subject = "areas" /\ removed \in Nat /\ object \notin Gone
      /\ Sound(object, expected, removed) /\ object \in AreaTable
  <2>1. subject = "areas" /\ object \notin Gone
    BY DEF NextAreas, InsertArea, InsertBlock, RemoveBlock, RemoveArea, DestroyTable, Live
  <2>2. QED
    BY <2>1 DEF AreasInv, Sound
<1>1. ASSUME NEW label \in Label, NEW allocated \in BOOLEAN, InsertArea(label, allocated)
      PROVE  AreasInv'
  <2>1. /\ object' = ra_insert_memory_area(object, ra_mA_create(label), allocated).table
        /\ expected' = Extended(expected, label, allocated)
        /\ removed' = removed
    BY <1>1 DEF InsertArea, Extended
  <2>2. Sound(object', expected', removed) \/ (object' = Undefined /\ removed > 0)
    BY <1>0, <2>1, SoundInsert
  <2>3. QED
    BY <1>0, <2>1, <2>2, AreasKept
<1>2. ASSUME NEW label \in Label, Area(label) \notin {Null, Undefined}
      PROVE  /\ object.head # "freed" /\ label \in DOMAIN expected
             /\ \E p \in 1 .. Len(object.areas) :
                   /\ Area(label) = object.areas[p] /\ object.areas[p].label = label
                   /\ object.areas[p].blocks = expected[label]
                   /\ object.areas[p] \in AnArea
                   /\ Len(object.areas[p].blocks) <= object.areas[p].total_blocks
                   /\ removed = 0 => object.areas[p] = Filled(label, object.areas[p].blocks)
  <2>1. object.head # "freed"
    BY <1>2 DEF Area, ra_get_memory_area
  <2>2. Holds(object.areas, expected)
    BY <1>0, <2>1 DEF Sound
  <2>3. Finds(object, expected, label)
    BY <1>0, <2>1, <2>2, FindsArea
  <2>4. label \in DOMAIN expected
    BY <1>2, <2>3 DEF Finds, Area
  <2>5. PICK p \in 1 .. Len(object.areas) :
           /\ Area(label) = object.areas[p] /\ object.areas[p].label = label
           /\ object.areas[p].blocks = expected[label]
    BY <2>3, <2>4 DEF Finds, Area
  <2>6. object.areas[p] \in AnArea
    BY <1>0, AreaTableFacts
  <2>7. Len(object.areas[p].blocks) <= object.areas[p].total_blocks
    BY <1>0 DEF Sound
  <2>8. removed = 0 => object.areas[p] = Filled(label, object.areas[p].blocks)
    BY <1>0, <2>5 DEF Sound, Exact
  <2>9. QED
    BY <2>1, <2>4, <2>5, <2>6, <2>7, <2>8
<1>3. ASSUME NEW label \in Label, NEW block \in Block, NEW allocated \in BOOLEAN,
             InsertBlock(label, block, allocated)
      PROVE  AreasInv'
  <2>1. Area(label) \notin {Null, Undefined}
    BY <1>3 DEF InsertBlock
  <2>2. PICK p \in 1 .. Len(object.areas) :
                   /\ Area(label) = object.areas[p] /\ object.areas[p].label = label
                   /\ object.areas[p].blocks = expected[label]
                   /\ object.areas[p] \in AnArea
                   /\ Len(object.areas[p].blocks) <= object.areas[p].total_blocks
                   /\ removed = 0 => object.areas[p] = Filled(label, object.areas[p].blocks)
    BY <1>2, <2>1
  <2>3. object.head # "freed" /\ label \in DOMAIN expected
    BY <1>2, <2>1
  <2> DEFINE area == object.areas[p]
             new == ra_mA_insert_block(area, block, allocated)
  <2>4. /\ object' = WithArea(label, new) /\ removed' = removed
        /\ expected' = IF allocated THEN [expected EXCEPT ![label] = Append(@, block)]
                       ELSE expected
    BY <1>3, <2>2 DEF InsertBlock
  <2>5. area # Undefined
    BY <2>1, <2>2
  <2>6. CASE allocated /\ area.tail = "freed"
    <3>1. object' = Undefined
      BY <2>4, <2>6 DEF WithArea, ra_mA_insert_block
    <3>2. removed > 0
      BY <1>0, <2>2, <2>6 DEF Filled
    <3>3. QED
      BY <1>0, <2>4, <3>1, <3>2, AreasKept
  <2>7. CASE ~(allocated /\ area.tail = "freed")
    <3>1. /\ new \in AnArea /\ new.label = label
          /\ new.blocks = IF allocated THEN Append(area.blocks, block) ELSE area.blocks
          /\ Len(new.blocks) <= new.total_blocks
      <4>1. CASE allocated
        BY <2>2, <2>7, <4>1, InsertedBlock
      <4>2. CASE ~allocated
        BY <2>2, <4>2 DEF ra_mA_insert_block
      <4>3. QED
        BY <4>1, <4>2
    <3>2. removed = 0 => new = Filled(label, new.blocks)
      <4>1. CASE removed = 0 /\ allocated
        <5>1. area.blocks \in Seq(Block) /\ \A b \in Block : b.size \in Nat
          BY <2>2, AreaTypes DEF AnArea, memory_area_t
        <5>2. area = Filled(label, area.blocks)
          BY <2>2, <4>1
        <5> HIDE DEF area
        <5>3. ra_mA_insert_block(Filled(label, area.blocks), block, TRUE)
                = Filled(label, Append(area.blocks, block))
          BY <5>1, InsertFilled
        <5>4. new = Filled(label, Append(area.blocks, block))
          BY <4>1, <5>2, <5>3
        <5>5. QED
          BY <3>1, <4>1, <5>4
      <4>2. CASE removed = 0 /\ ~allocated
        BY <2>2, <4>2 DEF ra_mA_insert_block
      <4>3. QED
        BY <4>1, <4>2
    <3>3. new # Undefined
      BY <3>1, NoValue, AreaTypes
    <3>4. Updated(expected', expected, label, new.blocks)
      BY <2>2, <2>3, <2>4, <3>1 DEF Updated
    <3> HIDE DEF new
    <3>5. object' = Replaced(object, label, new)
      BY <2>4, <3>3 DEF WithArea, Replaced
    <3>6. Sound(object', expected', removed)
      BY <1>0, <2>2, <2>3, <3>1, <3>2, <3>4, <3>5, SoundReplace
    <3>7. QED
      BY <1>0, <2>4, <3>6, AreasKept
  <2>8. QED
    BY <2>6, <2>7
<1>4. ASSUME NEW label \in Label, NEW block \in Block, RemoveBlock(label, block)
      PROVE  AreasInv'
  <2>1. Area(label) \notin {Null, Undefined}
    BY <1>4 DEF RemoveBlock
  <2>2. PICK p \in 1 .. Len(object.areas) :
                   /\ Area(label) = object.areas[p] /\ object.areas[p].label = label
                   /\ object.areas[p].blocks = expected[label]
                   /\ object.areas[p] \in AnArea
                   /\ Len(object.areas[p].blocks) <= object.areas[p].total_blocks
    BY <1>2, <2>1
  <2>3. object.head # "freed" /\ label \in DOMAIN expected
    BY <1>2, <2>1
  <2> DEFINE area == object.areas[p]
             new == ra_mA_remove_block(area, block)
  <2>4. /\ object' = WithArea(label, new) /\ removed' = removed + 1
        /\ expected' = [expected EXCEPT ![label] =
                           IF Contains(@, block) THEN RemoveFirst(@, block) ELSE @]
    BY <1>4, <2>2 DEF RemoveBlock
  <2>5. removed' \in Nat /\ removed' > 0
    BY <1>0, <2>4
  <2>6. CASE new = Undefined
    <3>1. object' = Undefined
      BY <2>4, <2>6 DEF WithArea
    <3>2. QED
      BY <2>5, <3>1, AreasKept
  <2>7. CASE new # Undefined
    <3>1. /\ new \in AnArea /\ new.label = label
          /\ new.blocks = IF Contains(area.blocks, block)
                          THEN RemoveFirst(area.blocks, block) ELSE area.blocks
          /\ Len(new.blocks) <= new.total_blocks
      BY <2>2, <2>7, RemovedBlock
    <3>2. Updated(expected', expected, label, new.blocks)
      <4> HIDE DEF new
      <4>1. QED
        BY <2>2, <2>3, <2>4, <3>1 DEF Updated
    <3> HIDE DEF new
    <3>3. object' = Replaced(object, label, new)
      BY <2>4, <2>7 DEF WithArea, Replaced
    <3>4. removed' # 0
      BY <2>5
    <3>5. Sound(object', expected', removed')
      BY <1>0, <2>2, <2>3, <2>5, <3>1, <3>2, <3>3, <3>4, SoundReplace
    <3>6. QED
      BY <2>5, <3>5, AreasKept
  <2>8. QED
    BY <2>6, <2>7
<1>5. ASSUME NEW label \in Label, RemoveArea(label)
      PROVE  AreasInv'
  <2>1. /\ object' = ra_remove_memory_area(object, label) /\ removed' = removed + 1
        /\ expected' = [l \in DOMAIN expected \ {label} |-> expected[l]]
    BY <1>5 DEF RemoveArea
  <2>2. removed' \in Nat /\ removed' > 0
    BY <1>0, <2>1
  <2>3. object' = Undefined \/ Sound(object', expected', removed')
    BY <1>0, <2>1, <2>2, SoundRemove
  <2>4. QED
    BY <2>2, <2>3, AreasKept
<1>6. ASSUME DestroyTable
      PROVE  AreasInv'
  <2>1. /\ object' = IF ra_destroy_table(object) THEN Null ELSE Undefined
        /\ expected' = Null /\ removed' = removed
    BY <1>6 DEF DestroyTable
  <2>2. ASSUME removed = 0 PROVE ra_destroy_table(object)
    <3>1. Exact(object) /\ DOMAIN object.areas = 1 .. Len(object.areas)
      BY <1>0, <2>2, AreaTableFacts DEF Sound
    <3>2. \A k \in 1 .. Len(object.areas) : object.areas[k].head # "freed"
      <4> TAKE k \in 1 .. Len(object.areas)
      <4>1. PICK l, b : object.areas[k] = Filled(l, b)
        BY <3>1 DEF Exact
      <4>2. QED
        BY <4>1 DEF Filled
    <3>3. QED
      BY <3>1, <3>2 DEF Exact, ra_destroy_table, ra_mA_destroy, ra_mB_destroy
  <2>3. object' = Undefined => removed' > 0
    BY <1>0, <2>1, <2>2, NoValue
  <2>4. QED
    BY <1>0, <2>1, <2>3 DEF AreasInv, Gone
<1>7. QED
  BY <1>1, <1>3, <1>4, <1>5, <1>6 DEF NextAreas

(* Every step keeps the invariant. *)
LEMMA AreasStep == AreasInv /\ [Next]_vars => AreasInv'
<1> SUFFICES ASSUME AreasInv, [Next]_vars PROVE AreasInv'
    OBVIOUS
<1>1. CASE NextAreas
  BY <1>1, NextAreasKeeps
<1>2. CASE UNCHANGED vars
  BY <1>2 DEF AreasInv, vars, Sound, Exact, Holds
<1>3. CASE NextList
  BY <1>3 DEF AreasInv, NextList, InsertClient, RemoveClient, DeleteClient,
              Reconnect, DestroyList, Live
<1>4. CASE NextValues
  BY <1>4 DEF AreasInv, NextValues, SetNonce, SetKey, SetPrepared, SetIdentity,
              ResetPrepared, Live
<1>5. CASE SetClient
  BY <1>5 DEF AreasInv, SetClient, Live
<1>6. CASE NextVerifiers
  BY <1>6 DEF AreasInv, NextVerifiers, Appear, Leave, Stop, Reload, Live
<1>7. QED
  BY <1>1, <1>2, <1>3, <1>4, <1>5, <1>6 DEF Next

(* A sequence of different items has as many as its length. *)
LEMMA DistinctCount ==
    ASSUME NEW S, NEW s \in Seq(S), \A j, k \in 1 .. Len(s) : s[j] = s[k] => j = k
    PROVE  Cardinality({s[k] : k \in 1 .. Len(s)}) = Len(s)
<1> DEFINE T == {s[k] : k \in 1 .. Len(s)}
           f == [k \in 1 .. Len(s) |-> s[k]]
<1>1. Len(s) \in Nat
  BY LenProperties
<1>2. f \in [1 .. Len(s) -> T]
  OBVIOUS
<1>3. \A j, k \in 1 .. Len(s) : f[j] = f[k] => j = k
  OBVIOUS
<1>4. \A c \in T : \E k \in 1 .. Len(s) : f[k] = c
  OBVIOUS
<1> HIDE DEF f, T
<1>5. f \in Bijection(1 .. Len(s), T)
  <2>1. PICK D : D = 1 .. Len(s)
    OBVIOUS
  <2>2. f \in [D -> T] /\ (\A j, k \in D : f[j] = f[k] => j = k) /\ \A c \in T : \E k \in D : f[k] = c
    BY <1>2, <1>3, <1>4, <2>1
  <2>3. f \in Bijection(D, T)
    BY ONLY <2>2 DEF Bijection, Injection, Surjection, IsInjective
  <2>4. QED
    BY <2>1, <2>3
<1>6. IsFiniteSet(1 .. Len(s)) /\ Cardinality(1 .. Len(s)) = Len(s)
  <2>1. PICK n \in Nat : n = Len(s)
    BY <1>1
  <2>2. IsFiniteSet(1 .. n) /\ Cardinality(1 .. n) = n
    BY FS_Interval
  <2>3. QED
    BY <2>1, <2>2
<1>7. ExistsBijection(1 .. Len(s), T)
  BY <1>5 DEF ExistsBijection
<1>8. Cardinality(T) = Len(s)
  BY <1>6, <1>7, FS_Bijection
<1>9. QED
  BY <1>8 DEF T

(* The lists of labels that a table starts from. *)
LEMMA StartLabels ==
    ASSUME NEW labels \in {<<>>} \cup [1 .. 1 -> Label] \cup [1 .. 2 -> Label]
    PROVE  /\ labels \in Seq(Label) /\ Len(labels) \in 0 .. 2 /\ DOMAIN labels = 1 .. Len(labels)
           /\ ToSet(labels) = {labels[k] : k \in 1 .. Len(labels)}
           /\ (Cardinality(ToSet(labels)) < Len(labels))
                <=> \E j, k \in 1 .. Len(labels) : labels[j] = labels[k] /\ j # k
<1>1. PICK n \in 0 .. 2 : labels \in [1 .. n -> Label]
  <2>1. CASE labels = <<>>
    <3>1. <<>> \in [1 .. 0 -> Label]
      OBVIOUS
    <3>2. QED
      BY <2>1, <3>1
  <2>2. CASE labels \in [1 .. 1 -> Label]
    BY <2>2
  <2>3. CASE labels \in [1 .. 2 -> Label]
    BY <2>3
  <2>4. QED
    BY <2>1, <2>2, <2>3
<1>2. labels \in Seq(Label)
  BY <1>1, SeqDef
<1>3. DOMAIN labels = 1 .. n
  BY <1>1
<1>4. Len(labels) = n
  BY <1>2, <1>3, LenProperties
<1>5. ToSet(labels) = {labels[k] : k \in 1 .. n}
  BY <1>3 DEF ToSet
<1>6. CASE \A j, k \in 1 .. Len(labels) : labels[j] = labels[k] => j = k
  <2>1. Cardinality({labels[k] : k \in 1 .. Len(labels)}) = Len(labels)
    BY <1>2, <1>6, DistinctCount
  <2>2. Cardinality(ToSet(labels)) = n
    BY <1>4, <1>5, <2>1
  <2>3. QED
    BY <1>2, <1>3, <1>4, <1>5, <1>6, <2>2
<1>7. CASE ~\A j, k \in 1 .. Len(labels) : labels[j] = labels[k] => j = k
  <2>1. PICK j \in 1 .. n, k \in 1 .. n : labels[j] = labels[k] /\ j # k
    BY <1>4, <1>7
  <2>2. n = 2 /\ labels[1] = labels[2]
    BY <2>1
  <2>3. ToSet(labels) = {labels[1]}
    <3>1. 1 .. n = {1, 2}
      BY <2>2
    <3>2. QED
      BY <1>5, <2>2, <3>1
  <2>4. Cardinality(ToSet(labels)) = 1
    BY <2>3, FS_Singleton
  <2>5. QED
    BY <1>2, <1>3, <1>4, <1>5, <2>1, <2>2, <2>4
<1>8. QED
  BY <1>6, <1>7

(* The table of an ADS is sound. *)
LEMMA StartSound ==
    ASSUME NEW labels \in {<<>>} \cup [1 .. 1 -> Label] \cup [1 .. 2 -> Label],
           NEW block \in Block, NEW plans,
           plans = [k \in DOMAIN labels |-> [label |-> labels[k], blocks |-> <<block>>]],
           NEW e, e = [l \in ToSet(labels) |-> <<block>>]
    PROVE  ra_parse_binary_ads(Blob(SampleAID, 1, plans)) =
             (IF Cardinality(ToSet(labels)) < Len(labels) THEN Null
              ELSE TableWith(Identified(SampleAID, 1), FilledAreas(plans)))
           /\ (~(Cardinality(ToSet(labels)) < Len(labels)) =>
                  Sound(TableWith(Identified(SampleAID, 1), FilledAreas(plans)), e, 0))
<1>0. /\ labels \in Seq(Label) /\ Len(labels) \in 0 .. 2 /\ DOMAIN labels = 1 .. Len(labels)
      /\ ToSet(labels) = {labels[k] : k \in 1 .. Len(labels)}
      /\ (Cardinality(ToSet(labels)) < Len(labels))
           <=> \E j, k \in 1 .. Len(labels) : labels[j] = labels[k] /\ j # k
  BY StartLabels
<1>1. PICK n \in Nat : n = Len(labels)
  BY <1>0, LenProperties
<1>2. \A k \in 1 .. n : labels[k] \in Label /\ labels[k] \in Nat
  BY <1>0, <1>1, ElementOfSeq, AreaTypes
<1>3. <<block>> \in Seq(Block) /\ <<block>> \in Seq(AnyBlock) /\ Len(<<block>>) = 1
  BY AreaTypes
<1>4. \A k \in 1 .. n : plans[k].label = labels[k] /\ plans[k].blocks = <<block>>
                        /\ plans[k] \in Plan
  BY <1>0, <1>1, <1>2, <1>3 DEF Plan
<1>5. plans \in Seq(Plan) /\ Len(plans) = n
  <2>1. plans \in [1 .. n -> Plan] /\ DOMAIN plans = 1 .. n
    BY <1>0, <1>1, <1>4
  <2>2. plans \in Seq(Plan)
    BY <2>1, SeqDef
  <2>3. QED
    BY <2>1, <2>2, LenProperties
<1>6. NoLabelTwice(plans) <=> ~(Cardinality(ToSet(labels)) < Len(labels))
  BY <1>0, <1>1, <1>4, <1>5 DEF NoLabelTwice, DistinctLabels
<1> DEFINE areas == FilledAreas(plans)
           id == Identified(SampleAID, 1)
           t == TableWith(id, areas)
<1>7. ra_parse_binary_ads(Blob(SampleAID, 1, plans)) = IF NoLabelTwice(plans) THEN t ELSE Null
  <2>1. SampleAID \in Seq(0 .. 255) /\ Len(SampleAID) = AID_SIZE /\ 1 \in Nat
    BY SampleFacts
  <2>2. QED
    BY <1>5, <2>1, ParsedBlob
<1>8. SUFFICES ASSUME NoLabelTwice(plans) PROVE Sound(t, e, 0)
  BY <1>6, <1>7
<1>9. /\ areas \in Seq(AnyArea) /\ Len(areas) = n
      /\ \A k \in 1 .. n : areas[k] = Filled(labels[k], <<block>>)
  BY <1>4, <1>5, FilledAreasType
<1>10. \A k \in 1 .. n : areas[k] \in AnArea
  <2> TAKE k \in 1 .. n
  <2>1. \A b \in Block : b.size \in Nat
    BY AreaTypes
  <2>2. Filled(labels[k], <<block>>) \in memory_area_t(Label, Block)
    BY <1>2, <1>3, <2>1, FilledType
  <2>3. QED
    BY <1>9, <2>2 DEF AnArea
<1>11. areas \in Seq(AnArea)
  <2>1. areas \in [1 .. n -> AnArea]
    <3>1. areas = [k \in 1 .. n |-> areas[k]]
      BY <1>9
    <3> HIDE DEF areas
    <3>2. QED
      BY <1>10, <3>1
  <2>2. QED
    BY <2>1, SeqDef
<1>12. /\ id \in AnyTable /\ id.app_AID = SampleAID /\ id.app_attestator_number = 1
       /\ id.is_AID_set = TRUE /\ id.is_attestator_number_set = TRUE
       /\ id.current_nonce = Null /\ id.current_key = Null /\ id.prepared_data = Null
       /\ id = TableWith(id, <<>>)
  <2>1. SampleAID \in Seq(Nat) /\ 1 \in Nat
    BY SampleFacts
  <2>2. PICK a \in Seq(Nat), m \in Nat : a = SampleAID /\ m = 1
    BY <2>1
  <2>3. Identified(a, m) = TableWith(Identified(a, m), <<>>)
    BY IdentifiedFields
  <2>4. /\ Identified(a, m) \in AnyTable /\ Identified(a, m).app_AID = a
        /\ Identified(a, m).app_attestator_number = m
        /\ Identified(a, m).is_AID_set = TRUE
        /\ Identified(a, m).is_attestator_number_set = TRUE
    BY IdentifiedFields
  <2>5. /\ Identified(a, m).current_nonce = Null /\ Identified(a, m).current_key = Null
        /\ Identified(a, m).prepared_data = Null
    <3>1. Identified(a, m).current_nonce = Null
      BY IdentifiedFields
    <3>2. Identified(a, m).current_key = Null
      BY IdentifiedFields
    <3>3. Identified(a, m).prepared_data = Null
      BY IdentifiedFields
    <3>4. QED
      BY <3>1, <3>2, <3>3
  <2>6. id = Identified(a, m)
    BY <2>2
  <2> HIDE DEF id
  <2>7. QED
    BY <2>2, <2>3, <2>4, <2>5, <2>6
<1>13. /\ t \in AnyTable /\ t.areas = areas
       /\ t.head = (IF areas = <<>> THEN "null" ELSE "live")
       /\ t.tail = (IF areas = <<>> THEN "null" ELSE "live")
       /\ t.memory_areas_count = Len(areas)
       /\ t.is_AID_set = TRUE /\ t.is_attestator_number_set = TRUE
  BY <1>9, <1>12, TableWithFields
<1>14. t \in AreaTable
  <2>1. /\ id.current_nonce = Null /\ id.current_key = Null /\ id.prepared_data = Null
        /\ id.areas = <<>>
    <3> HIDE DEF id
    <3>1. TableWith(id, <<>>).areas = <<>>
      <4>1. <<>> \in Seq(AnyArea)
        OBVIOUS
      <4>2. PICK none : none = <<>>
        OBVIOUS
      <4>3. TableWith(id, none).areas = none
        BY <1>12, <4>1, <4>2, TableWithFields
      <4>4. QED
        BY <4>2, <4>3
    <3>2. QED
      BY <1>12, <3>1
  <2>2. id \in AreaTable
    <3> HIDE DEF id
    <3>1. <<>> \in Seq(memory_area_t(Label, Block))
      OBVIOUS
    <3>2. QED
      BY <1>12, <2>1, <3>1 DEF AreaTable, AnyTable, ra_table_t
  <2>3. (IF areas = <<>> THEN "null" ELSE "live") \in Pointer
    BY DEF Pointer
  <2>4. PICK hd \in Pointer : hd = (IF areas = <<>> THEN "null" ELSE "live")
    BY <2>3
  <2>5. t = Rebuilt(id, areas, hd, hd, n)
    BY <1>9, <2>4 DEF TableWith, Rebuilt
  <2>6. Changed(Rebuilt(id, areas, hd, hd, n), id, areas, hd, hd, n)
    <3> HIDE DEF areas, id
    <3>1. QED
      BY <1>11, <2>2, AreaTableChanged
  <2>7. QED
    BY <2>5, <2>6 DEF Changed
<1> HIDE DEF t, areas
<1>15. \A k \in 1 .. n : /\ areas[k].label = labels[k] /\ areas[k].blocks = <<block>>
                         /\ areas[k].total_blocks = Len(<<block>>)
                         /\ areas[k] = Filled(areas[k].label, areas[k].blocks)
  <2> TAKE k \in 1 .. n
  <2>1. areas[k] = Filled(labels[k], <<block>>)
    BY <1>9
  <2>2. areas[k].label = labels[k] /\ areas[k].blocks = <<block>>
        /\ areas[k].total_blocks = Len(<<block>>)
    BY <2>1 DEF Filled
  <2>3. QED
    BY <2>1, <2>2
<1>16. Exact(t)
  BY <1>9, <1>13, <1>15 DEF Exact
<1>17. Holds(areas, e)
  <2>1. DOMAIN e = {labels[k] : k \in 1 .. n} /\ \A l \in DOMAIN e : e[l] = <<block>>
    BY <1>0, <1>1
  <2>2. \A j, k \in 1 .. n : labels[j] = labels[k] => j = k
    BY <1>0, <1>1, <1>6, <1>8
  <2>3. DOMAIN e \subseteq Label /\ \A l \in DOMAIN e : e[l] \in Seq(Block)
    BY <1>2, <1>3, <2>1
  <2>4. \A k \in 1 .. n : areas[k].label \in DOMAIN e /\ areas[k].blocks = e[areas[k].label]
    BY <1>15, <2>1
  <2>5. \A l \in DOMAIN e : \E k \in 1 .. n : areas[k].label = l
    BY <1>15, <2>1
  <2>6. \A j, k \in 1 .. n : areas[j].label = areas[k].label => j = k
    BY <1>15, <2>2
  <2>7. QED
    BY <1>9, <2>3, <2>4, <2>5, <2>6 DEF Holds
<1>18. Len(<<block>>) <= Len(<<block>>)
  OBVIOUS
<1>19. QED
  BY <1>9, <1>13, <1>14, <1>15, <1>16, <1>17, <1>18 DEF Sound

(* It holds at the start. *)
LEMMA AreasStart == Init => AreasInv
<1> SUFFICES ASSUME Init, subject = "areas" PROVE AreasInv
  BY DEF AreasInv
<1>1. removed = 0 /\ InitAreas
  BY DEF Init
<1>2. PICK labels \in {<<>>} \cup [1 .. 1 -> Label] \cup [1 .. 2 -> Label], block \in Block :
        /\ object = ra_parse_binary_ads(Blob(SampleAID, 1,
              [k \in DOMAIN labels |-> [label |-> labels[k], blocks |-> <<block>>]]))
        /\ expected = IF Cardinality(ToSet(labels)) < Len(labels) THEN Null
                      ELSE [l \in ToSet(labels) |-> <<block>>]
  BY <1>1 DEF InitAreas
<1>3. PICK plans, e :
        /\ plans = [k \in DOMAIN labels |-> [label |-> labels[k], blocks |-> <<block>>]]
        /\ e = [l \in ToSet(labels) |-> <<block>>]
  OBVIOUS
<1>4. PICK t : t = TableWith(Identified(SampleAID, 1), FilledAreas(plans))
  OBVIOUS
<1>5. /\ object = IF Cardinality(ToSet(labels)) < Len(labels) THEN Null ELSE t
      /\ ~(Cardinality(ToSet(labels)) < Len(labels)) => Sound(t, e, 0)
  BY <1>2, <1>3, <1>4, StartSound
<1>6. expected = IF Cardinality(ToSet(labels)) < Len(labels) THEN Null ELSE e
  BY <1>2, <1>3
<1>7. CASE Cardinality(ToSet(labels)) < Len(labels)
  BY <1>1, <1>5, <1>6, <1>7, NoValue DEF AreasInv, Gone
<1>8. CASE ~(Cardinality(ToSet(labels)) < Len(labels))
  <2>1. object = t /\ expected = e /\ Sound(t, e, 0)
    BY <1>5, <1>6, <1>8
  <2>2. t # Null /\ t # Undefined
    BY <2>1, AreaTableFacts DEF Sound
  <2>3. QED
    BY <1>1, <2>1, <2>2 DEF AreasInv
<1>9. QED
  BY <1>7, <1>8

(* What is known of the area of a label in a table without removals. *)
LEMMA ExactArea ==
    ASSUME NEW t, NEW e, Sound(t, e, 0), NEW label \in DOMAIN e
    PROVE  /\ ra_get_memory_area(t, label) = Filled(label, e[label])
           /\ label \in Nat /\ e[label] \in Seq(Block) /\ e[label] \in Seq(AnyBlock)
<1>1. Exact(t) /\ t \in AreaTable
  BY DEF Sound
<1>2. t.head # "freed"
  BY <1>1 DEF Exact
<1>3. Holds(t.areas, e)
  BY <1>2 DEF Sound
<1>4. Finds(t, e, label)
  BY <1>1, <1>2, <1>3, FindsArea
<1>5. PICK k \in 1 .. Len(t.areas) :
        /\ ra_get_memory_area(t, label) = t.areas[k]
        /\ t.areas[k].label = label /\ t.areas[k].blocks = e[label]
  BY <1>4 DEF Finds
<1>6. t.areas[k] = Filled(t.areas[k].label, t.areas[k].blocks)
  BY <1>1 DEF Exact
<1>7. label \in Label /\ e[label] \in Seq(Block)
  BY <1>3 DEF Holds
<1>8. QED
  BY <1>5, <1>6, <1>7, AreaTypes

(* TableIsDictionary, in parts: the search for labels. *)
LEMMA DictionarySearch ==
    ASSUME NEW t, NEW e, NEW r \in Nat, Sound(t, e, r), NEW l \in Label,
           ra_get_memory_area(t, l) # Undefined
    PROVE  IF l \in DOMAIN e
           THEN /\ ra_get_memory_area(t, l) # Null
                /\ ra_get_memory_area(t, l).blocks = e[l]
           ELSE ra_get_memory_area(t, l) = Null
<1>1. t \in AreaTable /\ t.head # "freed"
  BY DEF Sound, ra_get_memory_area
<1>2. Finds(t, e, l)
  BY <1>1, FindsArea DEF Sound
<1>3. CASE l \in DOMAIN e
  <2>1. PICK k \in 1 .. Len(t.areas) :
          ra_get_memory_area(t, l) = t.areas[k] /\ t.areas[k].blocks = e[l]
    BY <1>2, <1>3 DEF Finds
  <2>2. t.areas[k] \in AnArea
    BY <1>1, AreaTableFacts
  <2>3. t.areas[k] # Null
    BY <2>2, AreaTypes, NoValue
  <2>4. QED
    BY <1>3, <2>1, <2>3
<1>4. CASE l \notin DOMAIN e
  BY <1>2, <1>4 DEF Finds
<1>5. QED
  BY <1>3, <1>4

(* And its counters and the list of its labels, until something is removed. *)
LEMMA DictionaryCounts ==
    ASSUME NEW t, NEW e, Sound(t, e, 0)
    PROVE  /\ ToSet(ra_get_labels_list(t)) = DOMAIN e
           /\ ra_get_memory_areas_count(t) = Cardinality(DOMAIN e)
           /\ \A l \in Label : ra_is_label_defined(t, l) = (l \in DOMAIN e)
           /\ ra_print_table_info(t)
<1> DEFINE s == t.areas
<1>0. /\ t \in AreaTable /\ t \in AnyTable /\ s \in Seq(AnArea) /\ s \in Seq(AnyArea)
      /\ Len(s) \in Nat /\ DOMAIN s = 1 .. Len(s)
  BY AreaTableFacts DEF Sound
<1>1. Exact(t)
  BY DEF Sound
<1>2. Holds(s, e)
  BY <1>1 DEF Sound, Exact
<1>3. PICK n \in Nat : n = Len(s)
  BY <1>0
<1>4. DOMAIN e = {s[k].label : k \in 1 .. n}
  <2>1. \A k \in 1 .. n : s[k].label \in DOMAIN e
    BY <1>2, <1>3 DEF Holds
  <2>2. \A l \in DOMAIN e : \E k \in 1 .. n : s[k].label = l
    BY <1>2, <1>3 DEF Holds
  <2>3. QED
    BY <2>1, <2>2
<1>5. s = <<>> => n = 0
  BY <1>3
<1>6. Walkable(t)
  BY <1>1, <1>3, <1>5 DEF Walkable, Exact
<1>7. PICK labels : labels = [k \in 1 .. n |-> s[k].label]
  OBVIOUS
<1>8. ra_get_labels_list(t) = labels
  BY <1>1, <1>3, <1>6, <1>7 DEF ra_get_labels_list, ra_mA_get_label, Exact
<1>9. ToSet(labels) = DOMAIN e
  BY <1>4, <1>7 DEF ToSet
<1>10. \A k \in 1 .. n : s[k].label \in Label
  BY <1>2, <1>3 DEF Holds
<1>11. labels \in Seq(Label) /\ Len(labels) = n
  <2>1. labels \in [1 .. n -> Label] /\ DOMAIN labels = 1 .. n
    BY <1>7, <1>10
  <2>2. labels \in Seq(Label)
    BY <2>1, SeqDef
  <2>3. QED
    BY <2>1, <2>2, LenProperties
<1>12. Cardinality(DOMAIN e) = n
  <2>1. \A j, k \in 1 .. Len(labels) : labels[j] = labels[k] => j = k
    BY <1>2, <1>3, <1>7, <1>11 DEF Holds
  <2>2. Cardinality({labels[k] : k \in 1 .. Len(labels)}) = Len(labels)
    BY <1>11, <2>1, DistinctCount
  <2>3. DOMAIN e = {labels[k] : k \in 1 .. Len(labels)}
    BY <1>4, <1>7, <1>11
  <2>4. QED
    BY <1>11, <2>2, <2>3
<1>13. ASSUME NEW l PROVE ra_is_label_defined(t, l) = (l \in DOMAIN e)
  <2>1. t = TableWith(t, s)
    BY <1>0, <1>1, TableIsWith DEF Exact
  <2>2. PICK w : w = TableWith(t, s)
    OBVIOUS
  <2>3. ra_is_label_defined(w, l) = (\E k \in 1 .. Len(s) : s[k].label = l)
    BY <1>0, <2>2, LabelsDefined
  <2>4. (\E k \in 1 .. Len(s) : s[k].label = l) <=> (l \in DOMAIN e)
    <3>1. l \in DOMAIN e <=> \E k \in 1 .. n : s[k].label = l
      BY <1>4
    <3>2. QED
      BY <1>3, <3>1
  <2>5. w = t
    BY <2>1, <2>2
  <2>6. CASE l \in DOMAIN e
    <3>1. ra_is_label_defined(t, l) = TRUE
      BY <2>3, <2>4, <2>5, <2>6
    <3>2. QED
      BY <2>6, <3>1
  <2>7. CASE l \notin DOMAIN e
    <3>1. ra_is_label_defined(t, l) = FALSE
      BY <2>3, <2>4, <2>5, <2>7
    <3>2. (l \in DOMAIN e) = FALSE
      BY <2>7
    <3>3. QED
      BY <3>1, <3>2
  <2>8. QED
    BY <2>6, <2>7
<1>14. ra_print_table_info(t)
  <2>1. ASSUME NEW k \in 1 .. n PROVE ra_mA_print_info(s[k])
    <3>1. s[k] = Filled(s[k].label, s[k].blocks)
      BY <1>1, <1>3 DEF Exact
    <3>2. PICK l, b : s[k] = Filled(l, b)
      BY <3>1
    <3>3. b = <<>> => Len(b) = 0
      OBVIOUS
    <3>4. QED
      BY <3>2, <3>3 DEF Filled, ra_mA_print_info, ra_mB_print_info
  <2>2. t.head # "freed"
    BY <1>1 DEF Exact
  <2>3. QED
    BY <1>0, <1>3, <2>1, <2>2 DEF ra_print_table_info
<1>15. QED
  BY <1>1, <1>3, <1>8, <1>9, <1>12, <1>13, <1>14 DEF ra_get_memory_areas_count, Exact

(* A table is a dictionary of areas, with the exceptions that              *)
(* TableIsDictionary names, after any number of insertions and removals in *)
(* any order: ra_data_table.c finds exactly the labels that were put in    *)
(* and not taken out, with their blocks, and its counters are exact until  *)
(* something is removed.                                                   *)
THEOREM TableIsDictionaryHolds == Spec => []TableIsDictionary
<1>1. AreasInv => TableIsDictionary
  <2> SUFFICES ASSUME AreasInv, subject = "areas" PROVE TableIsDictionary
    BY DEF TableIsDictionary
  <2>1. /\ removed \in Nat /\ (object = Undefined => removed > 0)
        /\ object = Null => expected = Null
        /\ object \notin Gone => Sound(object, expected, removed)
    BY DEF AreasInv
  <2>2. ASSUME object \notin Gone, NEW l \in Label, Area(l) # Undefined
        PROVE  IF l \in DOMAIN expected
               THEN Area(l) # Null /\ Area(l).blocks = expected[l]
               ELSE Area(l) = Null
    BY <2>1, <2>2, DictionarySearch DEF Area
  <2>3. ASSUME object \notin Gone, removed = 0
        PROVE  /\ ToSet(ra_get_labels_list(object)) = DOMAIN expected
               /\ ra_get_memory_areas_count(object) = Cardinality(DOMAIN expected)
               /\ \A l \in Label : ra_is_label_defined(object, l) = (l \in DOMAIN expected)
               /\ \A l \in DOMAIN expected :
                     /\ Area(l).total_blocks = Len(expected[l])
                     /\ Area(l).total_size = Total(expected[l])
               /\ ra_print_table_info(object)
    <3>1. Sound(object, expected, 0)
      BY <2>1, <2>3
    <3>2. ASSUME NEW l \in DOMAIN expected
          PROVE  Area(l).total_blocks = Len(expected[l]) /\ Area(l).total_size = Total(expected[l])
      <4>1. Area(l) = Filled(l, expected[l])
        BY <3>1, ExactArea DEF Area
      <4>2. QED
        BY <4>1 DEF Filled, BytesOf, Total
    <3>3. QED
      BY <3>1, <3>2, DictionaryCounts
  <2>4. QED
    BY <2>1, <2>2, <2>3 DEF TableIsDictionary
<1>2. QED
  BY <1>1, AreasStart, AreasStep, PTL DEF Spec

(* The byte that ra_mA_get_byte finds for an index is the byte that        *)
(* ra_mA_get_buffer copies there, whatever blocks are inserted into which  *)
(* areas and whatever the memory holds.                                    *)
THEOREM BytesAgreeHolds == Spec => []BytesAgree
<1>1. AreasInv => BytesAgree
  <2> SUFFICES ASSUME AreasInv, Live("areas"), removed = 0, NEW l \in DOMAIN expected
               PROVE  LET buffer == ra_mA_get_buffer(Memory, Area(l)) IN
                      /\ Len(buffer) = Area(l).total_size
                      /\ \A i \in 1..Area(l).total_size :
                            /\ ra_mA_get_byte(Memory, Area(l), i - 1) = buffer[i]
                            /\ ra_mA_get_block(Area(l), i - 1) \in ToSet(expected[l])
    BY DEF BytesAgree
  <2>1. Sound(object, expected, 0)
    BY DEF AreasInv, Live
  <2>2. Area(l) = Filled(l, expected[l]) /\ expected[l] \in Seq(AnyBlock)
    BY <2>1, ExactArea DEF Area
  <2>3. SameBytes(Memory, l, expected[l])
    BY <2>2, SameBytesAll
  <2>4. Filled(l, expected[l]).total_size = BytesOf(expected[l])
    BY DEF Filled
  <2>5. QED
    BY <2>2, <2>3, <2>4 DEF SameBytes
<1>2. QED
  BY <1>1, AreasStart, AreasStep, PTL DEF Spec

(* An area with bytes is dumped as a text that describes it; of any other   *)
(* there is no text.                                                        *)
LEMMA DumpOfFilled ==
    ASSUME NEW label \in Nat, NEW blocks \in Seq(AnyBlock)
    PROVE  IF BytesOf(blocks) = 0 THEN ra_mA_dump_info_binary(Filled(label, blocks)) = Failed
           ELSE Describes(ra_mA_dump_info_binary(Filled(label, blocks)), label, blocks)
<1>1. PICK area : area = Filled(label, blocks)
  OBVIOUS
<1>2. /\ area.label = label /\ area.blocks = blocks /\ area.total_blocks = Len(blocks)
      /\ area.total_size = BytesOf(blocks) /\ area.head # "freed"
  BY <1>1 DEF Filled
<1>3. PICK n \in Nat : n = Len(blocks) /\ DOMAIN blocks = 1 .. n
  BY LenProperties
<1>4. CASE BytesOf(blocks) = 0
  BY <1>1, <1>2, <1>4 DEF ra_mA_dump_info_binary, ra_mA_is_empty
<1>5. CASE BytesOf(blocks) # 0
  <2>1. n # 0
    <3>1. LowerBound(blocks, 1) = 0
      BY LowerBoundSteps
    <3>2. n = 0 => BytesOf(blocks) = LowerBound(blocks, 1)
      BY <1>3 DEF BytesOf
    <3>3. QED
      BY <1>5, <3>1, <3>2
  <2>2. ra_mA_dump_info_binary(area) = <<label, n % Word, n \div Word>> \o DumpAll(blocks)
    BY <1>2, <1>3, <1>5, <2>1 DEF ra_mA_dump_info_binary, ra_mA_is_empty, DumpAll
  <2>3. PICK h : Joins(h, Dumps(blocks, n), n) /\ DumpAll(blocks) = h[n]
    BY <1>3, DumpSteps
  <2>4. /\ n % Word \in Nat /\ n \div Word \in Nat
        /\ (n % Word) + Word * (n \div Word) = n
    BY DEF Word
  <2>5. PICK lo \in Nat, hi \in Nat : lo = n % Word /\ hi = n \div Word /\ lo + Word * hi = n
    BY <2>4
  <2>6. PICK text : text = ra_mA_dump_info_binary(area)
    OBVIOUS
  <2>7. text = <<label, lo, hi>> \o h[n]
    BY <2>2, <2>3, <2>5, <2>6
  <2>8. Dumps(blocks, Len(blocks)) = [k \in 1 .. Len(blocks) |-> ra_mB_dump_info(blocks[k])]
    BY DEF Dumps
  <2>9. Describes(text, label, blocks)
    BY <1>3, <2>3, <2>5, <2>7, <2>8 DEF Describes
  <2>10. QED
    BY <1>1, <1>5, <2>6, <2>9
<1>6. QED
  BY <1>4, <1>5

(* The file of a table that nothing was removed from. *)
LEMMA FileReadsBack ==
    ASSUME NEW t, NEW e, Sound(t, e, 0), ra_dump_table_info(t) # Failed
    PROVE  ParseAreas(ra_create_table(FALSE),
                      SubSeq(ra_dump_table_info(t), AIDWords + 6, Len(ra_dump_table_info(t))),
                      ra_get_memory_areas_count(t)).areas = t.areas
<1> DEFINE s == t.areas
           file == ra_dump_table_info(t)
<1>0. /\ t \in AreaTable /\ t \in AnyTable /\ s \in Seq(AnArea) /\ s \in Seq(AnyArea)
      /\ Len(s) \in Nat /\ DOMAIN s = 1 .. Len(s)
      /\ \A k \in 1 .. Len(s) : s[k] \in AnArea
  BY AreaTableFacts DEF Sound
<1>1. Exact(t)
  BY DEF Sound
<1>2. Holds(s, e)
  BY <1>1 DEF Sound, Exact
<1>3. PICK n \in Nat : n = Len(s)
  BY <1>0
<1>4. PICK plans : plans = [k \in 1 .. n |-> [label |-> s[k].label, blocks |-> s[k].blocks]]
  OBVIOUS
<1>5. \A k \in 1 .. n : /\ plans[k].label = s[k].label /\ plans[k].blocks = s[k].blocks
                        /\ plans[k] \in Plan
                        /\ s[k].label \in Nat /\ s[k].blocks \in Seq(AnyBlock)
  <2> TAKE k \in 1 .. n
  <2>1. s[k] \in AnArea
    BY <1>0, <1>3
  <2>2. s[k].label \in Nat /\ s[k].blocks \in Seq(AnyBlock)
    BY <2>1, AreaTypes DEF AnArea, memory_area_t
  <2>3. QED
    BY <1>4, <2>2 DEF Plan
<1>6. plans \in Seq(Plan) /\ Len(plans) = n
  <2>1. plans \in [1 .. n -> Plan] /\ DOMAIN plans = 1 .. n
    BY <1>4, <1>5
  <2>2. plans \in Seq(Plan)
    BY <2>1, SeqDef
  <2>3. QED
    BY <2>1, <2>2, LenProperties
<1>7. NoLabelTwice(plans)
  BY <1>2, <1>3, <1>5, <1>6 DEF NoLabelTwice, DistinctLabels, Holds
<1>8. FilledAreas(plans) = s
  <2>1. /\ FilledAreas(plans) \in Seq(AnyArea) /\ Len(FilledAreas(plans)) = n
        /\ \A k \in 1 .. n : FilledAreas(plans)[k] = Filled(plans[k].label, plans[k].blocks)
    BY <1>6, FilledAreasType
  <2>2. \A k \in 1 .. n : FilledAreas(plans)[k] = s[k]
    BY <1>1, <1>3, <1>5, <2>1 DEF Exact
  <2>3. QED
    BY <1>0, <1>3, <2>1, <2>2, SeqEqual
<1>9. PICK dumps : dumps = [k \in DOMAIN s |-> ra_mA_dump_info_binary(s[k])]
  OBVIOUS
<1>10. PICK bad : bad = SelectInSeq(dumps, LAMBDA d : d = Failed \/ d = Undefined)
  OBVIOUS
<1>11. ~(t.memory_areas_count # 0 /\ t.head = "freed")
  BY <1>1 DEF Exact
<1>12. file = IF bad # 0 THEN dumps[bad]
              ELSE Words(t.app_AID)
                    \o <<t.app_attestator_number % Word, t.app_attestator_number \div Word, 0, 0>>
                    \o <<t.memory_areas_count>> \o FlattenSeq(dumps)
  BY <1>1, <1>9, <1>10, <1>11 DEF ra_dump_table_info, Exact
<1>13. ASSUME NEW k \in 1 .. n
       PROVE  \/ dumps[k] = Failed
              \/ dumps[k] \in Seq(Nat) /\ Describes(dumps[k], plans[k].label, plans[k].blocks)
  <2>1. PICK l \in Nat, b \in Seq(AnyBlock) : l = plans[k].label /\ b = plans[k].blocks
    BY <1>5
  <2>2. s[k] = Filled(l, b)
    BY <1>1, <1>3, <1>5, <2>1 DEF Exact
  <2>3. dumps[k] = ra_mA_dump_info_binary(Filled(l, b))
    BY <1>0, <1>3, <1>9, <2>2
  <2>4. dumps[k] = Failed \/ Describes(dumps[k], l, b)
    BY <2>3, DumpOfFilled
  <2>5. ASSUME Describes(dumps[k], l, b) PROVE dumps[k] \in Seq(Nat)
    <3>1. PICK rest \in Seq(Nat) : rest = <<>>
      <4>1. <<>> \in Seq(Nat)
        OBVIOUS
      <4>2. QED
        BY <4>1
    <3>2. QED
      BY <2>5, ReadBack
  <2>6. QED
    BY <2>1, <2>4, <2>5
<1>14. DOMAIN dumps = 1 .. n
  BY <1>0, <1>3, <1>9
<1>15. Len(dumps) = n
  <2>1. PICK R : \A k \in 1 .. n : dumps[k] \in R
    <3>1. \A k \in 1 .. n : dumps[k] \in {dumps[j] : j \in 1 .. n}
      OBVIOUS
    <3>2. QED
      BY <3>1
  <2>2. dumps \in [1 .. n -> R]
    BY <1>9, <1>14, <2>1
  <2>3. dumps \in Seq(R)
    BY <2>2, SeqDef
  <2>4. QED
    BY <1>14, <2>3, LenProperties
<1> DEFINE I == {k \in 1 .. n : dumps[k] = Failed \/ dumps[k] = Undefined}
<1>16. bad = IF I # {} THEN Min(I) ELSE 0
  BY <1>10, <1>15 DEF SelectInSeq
<1>17. I = {}
  <2>1. SUFFICES ASSUME I # {} PROVE FALSE
    OBVIOUS
  <2>2. I \in SUBSET Nat
    OBVIOUS
  <2>3. Min(I) \in I
    BY <2>1, <2>2, MinFacts
  <2>4. bad \in 1 .. n /\ (dumps[bad] = Failed \/ dumps[bad] = Undefined)
    BY <1>16, <2>1, <2>3
  <2>5. dumps[bad] = Failed
    BY <1>13, <2>4, NoValue
  <2>6. bad # 0
    BY <2>4
  <2>7. QED
    BY <1>12, <2>5, <2>6
<1>18. \A k \in 1 .. n : /\ dumps[k] \in Seq(Nat)
                         /\ Describes(dumps[k], plans[k].label, plans[k].blocks)
  BY <1>13, <1>17
<1>19. dumps \in [1 .. n -> Seq(Nat)]
  BY <1>9, <1>14, <1>18
<1>20. PICK h : Joins(h, dumps, n) /\ FlattenSeq(dumps) = h[n]
  BY <1>19, FlattenIsJoin
<1>21. h[n] \in Seq(Nat)
  <2>1. \A k \in 0 .. n : h[k] \in Seq(Nat)
    BY <1>19, <1>20, JoinType
  <2>2. QED
    BY <2>1
<1>22. PICK m \in Nat : m = AIDWords /\ AID_SIZE = 2 * m
  <2>1. PICK j \in 1 .. 8 : AID_SIZE = 2 * j
    BY AIDAssumption
  <2>2. AIDWords = j
    BY <2>1 DEF AIDWords
  <2>3. QED
    BY <2>1, <2>2
<1>23. PICK head \in Seq(Nat) : Len(head) = m + 5 /\ file = head \o h[n]
  <2> DEFINE a == Words(t.app_AID)
             b == <<t.app_attestator_number % Word, t.app_attestator_number \div Word, 0, 0>>
             c == <<t.memory_areas_count>>
  <2>1. t.app_AID = SampleAID /\ t.app_attestator_number = 1 /\ t.memory_areas_count \in Nat
    BY <1>0 DEF AreaTable, ra_table_t
  <2>2. a \in Seq(Nat) /\ Len(a) = m
    BY <1>22, <2>1, SampleFacts, WordsAndBytes
  <2>3. b \in Seq(Nat) /\ Len(b) = 4
    <3>1. 1 % Word \in Nat /\ 1 \div Word \in Nat
      BY DEF Word
    <3>2. QED
      BY <2>1, <3>1
  <2>4. c \in Seq(Nat) /\ Len(c) = 1
    BY <2>1
  <2>5. file = a \o b \o c \o h[n]
    BY <1>12, <1>16, <1>17, <1>20
  <2> HIDE DEF a, b, c
  <2>6. a \o b \in Seq(Nat) /\ Len(a \o b) = m + 4
    <3>1. \A x, y \in Seq(Nat) : x \o y \in Seq(Nat) /\ Len(x \o y) = Len(x) + Len(y)
      OBVIOUS
    <3>2. QED
      BY <2>2, <2>3, <3>1
  <2>7. PICK d \in Seq(Nat) : d = a \o b /\ Len(d) = m + 4
    BY <2>6
  <2>8. d \o c \in Seq(Nat) /\ Len(d \o c) = m + 4 + 1
    <3>1. \A x, y \in Seq(Nat) : x \o y \in Seq(Nat) /\ Len(x \o y) = Len(x) + Len(y)
      OBVIOUS
    <3>2. QED
      BY <2>4, <2>7, <3>1
  <2>9. m + 4 + 1 = m + 5
    OBVIOUS
  <2>10. QED
    BY <2>5, <2>7, <2>8, <2>9
<1>24. SubSeq(file, AIDWords + 6, Len(file)) = h[n]
  <2>1. SubSeq(head \o h[n], Len(head) + 1, Len(head \o h[n])) = h[n]
    BY <1>21, <1>23, Behind
  <2>2. Len(head) + 1 = AIDWords + 6
    BY <1>22, <1>23
  <2>3. QED
    BY <1>23, <2>1, <2>2
<1>25. ra_get_memory_areas_count(t) = n
  BY <1>1, <1>3 DEF Exact, ra_get_memory_areas_count
<1>26. PICK new : new = ra_create_table(FALSE)
  OBVIOUS
<1>27. new \in AnyTable /\ new = TableWith(new, <<>>)
  <2>1. /\ new \in AnyTable
        /\ new.areas = <<>> /\ new.head = "null" /\ new.tail = "null"
        /\ new.memory_areas_count = 0
    BY <1>26 DEF AnyTable, ra_table_t, Pointer, ra_create_table
  <2>2. QED
    BY <2>1, TableIsWith
<1>28. ParseAreas(new, h[n], n) = TableWith(new, FilledAreas(plans))
  BY <1>6, <1>7, <1>18, <1>19, <1>20, <1>27, ParseAll
<1>29. TableWith(new, s).areas = s
  BY <1>0, <1>27, TableWithFields
<1> HIDE DEF file
<1>30. ParseAreas(ra_create_table(FALSE), SubSeq(file, AIDWords + 6, Len(file)),
                  ra_get_memory_areas_count(t)).areas = s
  BY <1>8, <1>24, <1>25, <1>26, <1>28, <1>29
<1>31. QED
  BY <1>30 DEF file

(* What ra_mA_dump_info_binary and ra_dump_table_info write of the areas   *)
(* is read back by ra_mA_parse_ads_text_info and by the loop of            *)
(* ra_parse_binary_ads, for any areas and blocks that were inserted.       *)
THEOREM DumpReadsBackHolds == Spec => []DumpReadsBack
<1>1. AreasInv => DumpReadsBack
  <2> SUFFICES ASSUME AreasInv, Live("areas"), removed = 0
               PROVE  DumpReadsBack
    BY DEF DumpReadsBack
  <2>1. Sound(object, expected, 0)
    BY DEF AreasInv, Live
  <2>2. ASSUME NEW l \in DOMAIN expected, Total(expected[l]) > 0
        PROVE  ra_mA_parse_ads_text_info(ra_mA_dump_info_binary(Area(l))) = Area(l)
    <3>1. PICK b \in Seq(AnyBlock) : b = expected[l] /\ Area(l) = Filled(l, b) /\ l \in Nat
      BY <2>1, ExactArea DEF Area
    <3>2. BytesOf(b) # 0
      BY <2>2, <3>1 DEF BytesOf, Total
    <3>3. PICK text : text = ra_mA_dump_info_binary(Filled(l, b))
      OBVIOUS
    <3>4. Describes(text, l, b)
      BY <3>1, <3>2, <3>3, DumpOfFilled
    <3>5. PICK rest \in Seq(Nat) : rest = <<>>
      <4>1. <<>> \in Seq(Nat)
        OBVIOUS
      <4>2. QED
        BY <4>1
    <3>6. ra_mA_parse_ads_text_info(text) = Filled(l, b)
      BY <3>1, <3>4, <3>5, ReadBack
    <3>7. QED
      BY <3>1, <3>3, <3>6
  <2>3. ASSUME ra_dump_table_info(object) # Failed
        PROVE  ParseAreas(ra_create_table(FALSE),
                  SubSeq(ra_dump_table_info(object), AIDWords + 6,
                         Len(ra_dump_table_info(object))),
                  ra_get_memory_areas_count(object)).areas = object.areas
    BY <2>1, <2>3, FileReadsBack
  <2>4. QED
    BY <2>2, <2>3 DEF DumpReadsBack
<1>2. QED
  BY <1>1, AreasStart, AreasStep, PTL DEF Spec

-----------------------------------------------------------------------------
(* Types *)

(* What the invariants above do not say of the variables. *)
TypeInv ==
    /\ subject \in {"areas", "values", "list", "client", "verifiers"}
    /\ removed \in 0 .. MaxRemoved
    /\ subject = "client" => object \in ra_client_t(AIDs, Numbers, Numbers, Numbers, Session)

(* Every step keeps it. *)
LEMMA TypeStep == TypeInv /\ [Next]_vars => TypeInv'
<1> SUFFICES ASSUME TypeInv, [Next]_vars PROVE TypeInv'
    OBVIOUS
<1>0. MaxRemoved \in Nat /\ removed \in 0 .. MaxRemoved
  BY NumbersAssumption DEF TypeInv
<1>1. removed < MaxRemoved => removed + 1 \in 0 .. MaxRemoved
  BY <1>0
<1>2. CASE NextAreas
  BY <1>1, <1>2 DEF TypeInv, NextAreas, InsertArea, InsertBlock, RemoveBlock, RemoveArea,
              DestroyTable, Live
<1>3. CASE NextValues
  BY <1>3 DEF TypeInv, NextValues, SetNonce, SetKey, SetPrepared, SetIdentity,
              ResetPrepared, Live
<1>4. CASE NextList
  BY <1>1, <1>4 DEF TypeInv, NextList, InsertClient, RemoveClient, DeleteClient,
              Reconnect, DestroyList, Live
<1>5. CASE SetClient
  <2>1. subject = "client" /\ subject' = subject /\ removed' = removed
        /\ object \in ra_client_t(AIDs, Numbers, Numbers, Numbers, Session)
    BY <1>5 DEF SetClient, Live, TypeInv
  <2>2. object' \in ra_client_t(AIDs, Numbers, Numbers, Numbers, Session)
    BY <1>5, <2>1
       DEF SetClient, RA_CLI_set_AID, RA_CLI_set_attestator_number,
           RA_CLI_set_attestator_id, RA_CLI_set_sleep_avg_seconds,
           RA_CLI_set_sleep_var_seconds, RA_CLI_set_session_id, ra_client_t
  <2>3. QED
    BY <2>1, <2>2 DEF TypeInv
<1>6. CASE NextVerifiers
  BY <1>6 DEF TypeInv, NextVerifiers, Appear, Leave, Stop, Reload, Live
<1>7. CASE UNCHANGED vars
  BY <1>7 DEF TypeInv, vars
<1>8. QED
  BY <1>2, <1>3, <1>4, <1>5, <1>6, <1>7 DEF Next

(* The objects that the calls of the libraries leave are of their types,   *)
(* for any labels, blocks, values, clients and verifiers and after any     *)
(* sequence of calls.                                                      *)
THEOREM TypeOKHolds == Spec => []TypeOK
<1>1. Init => TypeInv
  <2>1. <<0>> \in AIDs
    BY DEF AIDs
  <2>2. 0 \in 0 .. MaxRemoved
    BY NumbersAssumption
  <2>3. QED
    BY <2>1, <2>2, ClientAssumption DEF Init, TypeInv, InitClient, RA_CLI_create, ra_client_t
<1>2. TypeInv /\ AreasInv /\ ValuesInv /\ ListInv /\ VerifiersInv => TypeOK
  BY DEF TypeInv, AreasInv, ValuesInv, ListInv, VerifiersInv, TypeOK, Live, Sound, AreaTable,
         ValueTable, Listed, Serves
<1>3. QED
  BY <1>1, <1>2, TypeStep, AreasStart, AreasStep, ValuesStart, ClientStart, FieldsStep,
     ListStart, ListStep, VerifiersStart, VerifiersStep, PTL DEF Spec

=============================================================================
