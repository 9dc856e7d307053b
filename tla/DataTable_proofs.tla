-------------------------- MODULE DataTable_proofs --------------------------
(***************************************************************************)
(* Lemmas about the operators of AttestedMemory and DataTable, for the     *)
(* proofs about Libraries and DataPath: what the folds over blocks, areas  *)
(* and words compute, for sequences of any length.                         *)
(***************************************************************************)
EXTENDS DataTable, NatFacts, SequenceTheorems

-----------------------------------------------------------------------------
(* Folds.  FoldLeft is a recursion over subsets of the domain that takes    *)
(* out the largest index first; each fold of the model is turned into a     *)
(* function on 0 .. n that has the values after each item.                  *)

(* The largest element of a set of numbers up to n. *)
LEMMA MaxOfSet ==
    ASSUME NEW n \in Nat, NEW s \in SUBSET (1 .. n), s # {}
    PROVE  Max(s) \in s /\ \A y \in s : Max(s) >= y
<1>1. s \in SUBSET Nat
  OBVIOUS
<1> DEFINE T == {n - x : x \in s}
<1>2. \A x \in s : n - x \in Nat
  OBVIOUS
<1>3. T \in SUBSET Nat /\ T # {}
  BY <1>2
<1>4. PICK t \in T : \A k \in T : t <= k
  <2> HIDE DEF T
  <2> QED
    BY <1>3, LeastNumber
<1>5. PICK x \in s : t = n - x
  OBVIOUS
<1>6. \A y \in s : x >= y
  <2> TAKE y \in s
  <2>1. n - y \in T
    OBVIOUS
  <2>2. t <= n - y
    BY <1>4, <2>1
  <2>3. x \in Nat /\ y \in Nat
    BY <1>1
  <2> QED
    BY <1>5, <2>2, <2>3
<1>7. QED
  BY <1>6 DEF Max

(* Sets of numbers up to n + 1: with n + 1, or up to n. *)
LEMMA MaxSplit ==
    ASSUME NEW n \in Nat, NEW s \in SUBSET (1 .. n + 1)
    PROVE  /\ n + 1 \in s => /\ Max(s) = n + 1
                             /\ s \ {n + 1} \in SUBSET (1 .. n)
           /\ n + 1 \notin s => s \in SUBSET (1 .. n)
           /\ n + 1 \notin s /\ s # {} => /\ Max(s) \in s /\ Max(s) \in 1 .. n
                                          /\ s \ {Max(s)} \in SUBSET (1 .. n)
<1>1. n + 1 \in Nat
  OBVIOUS
<1>2. n + 1 \notin s => s \in SUBSET (1 .. n)
  OBVIOUS
<1>3. s \ {n + 1} \in SUBSET (1 .. n)
  OBVIOUS
<1>4. ASSUME n + 1 \in s PROVE Max(s) = n + 1
  <2>1. Max(s) \in s /\ Max(s) >= n + 1
    BY <1>1, <1>4, MaxOfSet
  <2>2. Max(s) \in 1 .. n + 1
    BY <2>1
  <2>3. QED
    BY <2>1, <2>2
<1>5. ASSUME n + 1 \notin s, s # {}
      PROVE  /\ Max(s) \in s /\ Max(s) \in 1 .. n
             /\ s \ {Max(s)} \in SUBSET (1 .. n)
  BY <1>2, <1>5, MaxOfSet
<1>6. QED
  BY <1>2, <1>3, <1>4, <1>5

(* Prefixes of the domain. *)
LEMMA MaxPrefix ==
    ASSUME NEW n \in Nat, NEW k \in 1 .. n
    PROVE  /\ 1 .. k \in SUBSET (1 .. n) /\ 1 .. k # {}
           /\ Max(1 .. k) = k /\ (1 .. k) \ {k} = 1 .. (k - 1)
<1>1. PICK m \in Nat : k = m + 1
  <2>1. k - 1 \in Nat /\ k = (k - 1) + 1
    OBVIOUS
  <2>2. QED
    BY <2>1
<1>2. Max(1 .. k) = k
  <2>1. 1 .. k \in SUBSET (1 .. m + 1) /\ m + 1 \in 1 .. k
    BY <1>1
  <2>2. QED
    BY <1>1, <2>1, MaxSplit
<1>3. QED
  BY <1>2

(* The insertion of blocks, one after another. *)
Inserts(h, area, blocks, n) ==
    h[0] = area /\ \A k \in 1 .. n : h[k] = ra_mA_insert_block(h[k - 1], blocks[k], TRUE)

InsertFold(f, area, blocks, n) ==
    f = [s \in SUBSET (1 .. n) |->
            IF s = {} THEN area ELSE ra_mA_insert_block(f[s \ {Max(s)}], blocks[Max(s)], TRUE)]

(* The function of the recursion exists. *)
LEMMA InsertFoldExists ==
    ASSUME NEW area, NEW blocks
    PROVE  \A n \in Nat : \E f : InsertFold(f, area, blocks, n)
<1> DEFINE S == {n \in Nat : \E f : InsertFold(f, area, blocks, n)}
<1>1. 0 \in S
  <2>1. InsertFold([s \in SUBSET (1 .. 0) |-> area], area, blocks, 0)
    <3>1. SUBSET (1 .. 0) = {{}}
      OBVIOUS
    <3>2. QED
      BY <3>1 DEF InsertFold
  <2>2. QED
    BY <2>1
<1>2. ASSUME NEW n \in Nat, n \in S PROVE n + 1 \in S
  <2>1. PICK f : InsertFold(f, area, blocks, n)
    BY <1>2
  <2> DEFINE g == [s \in SUBSET (1 .. n + 1) |->
                      IF n + 1 \in s
                      THEN ra_mA_insert_block(f[s \ {n + 1}], blocks[n + 1], TRUE)
                      ELSE f[s]]
  <2>2. \A s \in SUBSET (1 .. n) : f[s] =
            IF s = {} THEN area
            ELSE ra_mA_insert_block(f[s \ {Max(s)}], blocks[Max(s)], TRUE)
    BY <2>1 DEF InsertFold
  <2>3. \A s \in SUBSET (1 .. n) : g[s] = f[s]
    <3>1. \A s \in SUBSET (1 .. n) : s \in SUBSET (1 .. n + 1) /\ n + 1 \notin s
      OBVIOUS
    <3>2. QED
      BY <3>1
  <2>4. ASSUME NEW s \in SUBSET (1 .. n + 1)
        PROVE  g[s] = IF s = {} THEN area
                      ELSE ra_mA_insert_block(g[s \ {Max(s)}], blocks[Max(s)], TRUE)
    <3>1. CASE n + 1 \in s
      BY <2>3, <3>1, MaxSplit
    <3>2. CASE n + 1 \notin s
      BY <2>2, <2>3, <3>2, MaxSplit
    <3>3. QED
      BY <3>1, <3>2
  <2>5. InsertFold(g, area, blocks, n + 1)
    BY <2>4 DEF InsertFold
  <2>6. QED
    BY <2>5
<1> HIDE DEF S
<1>3. Nat \subseteq S
  BY <1>1, <1>2, SetInduction
<1>4. QED
  BY <1>3 DEF S

(* The values after each item. *)
LEMMA InsertFoldSteps ==
    ASSUME NEW area, NEW blocks, NEW n \in Nat, NEW f, InsertFold(f, area, blocks, n)
    PROVE  \E h : Inserts(h, area, blocks, n) /\ f[1 .. n] = h[n]
<1> DEFINE h == [k \in 0 .. n |-> f[1 .. k]]
<1>1. \A s \in SUBSET (1 .. n) : f[s] =
          IF s = {} THEN area ELSE ra_mA_insert_block(f[s \ {Max(s)}], blocks[Max(s)], TRUE)
  BY DEF InsertFold
<1>2. h[0] = area
  <2>1. 1 .. 0 = {} /\ {} \in SUBSET (1 .. n) /\ 0 \in 0 .. n
    OBVIOUS
  <2>2. h[0] = f[{}]
    BY <2>1
  <2>3. QED
    BY <1>1, <2>1, <2>2
<1>3. ASSUME NEW k \in 1 .. n PROVE h[k] = ra_mA_insert_block(h[k - 1], blocks[k], TRUE)
  <2>1. k - 1 \in 0 .. n /\ k \in 0 .. n
    OBVIOUS
  <2>2. h[k] = f[1 .. k] /\ h[k - 1] = f[1 .. (k - 1)]
    BY <2>1
  <2>3. /\ 1 .. k \in SUBSET (1 .. n) /\ 1 .. k # {}
        /\ Max(1 .. k) = k /\ (1 .. k) \ {k} = 1 .. (k - 1)
    BY MaxPrefix
  <2>4. f[1 .. k] = ra_mA_insert_block(f[(1 .. k) \ {Max(1 .. k)}], blocks[Max(1 .. k)], TRUE)
    BY <1>1, <2>3
  <2>5. QED
    BY <2>2, <2>3, <2>4
<1>4. h[n] = f[1 .. n]
  OBVIOUS
<1>5. Inserts(h, area, blocks, n)
  BY <1>2, <1>3 DEF Inserts
<1> HIDE DEF h
<1>6. QED
  BY <1>4, <1>5

(* The concatenation of the items of c. *)
Joins(h, c, n) ==
    h[0] = <<>> /\ \A k \in 1 .. n : h[k] = h[k - 1] \o c[k]

JoinFold(f, c, n) ==
    f = [s \in SUBSET (1 .. n) |->
            IF s = {} THEN <<>> ELSE f[s \ {Max(s)}] \o c[Max(s)]]

(* The function of the recursion exists. *)
LEMMA JoinFoldExists ==
    ASSUME NEW c
    PROVE  \A n \in Nat : \E f : JoinFold(f, c, n)
<1> DEFINE S == {n \in Nat : \E f : JoinFold(f, c, n)}
<1>1. 0 \in S
  <2>1. JoinFold([s \in SUBSET (1 .. 0) |-> <<>>], c, 0)
    <3>1. SUBSET (1 .. 0) = {{}}
      OBVIOUS
    <3>2. QED
      BY <3>1 DEF JoinFold
  <2>2. QED
    BY <2>1
<1>2. ASSUME NEW n \in Nat, n \in S PROVE n + 1 \in S
  <2>1. PICK f : JoinFold(f, c, n)
    BY <1>2
  <2> DEFINE g == [s \in SUBSET (1 .. n + 1) |->
                      IF n + 1 \in s
                      THEN f[s \ {n + 1}] \o c[n + 1]
                      ELSE f[s]]
  <2>2. \A s \in SUBSET (1 .. n) : f[s] =
            IF s = {} THEN <<>>
            ELSE f[s \ {Max(s)}] \o c[Max(s)]
    BY <2>1 DEF JoinFold
  <2>3. \A s \in SUBSET (1 .. n) : g[s] = f[s]
    <3>1. \A s \in SUBSET (1 .. n) : s \in SUBSET (1 .. n + 1) /\ n + 1 \notin s
      OBVIOUS
    <3>2. QED
      BY <3>1
  <2>4. ASSUME NEW s \in SUBSET (1 .. n + 1)
        PROVE  g[s] = IF s = {} THEN <<>>
                      ELSE g[s \ {Max(s)}] \o c[Max(s)]
    <3>1. CASE n + 1 \in s
      BY <2>3, <3>1, MaxSplit
    <3>2. CASE n + 1 \notin s
      BY <2>2, <2>3, <3>2, MaxSplit
    <3>3. QED
      BY <3>1, <3>2
  <2>5. JoinFold(g, c, n + 1)
    BY <2>4 DEF JoinFold
  <2>6. QED
    BY <2>5
<1> HIDE DEF S
<1>3. Nat \subseteq S
  BY <1>1, <1>2, SetInduction
<1>4. QED
  BY <1>3 DEF S

(* The values after each item. *)
LEMMA JoinFoldSteps ==
    ASSUME NEW c, NEW n \in Nat, NEW f, JoinFold(f, c, n)
    PROVE  \E h : Joins(h, c, n) /\ f[1 .. n] = h[n]
<1> DEFINE h == [k \in 0 .. n |-> f[1 .. k]]
<1>1. \A s \in SUBSET (1 .. n) : f[s] =
          IF s = {} THEN <<>> ELSE f[s \ {Max(s)}] \o c[Max(s)]
  BY DEF JoinFold
<1>2. h[0] = <<>>
  <2>1. 1 .. 0 = {} /\ {} \in SUBSET (1 .. n) /\ 0 \in 0 .. n
    OBVIOUS
  <2>2. h[0] = f[{}]
    BY <2>1
  <2>3. QED
    BY <1>1, <2>1, <2>2
<1>3. ASSUME NEW k \in 1 .. n PROVE h[k] = h[k - 1] \o c[k]
  <2>1. k - 1 \in 0 .. n /\ k \in 0 .. n
    OBVIOUS
  <2>2. h[k] = f[1 .. k] /\ h[k - 1] = f[1 .. (k - 1)]
    BY <2>1
  <2>3. /\ 1 .. k \in SUBSET (1 .. n) /\ 1 .. k # {}
        /\ Max(1 .. k) = k /\ (1 .. k) \ {k} = 1 .. (k - 1)
    BY MaxPrefix
  <2>4. f[1 .. k] = f[(1 .. k) \ {Max(1 .. k)}] \o c[Max(1 .. k)]
    BY <1>1, <2>3
  <2>5. QED
    BY <2>2, <2>3, <2>4
<1>4. h[n] = f[1 .. n]
  OBVIOUS
<1>5. Joins(h, c, n)
  BY <1>2, <1>3 DEF Joins
<1> HIDE DEF h
<1>6. QED
  BY <1>4, <1>5

(* One pass of the loop in ParseAreas, and the passes. *)
ParseStep(s) ==
    IF s.table = Null \/ s.table = Undefined THEN s
    ELSE LET parsed == ra_mA_parse_ads_binary_info(s.pointer) IN
         IF parsed.area = Undefined THEN [s EXCEPT !.table = Undefined]
         ELSE LET a == ra_insert_memory_area(s.table, parsed.area, TRUE) IN
              [table   |-> IF a.result = "RA_SUCCESS" THEN a.table ELSE Null,
               pointer |-> parsed.pointer]

Parses(h, start, n) ==
    h[0] = start /\ \A k \in 1 .. n : h[k] = ParseStep(h[k - 1])

ParseFold(f, start, n) ==
    f = [s \in SUBSET (1 .. n) |->
            IF s = {} THEN start ELSE ParseStep(f[s \ {Max(s)}])]

(* The function of the recursion exists. *)
LEMMA ParseFoldExists ==
    ASSUME NEW start
    PROVE  \A n \in Nat : \E f : ParseFold(f, start, n)
<1> DEFINE S == {n \in Nat : \E f : ParseFold(f, start, n)}
<1>1. 0 \in S
  <2>1. ParseFold([s \in SUBSET (1 .. 0) |-> start], start, 0)
    <3>1. SUBSET (1 .. 0) = {{}}
      OBVIOUS
    <3>2. QED
      BY <3>1 DEF ParseFold
  <2>2. QED
    BY <2>1
<1>2. ASSUME NEW n \in Nat, n \in S PROVE n + 1 \in S
  <2>1. PICK f : ParseFold(f, start, n)
    BY <1>2
  <2> DEFINE g == [s \in SUBSET (1 .. n + 1) |->
                      IF n + 1 \in s
                      THEN ParseStep(f[s \ {n + 1}])
                      ELSE f[s]]
  <2>2. \A s \in SUBSET (1 .. n) : f[s] =
            IF s = {} THEN start
            ELSE ParseStep(f[s \ {Max(s)}])
    BY <2>1 DEF ParseFold
  <2>3. \A s \in SUBSET (1 .. n) : g[s] = f[s]
    <3>1. \A s \in SUBSET (1 .. n) : s \in SUBSET (1 .. n + 1) /\ n + 1 \notin s
      OBVIOUS
    <3>2. QED
      BY <3>1
  <2>4. ASSUME NEW s \in SUBSET (1 .. n + 1)
        PROVE  g[s] = IF s = {} THEN start
                      ELSE ParseStep(g[s \ {Max(s)}])
    <3>1. CASE n + 1 \in s
      BY <2>3, <3>1, MaxSplit
    <3>2. CASE n + 1 \notin s
      BY <2>2, <2>3, <3>2, MaxSplit
    <3>3. QED
      BY <3>1, <3>2
  <2>5. ParseFold(g, start, n + 1)
    BY <2>4 DEF ParseFold
  <2>6. QED
    BY <2>5
<1> HIDE DEF S
<1>3. Nat \subseteq S
  BY <1>1, <1>2, SetInduction
<1>4. QED
  BY <1>3 DEF S

(* The values after each item. *)
LEMMA ParseFoldSteps ==
    ASSUME NEW start, NEW n \in Nat, NEW f, ParseFold(f, start, n)
    PROVE  \E h : Parses(h, start, n) /\ f[1 .. n] = h[n]
<1> DEFINE h == [k \in 0 .. n |-> f[1 .. k]]
<1>1. \A s \in SUBSET (1 .. n) : f[s] =
          IF s = {} THEN start ELSE ParseStep(f[s \ {Max(s)}])
  BY DEF ParseFold
<1>2. h[0] = start
  <2>1. 1 .. 0 = {} /\ {} \in SUBSET (1 .. n) /\ 0 \in 0 .. n
    OBVIOUS
  <2>2. h[0] = f[{}]
    BY <2>1
  <2>3. QED
    BY <1>1, <2>1, <2>2
<1>3. ASSUME NEW k \in 1 .. n PROVE h[k] = ParseStep(h[k - 1])
  <2>1. k - 1 \in 0 .. n /\ k \in 0 .. n
    OBVIOUS
  <2>2. h[k] = f[1 .. k] /\ h[k - 1] = f[1 .. (k - 1)]
    BY <2>1
  <2>3. /\ 1 .. k \in SUBSET (1 .. n) /\ 1 .. k # {}
        /\ Max(1 .. k) = k /\ (1 .. k) \ {k} = 1 .. (k - 1)
    BY MaxPrefix
  <2>4. f[1 .. k] = ParseStep(f[(1 .. k) \ {Max(1 .. k)}])
    BY <1>1, <2>3
  <2>5. QED
    BY <2>2, <2>3, <2>4
<1>4. h[n] = f[1 .. n]
  OBVIOUS
<1>5. Parses(h, start, n)
  BY <1>2, <1>3 DEF Parses
<1> HIDE DEF h
<1>6. QED
  BY <1>4, <1>5

(* What ra_mA_insert_block makes of an area, block after block. *)
LEMMA InsertSteps ==
    ASSUME NEW area, NEW blocks, NEW n \in Nat, DOMAIN blocks = 1 .. n
    PROVE  \E h : /\ Inserts(h, area, blocks, n)
                  /\ FoldLeft(LAMBDA a, b : ra_mA_insert_block(a, b, TRUE), area, blocks) = h[n]
<1> DEFINE f == CHOOSE f : InsertFold(f, area, blocks, n)
<1>1. InsertFold(f, area, blocks, n)
  BY InsertFoldExists
<1>2. FoldLeft(LAMBDA a, b : ra_mA_insert_block(a, b, TRUE), area, blocks) = f[1 .. n]
  BY DEF FoldLeft, MapThenFoldSet, InsertFold
<1> HIDE DEF f
<1>3. PICK h : Inserts(h, area, blocks, n) /\ f[1 .. n] = h[n]
  BY <1>1, InsertFoldSteps
<1>4. QED
  BY <1>2, <1>3

(* The copies of the blocks, and what ra_mA_get_buffer makes of them. *)
Copies(memory, blocks, n) == [k \in 1 .. n |-> ra_mB_get_buffer(memory, blocks[k])]

CopyAll(memory, blocks) ==
    FoldLeft(LAMBDA buffer, b : buffer \o ra_mB_get_buffer(memory, b), <<>>, blocks)

(* The buffer of the bytes of an area, block after block. *)
LEMMA BufferSteps ==
    ASSUME NEW memory, NEW blocks, NEW n \in Nat, DOMAIN blocks = 1 .. n
    PROVE  \E h : Joins(h, Copies(memory, blocks, n), n) /\ CopyAll(memory, blocks) = h[n]
<1> DEFINE c == [k \in 1 .. n |-> ra_mB_get_buffer(memory, blocks[k])]
           Fold(f) == f = [s \in SUBSET (1 .. n) |->
                              IF s = {} THEN <<>>
                              ELSE f[s \ {Max(s)}] \o ra_mB_get_buffer(memory, blocks[Max(s)])]
           f == CHOOSE f : Fold(f)
<1>1. \A s \in SUBSET (1 .. n) :
          s # {} => c[Max(s)] = ra_mB_get_buffer(memory, blocks[Max(s)])
  <2>1. \A s \in SUBSET (1 .. n) : s # {} => Max(s) \in 1 .. n
    BY MaxOfSet
  <2>2. QED
    BY <2>1
<1>2. \A g : JoinFold(g, c, n) <=> Fold(g)
  <2> HIDE DEF c
  <2> QED
    BY <1>1 DEF JoinFold
<1>3. Fold(f)
  <2>1. \E g : JoinFold(g, c, n)
    BY JoinFoldExists
  <2>2. \E g : Fold(g)
    BY <1>2, <2>1
  <2> HIDE DEF Fold
  <2> QED
    BY <2>2
<1>4. CopyAll(memory, blocks) = f[1 .. n]
  BY DEF CopyAll, FoldLeft, MapThenFoldSet
<1> HIDE DEF c, f
<1>5. JoinFold(f, c, n)
  BY <1>2, <1>3
<1>6. PICK h : Joins(h, c, n) /\ f[1 .. n] = h[n]
  BY <1>5, JoinFoldSteps
<1>7. QED
  BY <1>4, <1>6 DEF c, Copies

(* The words of the blocks, and what ra_mA_dump_info_binary makes of them. *)
Dumps(blocks, n) == [k \in 1 .. n |-> ra_mB_dump_info(blocks[k])]

DumpAll(blocks) == FoldLeft(LAMBDA w, b : w \o ra_mB_dump_info(b), <<>>, blocks)

(* The words of the blocks of an area, block after block. *)
LEMMA DumpSteps ==
    ASSUME NEW blocks, NEW n \in Nat, DOMAIN blocks = 1 .. n
    PROVE  \E h : Joins(h, Dumps(blocks, n), n) /\ DumpAll(blocks) = h[n]
<1> DEFINE c == [k \in 1 .. n |-> ra_mB_dump_info(blocks[k])]
           Fold(f) == f = [s \in SUBSET (1 .. n) |->
                              IF s = {} THEN <<>>
                              ELSE f[s \ {Max(s)}] \o ra_mB_dump_info(blocks[Max(s)])]
           f == CHOOSE f : Fold(f)
<1>1. \A s \in SUBSET (1 .. n) :
          s # {} => c[Max(s)] = ra_mB_dump_info(blocks[Max(s)])
  <2>1. \A s \in SUBSET (1 .. n) : s # {} => Max(s) \in 1 .. n
    BY MaxOfSet
  <2>2. QED
    BY <2>1
<1>2. \A g : JoinFold(g, c, n) <=> Fold(g)
  <2> HIDE DEF c
  <2> QED
    BY <1>1 DEF JoinFold
<1>3. Fold(f)
  <2>1. \E g : JoinFold(g, c, n)
    BY JoinFoldExists
  <2>2. \E g : Fold(g)
    BY <1>2, <2>1
  <2> HIDE DEF Fold
  <2> QED
    BY <2>2
<1>4. DumpAll(blocks) = f[1 .. n]
  BY DEF DumpAll, FoldLeft, MapThenFoldSet
<1> HIDE DEF c, f
<1>5. JoinFold(f, c, n)
  BY <1>2, <1>3
<1>6. PICK h : Joins(h, c, n) /\ f[1 .. n] = h[n]
  BY <1>5, JoinFoldSteps
<1>7. QED
  BY <1>4, <1>6 DEF c, Dumps

(* The loop of ParseAreas, area after area. *)
LEMMA ParseSteps ==
    ASSUME NEW table, NEW words, NEW n \in Nat
    PROVE  \E h : /\ Parses(h, [table |-> table, pointer |-> words], n)
                  /\ ParseAreas(table, words, n) = h[n].table
<1> DEFINE start == [table |-> table, pointer |-> words]
           f == CHOOSE f : ParseFold(f, start, n)
<1>1. ParseFold(f, start, n)
  BY ParseFoldExists
<1>2. ParseAreas(table, words, n) = f[1 .. n].table
  BY DEF ParseAreas, FoldLeft, MapThenFoldSet, ParseFold, ParseStep
<1> HIDE DEF f, start
<1>3. PICK h : Parses(h, start, n) /\ f[1 .. n] = h[n]
  BY <1>1, ParseFoldSteps
<1>4. QED
  BY <1>2, <1>3 DEF start

-----------------------------------------------------------------------------
(* Joins *)

(* The joins of sequences are sequences. *)
LEMMA JoinType ==
    ASSUME NEW S, NEW n \in Nat, NEW c \in [1 .. n -> Seq(S)], NEW h, Joins(h, c, n)
    PROVE  \A k \in 0 .. n : h[k] \in Seq(S)
<1> DEFINE G == {m \in Nat : m <= n => h[m] \in Seq(S)}
<1>1. 0 \in G
  <2>1. h[0] = <<>> /\ <<>> \in Seq(S)
    BY DEF Joins
  <2>2. QED
    BY <2>1
<1>2. ASSUME NEW m \in Nat, m \in G PROVE m + 1 \in G
  <2>1. ASSUME m + 1 <= n PROVE h[m + 1] \in Seq(S)
    <3>1. m + 1 \in 1 .. n /\ (m + 1) - 1 = m /\ h[m] \in Seq(S)
      BY <1>2, <2>1
    <3>2. h[m + 1] = h[m] \o c[m + 1] /\ c[m + 1] \in Seq(S)
      BY <3>1 DEF Joins
    <3>3. QED
      BY <3>1, <3>2, ConcatProperties
  <2>2. QED
    BY <2>1
<1> HIDE DEF G
<1>3. Nat \subseteq G
  BY <1>1, <1>2, SetInduction
<1>4. QED
  BY <1>3 DEF G

(* Where the items of c are found in the join. *)
Placed(h, c, n, k) ==
    /\ Len(h[k]) = Len(h[k - 1]) + Len(c[k])
    /\ Len(h[k]) <= Len(h[n])
    /\ \A i \in 1 .. Len(c[k]) : h[n][Len(h[k - 1]) + i] = c[k][i]

(* Each piece is found in the join at its place. *)
LEMMA JoinPlaces ==
    ASSUME NEW S, NEW n \in Nat, NEW c \in [1 .. n -> Seq(S)], NEW h, Joins(h, c, n)
    PROVE  \A k \in 1 .. n : Placed(h, c, n, k)
<1> DEFINE Found(m, k) == /\ Len(h[k]) <= Len(h[m])
                          /\ \A i \in 1 .. Len(c[k]) : h[m][Len(h[k - 1]) + i] = c[k][i]
           G == {m \in Nat : m <= n => \A k \in 1 .. m : Found(m, k)}
<1>1. \A k \in 0 .. n : h[k] \in Seq(S) /\ Len(h[k]) \in Nat
  BY JoinType, LenProperties
<1>2. ASSUME NEW k \in 1 .. n
      PROVE  /\ c[k] \in Seq(S) /\ Len(c[k]) \in Nat
             /\ h[k - 1] \in Seq(S) /\ h[k] = h[k - 1] \o c[k]
             /\ Len(h[k - 1]) \in Nat
             /\ Len(h[k]) = Len(h[k - 1]) + Len(c[k])
             /\ \A i \in 1 .. Len(h[k]) : h[k][i] = IF i <= Len(h[k - 1]) THEN h[k - 1][i]
                                                   ELSE c[k][i - Len(h[k - 1])]
  <2>1. k - 1 \in 0 .. n /\ c[k] \in Seq(S)
    OBVIOUS
  <2>2. h[k - 1] \in Seq(S) /\ Len(h[k - 1]) \in Nat /\ Len(c[k]) \in Nat
    BY <1>1, <2>1, LenProperties
  <2>3. h[k] = h[k - 1] \o c[k]
    BY DEF Joins
  <2>4. QED
    BY <2>1, <2>2, <2>3, ConcatProperties
<1>3. 0 \in G
  OBVIOUS
<1>4. ASSUME NEW m \in Nat, m \in G PROVE m + 1 \in G
  <2>1. ASSUME m + 1 <= n, NEW k \in 1 .. m + 1 PROVE Found(m + 1, k)
    <3>1. m + 1 \in 1 .. n /\ (m + 1) - 1 = m /\ k \in 1 .. n /\ m \in 0 .. n
      BY <2>1
    <3>a. /\ Len(c[m + 1]) \in Nat /\ Len(h[m]) \in Nat
          /\ Len(h[m + 1]) = Len(h[m]) + Len(c[m + 1])
          /\ \A i \in 1 .. Len(h[m + 1]) : h[m + 1][i] = IF i <= Len(h[m]) THEN h[m][i]
                                                   ELSE c[m + 1][i - Len(h[m])]
      BY <1>2, <3>1
    <3>2. PICK a \in Nat, d \in Nat :
            /\ a = Len(h[m]) /\ d = Len(c[m + 1]) /\ Len(h[m + 1]) = a + d
            /\ \A i \in 1 .. a + d : h[m + 1][i] = IF i <= a THEN h[m][i]
                                                   ELSE c[m + 1][i - a]
      BY <3>a
    <3>3. CASE k = m + 1
      <4>1. ASSUME NEW i \in 1 .. d PROVE h[m + 1][a + i] = c[m + 1][i]
        <5>1. a + i \in 1 .. a + d /\ ~(a + i <= a) /\ (a + i) - a = i
          OBVIOUS
        <5>2. QED
          BY <3>2, <5>1
      <4>2. Len(h[m + 1]) <= Len(h[m + 1])
        BY <3>2
      <4>3. \A i \in 1 .. Len(c[k]) : h[m + 1][Len(h[k - 1]) + i] = c[k][i]
        BY <3>1, <3>2, <3>3, <4>1
      <4>4. QED
        BY <3>3, <4>2, <4>3
    <3>4. CASE k # m + 1
      <4>1. k \in 1 .. m /\ Found(m, k)
        BY <1>4, <2>1, <3>4
      <4>2. PICK b \in Nat, e \in Nat :
               b = Len(h[k - 1]) /\ e = Len(c[k]) /\ Len(h[k]) = b + e
        BY <1>2, <3>1
      <4>3. b + e <= a
        BY <3>2, <4>1, <4>2
      <4>4. ASSUME NEW i \in 1 .. e PROVE h[m + 1][b + i] = c[k][i]
        <5>1. b + i \in 1 .. a + d /\ b + i <= a
          BY <4>3
        <5>2. h[m + 1][b + i] = h[m][b + i]
          BY <3>2, <5>1
        <5>3. h[m][b + i] = c[k][i]
          BY <4>1, <4>2
        <5>4. QED
          BY <5>2, <5>3
      <4>5. Len(h[k]) <= Len(h[m + 1])
        <5>1. b + e <= a + d
          BY <4>3
        <5>2. QED
          BY <3>2, <4>2, <5>1
      <4>6. \A i \in 1 .. Len(c[k]) : h[m + 1][Len(h[k - 1]) + i] = c[k][i]
        BY <4>2, <4>4
      <4>7. QED
        BY <4>5, <4>6
    <3>5. QED
      BY <3>3, <3>4
  <2>2. QED
    BY <2>1
<1> HIDE DEF G
<1>5. Nat \subseteq G
  BY <1>3, <1>4, SetInduction
<1>6. \A k \in 1 .. n : Found(n, k)
  BY <1>5 DEF G
<1>7. ASSUME NEW k \in 1 .. n PROVE Placed(h, c, n, k)
  <2>1. Len(h[k]) = Len(h[k - 1]) + Len(c[k])
    BY <1>2
  <2>2. Found(n, k)
    BY <1>6
  <2>3. QED
    BY <2>1, <2>2 DEF Placed
<1>8. QED
  BY <1>7

(* What follows the first of two sequences. *)
LEMMA Behind ==
    ASSUME NEW S, NEW s \in Seq(S), NEW t \in Seq(S)
    PROVE  SubSeq(s \o t, Len(s) + 1, Len(s \o t)) = t
<1> DEFINE w == s \o t
<1>1. PICK a \in Nat, b \in Nat : a = Len(s) /\ b = Len(t)
  BY LenProperties
<1>2. /\ w \in Seq(S) /\ Len(w) = a + b
      /\ \A i \in 1 .. a + b : w[i] = IF i <= a THEN s[i] ELSE t[i - a]
  <2>1. /\ s \o t \in Seq(S) /\ Len(s \o t) = Len(s) + Len(t)
        /\ \A i \in 1 .. Len(s) + Len(t) :
              (s \o t)[i] = IF i <= Len(s) THEN s[i] ELSE t[i - Len(s)]
    BY ConcatProperties
  <2>2. QED
    BY <1>1, <2>1
<1> HIDE DEF w
<1> DEFINE u == SubSeq(w, a + 1, a + b)
<1>3. /\ u \in Seq(S) /\ Len(u) = b /\ \A i \in 1 .. b : u[i] = w[a + i]
  BY <1>2
<1> HIDE DEF u
<1>4. ASSUME NEW i \in 1 .. b PROVE u[i] = t[i]
  <2>1. a + i \in 1 .. a + b /\ ~(a + i <= a) /\ (a + i) - a = i
    OBVIOUS
  <2>2. QED
    BY <1>2, <1>3, <2>1
<1>5. u = t
  BY <1>1, <1>3, <1>4, SeqEqual
<1>6. QED
  BY <1>1, <1>2, <1>5 DEF u, w

(* What is left of a join behind each item: r[k] is behind the k-th. *)
Leaves(r, c, all, n) ==
    /\ r[0] = all /\ r[n] = <<>>
    /\ \A k \in 1 .. n : r[k - 1] = c[k] \o r[k]

(* A join can be taken apart piece by piece from its head. *)
LEMMA JoinLeaves ==
    ASSUME NEW S, NEW n \in Nat, NEW c \in [1 .. n -> Seq(S)], NEW h, Joins(h, c, n)
    PROVE  \E r \in [0 .. n -> Seq(S)] : Leaves(r, c, h[n], n)
<1> DEFINE G == {m \in Nat : m <= n => \E r \in [0 .. m -> Seq(S)] : Leaves(r, c, h[m], m)}
<1>1. 0 \in G
  <2> DEFINE r == [k \in 0 .. 0 |-> <<>>]
  <2>1. r \in [0 .. 0 -> Seq(S)] /\ r[0] = <<>>
    OBVIOUS
  <2>2. Leaves(r, c, h[0], 0)
    BY <2>1 DEF Leaves, Joins
  <2> HIDE DEF r
  <2>3. QED
    BY <2>1, <2>2
<1>2. ASSUME NEW m \in Nat, m \in G PROVE m + 1 \in G
  <2> SUFFICES ASSUME m + 1 <= n
               PROVE  \E r \in [0 .. m + 1 -> Seq(S)] : Leaves(r, c, h[m + 1], m + 1)
    OBVIOUS
  <2>1. PICK p \in [0 .. m -> Seq(S)] : Leaves(p, c, h[m], m)
    BY <1>2
  <2>2. m + 1 \in 1 .. n /\ (m + 1) - 1 = m
    OBVIOUS
  <2>3. c[m + 1] \in Seq(S) /\ h[m + 1] = h[m] \o c[m + 1]
    BY <2>2 DEF Joins
  <2> DEFINE r == [k \in 0 .. m + 1 |-> IF k = m + 1 THEN <<>> ELSE p[k] \o c[m + 1]]
  <2>4. \A k \in 0 .. m : p[k] \in Seq(S) /\ p[k] \o c[m + 1] \in Seq(S)
    BY <2>3, ConcatProperties
  <2>5. r \in [0 .. m + 1 -> Seq(S)]
    <3>1. \A k \in 0 .. m + 1 : (IF k = m + 1 THEN <<>> ELSE p[k] \o c[m + 1]) \in Seq(S)
      BY <2>4
    <3>2. QED
      BY <3>1
  <2>6. r[0] = h[m + 1] /\ r[m + 1] = <<>>
    <3>1. 0 \in 0 .. m + 1 /\ 0 # m + 1 /\ m + 1 \in 0 .. m + 1
      OBVIOUS
    <3>2. r[0] = p[0] \o c[m + 1] /\ r[m + 1] = <<>>
      BY <3>1
    <3>3. QED
      BY <2>1, <2>3, <3>2 DEF Leaves
  <2>7. ASSUME NEW k \in 1 .. m + 1 PROVE r[k - 1] = c[k] \o r[k]
    <3>1. CASE k = m + 1
      <4>1. r[m] = p[m] \o c[m + 1] /\ p[m] = <<>> /\ r[m + 1] = <<>>
        BY <2>1 DEF Leaves
      <4>2. QED
        BY <2>2, <2>3, <3>1, <4>1, ConcatEmptySeq
    <3>2. CASE k # m + 1
      <4>1. /\ k \in 1 .. m /\ k \in 0 .. m /\ k - 1 \in 0 .. m /\ k \in 1 .. n
            /\ k - 1 \in 0 .. m + 1 /\ k - 1 # m + 1 /\ k \in 0 .. m + 1
        BY <3>2
      <4>2. c[k] \in Seq(S) /\ p[k] \in Seq(S) /\ p[k - 1] = c[k] \o p[k]
        BY <2>1, <4>1 DEF Leaves
      <4>3. r[k - 1] = p[k - 1] \o c[m + 1]
        BY <4>1
      <4>4. r[k] = p[k] \o c[m + 1]
        BY <3>2, <4>1
      <4>5. (c[k] \o p[k]) \o c[m + 1] = c[k] \o (p[k] \o c[m + 1])
        <5> HIDE DEF r
        <5>1. c[k] \in Seq(S) /\ p[k] \in Seq(S) /\ c[m + 1] \in Seq(S)
          BY <2>3, <4>2
        <5>2. \A s, t, u \in Seq(S) : (s \o t) \o u = s \o (t \o u)
          BY ONLY SMT
        <5> QED
          BY ONLY <5>1, <5>2
      <4>6. QED
        BY <4>2, <4>3, <4>4, <4>5
    <3>3. QED
      BY <3>1, <3>2
  <2> HIDE DEF r
  <2>8. Leaves(r, c, h[m + 1], m + 1)
    BY <2>6, <2>7 DEF Leaves
  <2>9. QED
    BY <2>5, <2>8
<1> HIDE DEF G
<1>3. Nat \subseteq G
  BY <1>1, <1>2, SetInduction
<1>4. QED
  BY <1>3 DEF G

-----------------------------------------------------------------------------
(* The bytes before a block *)

AnyBlock == memory_block_t(Nat, Nat)

(* The sizes of the first n blocks, summed up. *)
SumsUp(g, blocks, n) ==
    g[0] = 0 /\ \A k \in 1 .. n : g[k] = g[k - 1] + blocks[k].size

SumFold(f, blocks, n) ==
    f = [j \in 0 .. n |-> IF j = 0 THEN 0 ELSE f[j - 1] + blocks[j].size]

(* The recursion of LowerBound has a value. *)
LEMMA SumsExist ==
    ASSUME NEW blocks
    PROVE  \A n \in Nat : \E f : SumFold(f, blocks, n)
<1> DEFINE G == {n \in Nat : \E f : SumFold(f, blocks, n)}
<1>1. 0 \in G
  <2> DEFINE f == [j \in 0 .. 0 |-> 0]
  <2>1. SumFold(f, blocks, 0)
    BY DEF SumFold
  <2>2. QED
    BY <2>1
<1>2. ASSUME NEW n \in Nat, n \in G PROVE n + 1 \in G
  <2>1. PICK f : SumFold(f, blocks, n)
    BY <1>2
  <2> DEFINE g == [j \in 0 .. n + 1 |-> IF j = n + 1 THEN f[n] + blocks[n + 1].size ELSE f[j]]
  <2>2. \A j \in 0 .. n : f[j] = IF j = 0 THEN 0 ELSE f[j - 1] + blocks[j].size
    BY <2>1 DEF SumFold
  <2>3. \A j \in 0 .. n : g[j] = f[j]
    OBVIOUS
  <2>4. ASSUME NEW j \in 0 .. n + 1
        PROVE  g[j] = IF j = 0 THEN 0 ELSE g[j - 1] + blocks[j].size
    <3>1. CASE j = n + 1
      <4>1. (n + 1) - 1 = n /\ n \in 0 .. n /\ n + 1 # 0 /\ n + 1 \in 0 .. n + 1
        OBVIOUS
      <4>2. g[n + 1] = f[n] + blocks[n + 1].size /\ g[n] = f[n]
        BY <2>3, <4>1
      <4>3. QED
        BY <3>1, <4>1, <4>2
    <3>2. CASE j # n + 1
      <4>1. j \in 0 .. n /\ (j # 0 => j - 1 \in 0 .. n)
        BY <3>2
      <4> HIDE DEF g
      <4>2. QED
        BY <2>2, <2>3, <4>1
    <3>3. QED
      BY <3>1, <3>2
  <2>5. g = [j \in 0 .. n + 1 |-> g[j]]
    OBVIOUS
  <2> HIDE DEF g
  <2>6. SumFold(g, blocks, n + 1)
    BY <2>4, <2>5 DEF SumFold
  <2>7. QED
    BY <2>6
<1> HIDE DEF G
<1>3. Nat \subseteq G
  BY <1>1, <1>2, SetInduction
<1>4. QED
  BY <1>3 DEF G

(* Two such sums agree as far as both go. *)
LEMMA SumsAgree ==
    ASSUME NEW m \in Nat, NEW f, NEW a, SumsUp(f, a, m), NEW g, NEW b, SumsUp(g, b, m),
           \A k \in 1 .. m : a[k].size = b[k].size
    PROVE  f[m] = g[m]
<1> DEFINE G == {k \in Nat : k <= m => f[k] = g[k]}
<1>1. 0 \in G
  BY DEF SumsUp
<1>2. ASSUME NEW k \in Nat, k \in G PROVE k + 1 \in G
  <2>1. ASSUME k + 1 <= m PROVE f[k + 1] = g[k + 1]
    <3>1. k + 1 \in 1 .. m /\ (k + 1) - 1 = k /\ f[k] = g[k]
      BY <1>2, <2>1
    <3>2. f[k + 1] = f[k] + a[k + 1].size /\ g[k + 1] = g[k] + b[k + 1].size
      BY <3>1 DEF SumsUp
    <3>3. QED
      BY <3>1, <3>2
  <2>2. QED
    BY <2>1
<1> HIDE DEF G
<1>3. Nat \subseteq G
  BY <1>1, <1>2, SetInduction
<1>4. QED
  BY <1>3 DEF G

(* LowerBound is the value of any such sum. *)
LEMMA LowerBoundIsSum ==
    ASSUME NEW blocks, NEW m \in Nat
    PROVE  \E f : SumsUp(f, blocks, m) /\ LowerBound(blocks, m + 1) = f[m]
<1> DEFINE f == CHOOSE f : SumFold(f, blocks, m)
<1>1. SumFold(f, blocks, m)
  BY SumsExist
<1>2. (m + 1) - 1 = m
  OBVIOUS
<1>3. LowerBound(blocks, m + 1) = f[m]
  BY <1>2 DEF LowerBound, SumFold
<1> HIDE DEF f
<1>4. \A j \in 0 .. m : f[j] = IF j = 0 THEN 0 ELSE f[j - 1] + blocks[j].size
  BY <1>1 DEF SumFold
<1>5. SumsUp(f, blocks, m)
  BY <1>4 DEF SumsUp
<1>6. QED
  BY <1>3, <1>5

(* The number of bytes before the first block and before the next one. *)
LEMMA LowerBoundSteps ==
    ASSUME NEW blocks
    PROVE  /\ LowerBound(blocks, 1) = 0
           /\ \A k \in Nat \ {0} :
                 LowerBound(blocks, k + 1) = LowerBound(blocks, k) + blocks[k].size
<1>1. LowerBound(blocks, 1) = 0
  <2>1. PICK f : SumsUp(f, blocks, 0) /\ LowerBound(blocks, 0 + 1) = f[0]
    BY LowerBoundIsSum
  <2>2. QED
    BY <2>1 DEF SumsUp
<1>2. ASSUME NEW k \in Nat \ {0}
      PROVE  LowerBound(blocks, k + 1) = LowerBound(blocks, k) + blocks[k].size
  <2>1. PICK f : SumsUp(f, blocks, k) /\ LowerBound(blocks, k + 1) = f[k]
    BY LowerBoundIsSum
  <2>2. PICK m \in Nat : k = m + 1
    <3>1. k - 1 \in Nat /\ k = (k - 1) + 1
      OBVIOUS
    <3>2. QED
      BY <3>1
  <2>3. PICK g : SumsUp(g, blocks, m) /\ LowerBound(blocks, m + 1) = g[m]
    BY LowerBoundIsSum
  <2>4. SumsUp(f, blocks, m)
    BY <2>1, <2>2 DEF SumsUp
  <2>5. f[m] = g[m]
    BY <2>3, <2>4, SumsAgree
  <2>6. f[k] = f[m] + blocks[k].size
    BY <2>1, <2>2 DEF SumsUp
  <2>7. QED
    BY <2>1, <2>2, <2>3, <2>5, <2>6
<1>3. QED
  BY <1>1, <1>2

(* It depends on the blocks before only. *)
LEMMA LowerBoundSame ==
    ASSUME NEW a, NEW b, NEW k \in Nat \ {0}, \A j \in 1 .. k - 1 : a[j] = b[j]
    PROVE  LowerBound(a, k) = LowerBound(b, k)
<1>1. PICK m \in Nat : k = m + 1
  <2>1. k - 1 \in Nat /\ k = (k - 1) + 1
    OBVIOUS
  <2>2. QED
    BY <2>1
<1>2. PICK f : SumsUp(f, a, m) /\ LowerBound(a, m + 1) = f[m]
  BY LowerBoundIsSum
<1>3. PICK g : SumsUp(g, b, m) /\ LowerBound(b, m + 1) = g[m]
  BY LowerBoundIsSum
<1>4. \A j \in 1 .. m : a[j].size = b[j].size
  BY <1>1
<1>5. f[m] = g[m]
  BY <1>2, <1>3, <1>4, SumsAgree
<1>6. QED
  BY <1>1, <1>2, <1>3, <1>5

(* It is a number, and grows from block to block. *)
LEMMA LowerBoundGrows ==
    ASSUME NEW n \in Nat, NEW blocks, \A k \in 1 .. n : blocks[k].size \in Nat
    PROVE  /\ \A k \in 1 .. n + 1 : LowerBound(blocks, k) \in Nat
           /\ \A j, k \in 1 .. n + 1 : j <= k => LowerBound(blocks, j) <= LowerBound(blocks, k)
<1> DEFINE L(k) == LowerBound(blocks, k)
           G == {k \in Nat : k <= n => /\ L(k + 1) \in Nat
                                       /\ \A j \in 1 .. k + 1 : L(j) \in Nat /\ L(j) <= L(k + 1)}
<1>1. L(1) = 0 /\ \A k \in 1 .. n : L(k + 1) = L(k) + blocks[k].size
  BY LowerBoundSteps
<1> HIDE DEF L
<1>2. 0 \in G
  BY <1>1
<1>3. ASSUME NEW k \in Nat, k \in G PROVE k + 1 \in G
  <2>1. ASSUME k + 1 <= n
        PROVE  /\ L(k + 2) \in Nat
               /\ \A j \in 1 .. k + 2 : L(j) \in Nat /\ L(j) <= L(k + 2)
    <3>1. /\ L(k + 1) \in Nat
          /\ \A j \in 1 .. k + 1 : L(j) \in Nat /\ L(j) <= L(k + 1)
      BY <1>3, <2>1
    <3>2. k + 1 \in 1 .. n /\ (k + 1) + 1 = k + 2
      BY <2>1
    <3>3. L(k + 2) = L(k + 1) + blocks[k + 1].size /\ blocks[k + 1].size \in Nat
      BY <1>1, <3>2
    <3>4. L(k + 2) \in Nat /\ L(k + 1) <= L(k + 2)
      BY <3>1, <3>3
    <3>5. ASSUME NEW j \in 1 .. k + 2 PROVE L(j) \in Nat /\ L(j) <= L(k + 2)
      <4>1. CASE j = k + 2
        BY <3>4, <4>1
      <4>2. CASE j # k + 2
        <5>1. j \in 1 .. k + 1
          BY <4>2
        <5>2. L(j) \in Nat /\ L(j) <= L(k + 1)
          BY <3>1, <5>1
        <5>3. QED
          BY <3>1, <3>4, <5>2
      <4>3. QED
        BY <4>1, <4>2
    <3>6. QED
      BY <3>4, <3>5
  <2>2. (k + 1) + 1 = k + 2
    OBVIOUS
  <2>3. QED
    BY <2>1, <2>2
<1> HIDE DEF G
<1>4. Nat \subseteq G
  BY <1>2, <1>3, SetInduction
<1>5. ASSUME NEW k \in 1 .. n + 1
      PROVE  L(k) \in Nat /\ \A j \in 1 .. n + 1 : j <= k => L(j) <= L(k)
  <2>1. PICK m \in Nat : k = m + 1
    <3>1. k - 1 \in Nat /\ k = (k - 1) + 1
      OBVIOUS
    <3>2. QED
      BY <3>1
  <2>2. m \in G
    BY <1>4
  <2>3. QED
    BY <2>1, <2>2 DEF G
<1>6. QED
  BY <1>5 DEF L

-----------------------------------------------------------------------------
(* Areas filled by insertions *)

BytesOf(blocks) == LowerBound(blocks, Len(blocks) + 1)

(* The area that the insertion of the blocks, one after another, yields. *)
Filled(label, blocks) ==
    [label |-> label, blocks |-> blocks,
     total_blocks |-> Len(blocks), total_size |-> BytesOf(blocks),
     head |-> IF blocks = <<>> THEN "null" ELSE "live",
     tail |-> IF blocks = <<>> THEN "null" ELSE "live"]

(* Its size is a number, and grows by that of a new block. *)
LEMMA BytesOfAppend ==
    ASSUME NEW B, NEW blocks \in Seq(B), \A b \in B : b.size \in Nat, NEW block \in B
    PROVE  /\ BytesOf(<<>>) = 0
           /\ BytesOf(blocks) \in Nat
           /\ BytesOf(Append(blocks, block)) = BytesOf(blocks) + block.size
<1>1. PICK n \in Nat : n = Len(blocks)
  BY LenProperties
<1> DEFINE longer == Append(blocks, block)
<1>2. /\ Len(longer) = n + 1 /\ longer[n + 1] = block
      /\ \A j \in 1 .. n : longer[j] = blocks[j] /\ blocks[j] \in B
  BY <1>1
<1> HIDE DEF longer
<1>3. LowerBound(longer, n + 1) = LowerBound(blocks, n + 1)
  <2>1. n + 1 \in Nat \ {0} /\ \A j \in 1 .. (n + 1) - 1 : longer[j] = blocks[j]
    BY <1>2
  <2>2. QED
    BY <2>1, LowerBoundSame
<1>4. LowerBound(longer, (n + 1) + 1) = LowerBound(longer, n + 1) + block.size
  <2>1. n + 1 \in Nat \ {0}
    OBVIOUS
  <2>2. QED
    BY <1>2, <2>1, LowerBoundSteps
<1>5. LowerBound(blocks, n + 1) \in Nat
  <2>1. \A j \in 1 .. n : blocks[j].size \in Nat
    BY <1>2
  <2>2. n + 1 \in 1 .. n + 1
    OBVIOUS
  <2>3. QED
    BY <2>1, <2>2, LowerBoundGrows
<1>6. BytesOf(<<>>) = 0
  <2>1. Len(<<>>) + 1 = 1
    OBVIOUS
  <2>2. QED
    BY <2>1, LowerBoundSteps DEF BytesOf
<1>7. QED
  BY <1>1, <1>2, <1>3, <1>4, <1>5, <1>6 DEF BytesOf, longer

(* One more block is inserted. *)
LEMMA InsertFilled ==
    ASSUME NEW label, NEW B, NEW blocks \in Seq(B), \A b \in B : b.size \in Nat, NEW block \in B
    PROVE  ra_mA_insert_block(Filled(label, blocks), block, TRUE)
             = Filled(label, Append(blocks, block))
<1>1. BytesOf(Append(blocks, block)) = BytesOf(blocks) + block.size
  BY BytesOfAppend
<1>2. Len(Append(blocks, block)) = Len(blocks) + 1 /\ Append(blocks, block) # <<>>
  BY AppendProperties
<1>3. CASE blocks = <<>>
  BY <1>1, <1>2, <1>3 DEF ra_mA_insert_block, Filled
<1>4. CASE blocks # <<>>
  BY <1>1, <1>2, <1>4 DEF ra_mA_insert_block, Filled
<1>5. QED
  BY <1>3, <1>4

(* A new area is filled with no blocks. *)
LEMMA CreatedFilled ==
    ASSUME NEW label
    PROVE  ra_mA_create(label) = Filled(label, <<>>)
<1>1. BytesOf(<<>>) = 0 /\ Len(<<>>) = 0
  <2>1. Len(<<>>) + 1 = 1
    OBVIOUS
  <2>2. QED
    BY <2>1, LowerBoundSteps DEF BytesOf
<1>2. QED
  BY <1>1 DEF ra_mA_create, Filled

(* A prefix that is longer by one. *)
LEMMA LongerPrefix ==
    ASSUME NEW B, NEW s \in Seq(B), NEW k \in Nat, k + 1 <= Len(s)
    PROVE  /\ SubSeq(s, 1, k) \in Seq(B) /\ s[k + 1] \in B
           /\ Append(SubSeq(s, 1, k), s[k + 1]) = SubSeq(s, 1, k + 1)
<1>1. PICK n \in Nat : n = Len(s)
  BY LenProperties
<1>2. /\ SubSeq(s, 1, k) \in Seq(B) /\ Len(SubSeq(s, 1, k)) = k
      /\ SubSeq(s, 1, k + 1) \in Seq(B) /\ Len(SubSeq(s, 1, k + 1)) = k + 1
      /\ \A i \in 1 .. k : SubSeq(s, 1, k)[i] = s[i]
      /\ \A i \in 1 .. k + 1 : SubSeq(s, 1, k + 1)[i] = s[i]
  BY <1>1
<1>3. s[k + 1] \in B
  BY <1>1
<1> DEFINE p == SubSeq(s, 1, k)
           q == SubSeq(s, 1, k + 1)
<1> HIDE DEF p, q
<1>4. p \in Seq(B) /\ Len(p) = k /\ q \in Seq(B) /\ Len(q) = k + 1
      /\ (\A i \in 1 .. k : p[i] = s[i]) /\ \A i \in 1 .. k + 1 : q[i] = s[i]
  BY <1>2 DEF p, q
<1>5. /\ Append(p, s[k + 1]) \in Seq(B) /\ Len(Append(p, s[k + 1])) = k + 1
      /\ \A i \in 1 .. k + 1 : Append(p, s[k + 1])[i] = IF i <= k THEN p[i] ELSE s[k + 1]
  BY <1>3, <1>4
<1>6. \A i \in 1 .. k + 1 : Append(p, s[k + 1])[i] = q[i]
  BY <1>4, <1>5
<1>7. Append(p, s[k + 1]) = q
  BY <1>4, <1>5, <1>6, SeqEqual
<1>8. QED
  BY <1>2, <1>3, <1>7 DEF p, q

(* All blocks are inserted. *)
LEMMA AllInserted ==
    ASSUME NEW label, NEW B, NEW blocks \in Seq(B), \A b \in B : b.size \in Nat
    PROVE  FoldLeft(LAMBDA area, b : ra_mA_insert_block(area, b, TRUE),
                    ra_mA_create(label), blocks) = Filled(label, blocks)
<1>1. PICK n \in Nat : n = Len(blocks) /\ DOMAIN blocks = 1 .. n
  BY LenProperties
<1>2. PICK h : /\ Inserts(h, ra_mA_create(label), blocks, n)
               /\ FoldLeft(LAMBDA area, b : ra_mA_insert_block(area, b, TRUE),
                           ra_mA_create(label), blocks) = h[n]
  BY <1>1, InsertSteps
<1> DEFINE G == {k \in Nat : k <= n => h[k] = Filled(label, SubSeq(blocks, 1, k))}
<1>3. 0 \in G
  <2>1. SubSeq(blocks, 1, 0) = <<>>
    BY <1>1
  <2>2. h[0] = ra_mA_create(label)
    BY <1>2 DEF Inserts
  <2>3. QED
    BY <2>1, <2>2, CreatedFilled
<1>4. ASSUME NEW k \in Nat, k \in G PROVE k + 1 \in G
  <2>1. ASSUME k + 1 <= n PROVE h[k + 1] = Filled(label, SubSeq(blocks, 1, k + 1))
    <3>1. k + 1 \in 1 .. n /\ (k + 1) - 1 = k /\ h[k] = Filled(label, SubSeq(blocks, 1, k))
      BY <1>4, <2>1
    <3>2. h[k + 1] = ra_mA_insert_block(h[k], blocks[k + 1], TRUE)
      BY <1>2, <3>1 DEF Inserts
    <3>3. /\ SubSeq(blocks, 1, k) \in Seq(B) /\ blocks[k + 1] \in B
          /\ Append(SubSeq(blocks, 1, k), blocks[k + 1]) = SubSeq(blocks, 1, k + 1)
      BY <1>1, <2>1, LongerPrefix
    <3>4. ra_mA_insert_block(Filled(label, SubSeq(blocks, 1, k)), blocks[k + 1], TRUE)
            = Filled(label, Append(SubSeq(blocks, 1, k), blocks[k + 1]))
      BY <3>3, InsertFilled
    <3>5. QED
      BY <3>1, <3>2, <3>3, <3>4
  <2>2. QED
    BY <2>1
<1> HIDE DEF G
<1>5. Nat \subseteq G
  BY <1>3, <1>4, SetInduction
<1>6. h[n] = Filled(label, SubSeq(blocks, 1, n))
  BY <1>5 DEF G
<1>7. SubSeq(blocks, 1, n) = blocks
  BY <1>1, SubSeqFull
<1>8. QED
  BY <1>2, <1>6, <1>7

-----------------------------------------------------------------------------
(* Texts of areas *)

(* The words of a block, and what is read from them. *)
LEMMA BlockWordsRead ==
    ASSUME NEW block \in AnyBlock
    PROVE  /\ ra_mB_dump_info(block) \in Seq(Nat) /\ Len(ra_mB_dump_info(block)) = 6
           /\ \A w : (\A i \in 1 .. 6 : w[i] = ra_mB_dump_info(block)[i])
                       => ra_mB_parse_info(w) = block
<1>1. PICK o \in Nat, z \in Nat : block = [offset |-> o, size |-> z]
  BY DEF AnyBlock, memory_block_t
<1>2. Word \in Nat \ {0}
  BY DEF Word
<1>3. /\ o % Word \in Nat /\ o \div Word \in Nat
      /\ z % Word \in Nat /\ z \div Word \in Nat
  BY DEF Word
<1>4. /\ (o % Word) + Word * (o \div Word) = o
      /\ (z % Word) + Word * (z \div Word) = z
  BY <1>2, <1>3, DivMod DEF Word
<1> DEFINE d == <<o % Word, o \div Word, 0, 0, z % Word, z \div Word>>
<1>5. ra_mB_dump_info(block) = d
  BY <1>1 DEF ra_mB_dump_info
<1>6. d \in Seq(Nat) /\ Len(d) = 6
  BY <1>3
<1>7. ASSUME NEW w, \A i \in 1 .. 6 : w[i] = d[i]
      PROVE  ra_mB_parse_info(w) = block
  <2>1. w[1] = o % Word /\ w[2] = o \div Word /\ w[5] = z % Word /\ w[6] = z \div Word
    BY <1>7
  <2>2. QED
    BY <1>1, <1>4, <2>1 DEF ra_mB_parse_info
<1>8. QED
  BY <1>5, <1>6, <1>7

(* The words of blocks: six for each. *)
LEMMA SixWords ==
    ASSUME NEW n \in Nat, NEW c \in [1 .. n -> Seq(Nat)], \A k \in 1 .. n : Len(c[k]) = 6,
           NEW h, Joins(h, c, n)
    PROVE  \A k \in 0 .. n : Len(h[k]) = 6 * k
<1> DEFINE G == {k \in Nat : k <= n => Len(h[k]) = 6 * k}
<1>1. \A k \in 1 .. n : Len(h[k]) = Len(h[k - 1]) + Len(c[k])
  <2>1. \A k \in 1 .. n : Placed(h, c, n, k)
    BY JoinPlaces
  <2>2. QED
    BY <2>1 DEF Placed
<1>2. 0 \in G
  BY DEF Joins
<1>3. ASSUME NEW k \in Nat, k \in G PROVE k + 1 \in G
  <2>1. ASSUME k + 1 <= n PROVE Len(h[k + 1]) = 6 * (k + 1)
    <3>1. k + 1 \in 1 .. n /\ (k + 1) - 1 = k /\ Len(h[k]) = 6 * k
      BY <1>3, <2>1
    <3>2. Len(h[k + 1]) = Len(h[k]) + 6
      BY <1>1, <3>1
    <3>3. QED
      BY <3>1, <3>2
  <2>2. QED
    BY <2>1
<1> HIDE DEF G
<1>4. Nat \subseteq G
  BY <1>2, <1>3, SetInduction
<1>5. QED
  BY <1>4 DEF G

(* Words that start with label, number of blocks and blocks. *)
Describes(text, label, blocks) ==
    \E lo, hi \in Nat : \E h :
        /\ lo + Word * hi = Len(blocks)
        /\ Joins(h, [k \in 1 .. Len(blocks) |-> ra_mB_dump_info(blocks[k])], Len(blocks))
        /\ text = <<label, lo, hi>> \o h[Len(blocks)]

(* Such words are read back, and the pointer moves on to what follows. *)
LEMMA ReadBack ==
    ASSUME NEW label \in Nat, NEW blocks \in Seq(AnyBlock), NEW text,
           Describes(text, label, blocks), NEW rest \in Seq(Nat)
    PROVE  /\ text \in Seq(Nat)
           /\ ra_mA_parse_ads_binary_info(text \o rest)
                = [area |-> Filled(label, blocks), pointer |-> rest]
           /\ ra_mA_parse_ads_text_info(text) = Filled(label, blocks)
<1>1. PICK n \in Nat : n = Len(blocks) /\ DOMAIN blocks = 1 .. n
  BY LenProperties
<1> DEFINE c == [k \in 1 .. n |-> ra_mB_dump_info(blocks[k])]
<1>2. \A k \in 1 .. n : blocks[k] \in AnyBlock
  BY <1>1
<1>3. c \in [1 .. n -> Seq(Nat)] /\ \A k \in 1 .. n : Len(c[k]) = 6
  <2>1. \A k \in 1 .. n : ra_mB_dump_info(blocks[k]) \in Seq(Nat)
                          /\ Len(ra_mB_dump_info(blocks[k])) = 6
    BY <1>2, BlockWordsRead
  <2>2. QED
    BY <2>1
<1>4. PICK lo, hi, h :
         /\ lo \in Nat /\ hi \in Nat
         /\ lo + Word * hi = n
         /\ Joins(h, c, n)
         /\ text = <<label, lo, hi>> \o h[n]
  BY <1>1 DEF Describes
<1>5. \A k \in 1 .. n : c[k] = ra_mB_dump_info(blocks[k])
  OBVIOUS
<1> HIDE DEF c
<1>6. PICK body \in Seq(Nat) : body = h[n] /\ Len(body) = 6 * n
  <2>1. n \in 0 .. n
    OBVIOUS
  <2>2. h[n] \in Seq(Nat)
    BY <1>3, <1>4, <2>1, JoinType
  <2>3. Len(h[n]) = 6 * n
    BY <1>3, <1>4, <2>1, SixWords
  <2>4. QED
    BY <2>2, <2>3
<1>7. ASSUME NEW k \in 1 .. n, NEW i \in 1 .. 6
      PROVE  body[6 * (k - 1) + i] = c[k][i]
  <2>1. k - 1 \in 0 .. n
    OBVIOUS
  <2>2. Len(h[k - 1]) = 6 * (k - 1)
    <3>1. Joins(h, c, n)
      BY <1>4
    <3>2. QED
      BY <1>3, <2>1, <3>1, SixWords
  <2>3. \A j \in 1 .. Len(c[k]) : h[n][Len(h[k - 1]) + j] = c[k][j]
    <3>1. Placed(h, c, n, k)
      BY <1>3, <1>4, JoinPlaces
    <3>2. QED
      BY <3>1 DEF Placed
  <2>4. QED
    BY <1>3, <1>6, <2>2, <2>3
<1> DEFINE Starts(words) ==
        /\ words \in Seq(Nat) /\ Len(words) >= 3 + 6 * n
        /\ words[1] = label /\ words[2] = lo /\ words[3] = hi
        /\ \A j \in 1 .. 6 * n : words[3 + j] = body[j]
<1>8. ASSUME NEW words, Starts(words)
      PROVE  AreaWords(words) = 3 + 6 * n /\ AreaRead(words) = Filled(label, blocks)
  <2>1. BlocksDeclared(words) = n
    BY <1>4, <1>8 DEF BlocksDeclared
  <2>2. AreaWords(words) = 3 + 6 * n
    BY <2>1 DEF AreaWords, AreaHeaderWords, BlockWords
  <2> DEFINE w(k) == SubSeq(words, AreaHeaderWords + BlockWords * (k - 1) + 1,
                                   AreaHeaderWords + BlockWords * k)
  <2>3. ASSUME NEW k \in 1 .. n PROVE ra_mB_parse_info(w(k)) = blocks[k]
    <3>1. PICK m \in Nat : m = 3 + 6 * (k - 1)
      OBVIOUS
    <3>2. PICK z \in Nat : z = Len(words) /\ m + 6 <= z
      <4>1. Len(words) \in Nat /\ Len(words) >= 3 + 6 * n
        BY <1>8, LenProperties
      <4>2. m + 6 <= 3 + 6 * n
        BY <3>1
      <4>3. QED
        BY <4>1, <4>2
    <3>3. w(k) = SubSeq(words, m + 1, m + 6)
      <4>1. /\ AreaHeaderWords + BlockWords * (k - 1) + 1 = m + 1
            /\ AreaHeaderWords + BlockWords * k = m + 6
        BY <3>1 DEF AreaHeaderWords, BlockWords
      <4>2. QED
        BY <4>1
    <3>4. \A i \in 1 .. 6 : SubSeq(words, m + 1, m + 6)[i] = words[m + i]
      BY <1>8, <3>2
    <3>5. ASSUME NEW i \in 1 .. 6 PROVE words[m + i] = c[k][i]
      <4>1. PICK j \in 1 .. 6 * n : j = 6 * (k - 1) + i /\ m + i = 3 + j
        BY <3>1
      <4>2. QED
        BY <1>7, <1>8, <4>1
    <3> HIDE DEF w
    <3>6. \A i \in 1 .. 6 : w(k)[i] = ra_mB_dump_info(blocks[k])[i]
      BY <1>5, <3>3, <3>4, <3>5
    <3>7. QED
      BY <1>2, <3>6, BlockWordsRead
  <2>4. [k \in 1 .. BlocksDeclared(words) |-> ra_mB_parse_info(w(k))] = blocks
    <3>1. blocks = [k \in 1 .. n |-> blocks[k]]
      BY <1>1
    <3> HIDE DEF w
    <3>2. QED
      BY <2>1, <2>3, <3>1
  <2>5. \A b \in AnyBlock : b.size \in Nat
    BY DEF AnyBlock, memory_block_t
  <2>6. AreaRead(words) = FoldLeft(LAMBDA area, b : ra_mA_insert_block(area, b, TRUE),
                                   ra_mA_create(label), blocks)
    BY <1>8, <2>4 DEF AreaRead
  <2>7. AreaRead(words) = Filled(label, blocks)
    BY <2>5, <2>6, AllInserted
  <2>8. QED
    BY <2>2, <2>7
<1> DEFINE head == <<label, lo, hi>>
<1>9. head \in Seq(Nat) /\ Len(head) = 3 /\ head[1] = label /\ head[2] = lo /\ head[3] = hi
  BY <1>4
<1>10. text = head \o body
  BY <1>4, <1>6
<1> HIDE DEF head
<1>11. text \in Seq(Nat) /\ Len(text) = 3 + 6 * n /\ Starts(text)
  <2>1. /\ text \in Seq(Nat) /\ Len(text) = 3 + 6 * n
        /\ \A j \in 1 .. 3 + 6 * n : text[j] = IF j <= 3 THEN head[j] ELSE body[j - 3]
    <3>1. /\ head \o body \in Seq(Nat) /\ Len(head \o body) = Len(head) + Len(body)
          /\ \A j \in 1 .. Len(head) + Len(body) :
                (head \o body)[j] = IF j <= Len(head) THEN head[j] ELSE body[j - Len(head)]
      BY <1>6, <1>9, ConcatProperties
    <3>2. QED
      BY <1>6, <1>9, <1>10, <3>1
  <2>2. text[1] = label /\ text[2] = lo /\ text[3] = hi
    BY <1>9, <2>1
  <2>3. ASSUME NEW j \in 1 .. 6 * n PROVE text[3 + j] = body[j]
    <3>1. 3 + j \in 1 .. 3 + 6 * n /\ ~(3 + j <= 3) /\ (3 + j) - 3 = j
      OBVIOUS
    <3>2. QED
      BY <2>1, <3>1
  <2>4. QED
    BY <2>1, <2>2, <2>3
<1>12. PICK m \in Nat : m = Len(rest)
  BY LenProperties
<1> DEFINE words == text \o rest
<1>13. /\ words \in Seq(Nat) /\ Len(words) = 3 + 6 * n + m
       /\ \A j \in 1 .. 3 + 6 * n : words[j] = text[j]
       /\ SubSeq(words, 3 + 6 * n + 1, Len(words)) = rest
  <2>1. /\ words \in Seq(Nat) /\ Len(words) = 3 + 6 * n + m
        /\ \A j \in 1 .. 3 + 6 * n + m :
              words[j] = IF j <= 3 + 6 * n THEN text[j] ELSE rest[j - (3 + 6 * n)]
    <3>1. /\ text \o rest \in Seq(Nat) /\ Len(text \o rest) = Len(text) + Len(rest)
          /\ \A j \in 1 .. Len(text) + Len(rest) :
                (text \o rest)[j] = IF j <= Len(text) THEN text[j] ELSE rest[j - Len(text)]
      BY <1>11, ConcatProperties
    <3>2. QED
      BY <1>11, <1>12, <3>1
  <2>2. SubSeq(words, Len(text) + 1, Len(words)) = rest
    BY <1>11, Behind
  <2>3. \A j \in 1 .. 3 + 6 * n : words[j] = text[j]
    BY <2>1
  <2>4. QED
    BY <1>11, <1>12, <2>1, <2>2, <2>3
<1> HIDE DEF words
<1>14. Starts(words)
  <2>1. Len(words) >= 3 + 6 * n
    BY <1>13
  <2>2. \A j \in 1 .. 6 * n : 3 + j \in 1 .. 3 + 6 * n
    OBVIOUS
  <2>3. 1 \in 1 .. 3 + 6 * n /\ 2 \in 1 .. 3 + 6 * n /\ 3 \in 1 .. 3 + 6 * n
    OBVIOUS
  <2>4. QED
    BY <1>11, <1>13, <2>1, <2>2, <2>3
<1>15. AreaWords(words) = 3 + 6 * n /\ AreaRead(words) = Filled(label, blocks)
  BY <1>8, <1>14
<1>16. AreaWords(text) = 3 + 6 * n /\ AreaRead(text) = Filled(label, blocks)
  BY <1>8, <1>11
<1>17. ~(Len(words) < AreaHeaderWords) /\ ~(Len(words) < AreaWords(words))
  BY <1>13, <1>15 DEF AreaHeaderWords
<1>18. ~(Len(text) < AreaHeaderWords) /\ ~(Len(text) < AreaWords(text))
  BY <1>11, <1>16 DEF AreaHeaderWords
<1>19. ra_mA_parse_ads_text_info(text) = Filled(label, blocks)
  BY <1>16, <1>18 DEF ra_mA_parse_ads_text_info
<1>20. ra_mA_parse_ads_binary_info(words) = [area |-> Filled(label, blocks), pointer |-> rest]
  BY <1>13, <1>15, <1>17 DEF ra_mA_parse_ads_binary_info
<1>21. QED
  BY <1>11, <1>19, <1>20 DEF words

-----------------------------------------------------------------------------
(* FlattenSeq is a join *)

FlatFold(f, c, n) == f = [i \in 1 .. n |-> IF i = 1 THEN c[i] ELSE f[i - 1] \o c[i]]

(* FlattenSeq yields the join of the items. *)
LEMMA FlattenIsJoin ==
    ASSUME NEW S, NEW n \in Nat, NEW c \in [1 .. n -> Seq(S)]
    PROVE  \E h : Joins(h, c, n) /\ FlattenSeq(c) = h[n]
<1>1. PICK h : Joins(h, c, n)
  <2>1. PICK f : JoinFold(f, c, n)
    BY JoinFoldExists
  <2>2. QED
    BY <2>1, JoinFoldSteps
<1>2. Len(c) = n
  OBVIOUS
<1>3. CASE n = 0
  <2>1. c = <<>>
    BY <1>3
  <2>2. FlattenSeq(c) = c
    BY <1>2, <1>3 DEF FlattenSeq
  <2>3. h[n] = <<>>
    BY <1>1, <1>3 DEF Joins
  <2>4. QED
    BY <1>1, <2>1, <2>2, <2>3
<1>4. CASE n # 0
  <2> DEFINE g == [i \in 1 .. n |-> h[i]]
             f == CHOOSE f : FlatFold(f, c, n)
  <2>1. h[0] = <<>> /\ \A k \in 1 .. n : h[k] = h[k - 1] \o c[k]
    BY <1>1 DEF Joins
  <2>2. ASSUME NEW i \in 1 .. n PROVE h[i] = IF i = 1 THEN c[i] ELSE h[i - 1] \o c[i]
    <3>1. CASE i = 1
      <4>1. h[1] = h[0] \o c[1] /\ c[1] \in Seq(S)
        <5>1. 1 \in 1 .. n /\ 1 - 1 = 0
          BY <3>1
        <5>2. QED
          BY <2>1, <5>1
      <4>2. <<>> \o c[1] = c[1]
        BY <4>1, ConcatEmptySeq
      <4>3. QED
        BY <2>1, <3>1, <4>1, <4>2
    <3>2. CASE i # 1
      BY <2>1, <3>2
    <3>3. QED
      BY <3>1, <3>2
  <2>3. FlatFold(g, c, n)
    <3>1. \A i \in 1 .. n : g[i] = IF i = 1 THEN c[i] ELSE g[i - 1] \o c[i]
      <4>1. TAKE i \in 1 .. n
      <4>2. i # 1 => i - 1 \in 1 .. n
        OBVIOUS
      <4>3. g[i] = h[i] /\ (i # 1 => g[i - 1] = h[i - 1])
        BY <4>2
      <4> HIDE DEF g
      <4>4. QED
        BY <2>2, <4>3
    <3>2. g = [i \in 1 .. n |-> g[i]]
      OBVIOUS
    <3> HIDE DEF g
    <3>3. QED
      BY <3>1, <3>2 DEF FlatFold
  <2>4. FlatFold(f, c, n)
    BY <2>3
  <2>5. FlattenSeq(c) = f[n]
    BY <1>2, <1>4 DEF FlattenSeq, FlatFold
  <2> HIDE DEF f, g
  <2>6. \A i \in 1 .. n : f[i] = IF i = 1 THEN c[i] ELSE f[i - 1] \o c[i]
    BY <2>4 DEF FlatFold
  <2> DEFINE p == [k \in 0 .. n |-> IF k = 0 THEN <<>> ELSE f[k]]
  <2>7. p[0] = <<>> /\ p[n] = f[n]
    BY <1>4
  <2>8. ASSUME NEW k \in 1 .. n PROVE p[k] = p[k - 1] \o c[k]
    <3>1. CASE k = 1
      <4>1. p[1] = f[1] /\ f[1] = c[1] /\ c[1] \in Seq(S)
        BY <2>6, <3>1
      <4>2. <<>> \o c[1] = c[1]
        BY <4>1, ConcatEmptySeq
      <4>3. k - 1 = 0
        BY <3>1
      <4> HIDE DEF p
      <4>4. QED
        BY <2>7, <3>1, <4>1, <4>2, <4>3
    <3>2. CASE k # 1
      <4>1. k \in 0 .. n /\ k # 0 /\ k - 1 \in 0 .. n /\ k - 1 # 0
        BY <3>2
      <4>2. p[k] = f[k] /\ p[k - 1] = f[k - 1]
        BY <4>1
      <4> HIDE DEF p
      <4>3. QED
        BY <2>6, <3>2, <4>2
    <3>3. QED
      BY <3>1, <3>2
  <2> HIDE DEF p
  <2>9. Joins(p, c, n)
    BY <2>7, <2>8 DEF Joins
  <2>10. QED
    BY <2>5, <2>7, <2>9
<1>5. QED
  BY <1>3, <1>4

-----------------------------------------------------------------------------
(* Tables filled by insertions *)

AnyArea == memory_area_t(Nat, AnyBlock)

AnyTable == ra_table_t(AnyArea, Seq(Nat) \cup {Undefined}, Nat \cup {Undefined},
                       Seq(Nat) \cup {Null})

(* What stands for no value is none. *)
LEMMA NoValue ==
    /\ Null # Undefined
    /\ Null \notin AnyArea /\ Undefined \notin AnyArea
    /\ Null \notin AnyTable /\ Undefined \notin AnyTable
    /\ Null \notin Seq(Nat) /\ Undefined \notin Seq(Nat) /\ Failed \notin Seq(Nat)
    /\ Undefined \notin BOOLEAN
  BY PointerAssumption DEF AnyTable, AnyArea, AnyBlock

(* A table whose list was made by insertions. *)
TableWith(table, areas) ==
    [table EXCEPT !.areas = areas,
                  !.head = IF areas = <<>> THEN "null" ELSE "live",
                  !.tail = IF areas = <<>> THEN "null" ELSE "live",
                  !.memory_areas_count = Len(areas)]

(* Its fields. *)
LEMMA TableWithFields ==
    ASSUME NEW table \in AnyTable, NEW areas \in Seq(AnyArea)
    PROVE  /\ TableWith(table, areas) \in AnyTable
           /\ TableWith(table, areas).areas = areas
           /\ TableWith(table, areas).head = IF areas = <<>> THEN "null" ELSE "live"
           /\ TableWith(table, areas).tail = IF areas = <<>> THEN "null" ELSE "live"
           /\ TableWith(table, areas).memory_areas_count = Len(areas)
           /\ TableWith(table, areas).app_AID = table.app_AID
           /\ TableWith(table, areas).is_AID_set = table.is_AID_set
           /\ TableWith(table, areas).app_attestator_number = table.app_attestator_number
           /\ TableWith(table, areas).is_attestator_number_set
                = table.is_attestator_number_set
           /\ TableWith(table, areas).current_nonce = table.current_nonce
           /\ TableWith(table, areas).current_nonce_size = table.current_nonce_size
           /\ TableWith(table, areas).prepared_data = table.prepared_data
           /\ TableWith(table, areas).prepared_data_size = table.prepared_data_size
<1>1. Len(areas) \in Nat
  BY LenProperties
<1>2. CASE areas = <<>>
  BY <1>1, <1>2 DEF TableWith, AnyTable, ra_table_t, Pointer
<1>3. CASE areas # <<>>
  BY <1>1, <1>3 DEF TableWith, AnyTable, ra_table_t, Pointer
<1>4. QED
  BY <1>2, <1>3

(* The labels that are defined in such a table. *)
LEMMA LabelsDefined ==
    ASSUME NEW table \in AnyTable, NEW areas \in Seq(AnyArea), NEW label
    PROVE  ra_is_label_defined(TableWith(table, areas), label)
             = (\E k \in 1 .. Len(areas) : areas[k].label = label)
<1> DEFINE t == TableWith(table, areas)
<1>1. /\ t.areas = areas /\ t.memory_areas_count = Len(areas)
      /\ t.head = IF areas = <<>> THEN "null" ELSE "live"
  BY TableWithFields
<1>2. DOMAIN areas = 1 .. Len(areas) /\ (areas = <<>> => Len(areas) = 0)
  BY LenProperties
<1> HIDE DEF t
<1>3. HasLabel(t, label) <=> \E k \in 1 .. Len(areas) : areas[k].label = label
  BY <1>1, <1>2 DEF HasLabel, ra_mA_get_label
<1>4. Walkable(t) /\ t.head # "freed"
  BY <1>1, <1>2 DEF Walkable
<1>5. ra_is_label_defined(t, label) = HasLabel(t, label)
  <2>1. HasLabel(t, label) \in BOOLEAN
    BY DEF HasLabel
  <2>2. QED
    BY <1>4, <2>1 DEF ra_is_label_defined
<1>6. QED
  BY <1>3, <1>5 DEF t, HasLabel

(* One more area is inserted, unless its label is there. *)
LEMMA InsertedArea ==
    ASSUME NEW table \in AnyTable, NEW areas \in Seq(AnyArea), NEW area \in AnyArea
    PROVE  /\ (\A k \in 1 .. Len(areas) : areas[k].label # area.label) =>
                ra_insert_memory_area(TableWith(table, areas), area, TRUE)
                  = Answer("RA_SUCCESS", TableWith(table, Append(areas, area)))
           /\ (\E k \in 1 .. Len(areas) : areas[k].label = area.label) =>
                \A allocated : ra_insert_memory_area(TableWith(table, areas), area, allocated)
                  = Answer("RA_ERROR_MEMORY_LABEL_ALREADY_DEFINED", TableWith(table, areas))
<1> DEFINE t == TableWith(table, areas)
<1>1. area # Null
  BY NoValue
<1>2. ra_is_label_defined(t, ra_mA_get_label(area))
        = (\E k \in 1 .. Len(areas) : areas[k].label = area.label)
  BY LabelsDefined DEF ra_mA_get_label
<1>3. ra_is_label_defined(t, ra_mA_get_label(area)) # Undefined
  BY <1>2, NoValue
<1>4. ASSUME \E k \in 1 .. Len(areas) : areas[k].label = area.label, NEW allocated
      PROVE  ra_insert_memory_area(t, area, allocated)
               = Answer("RA_ERROR_MEMORY_LABEL_ALREADY_DEFINED", t)
  BY <1>1, <1>2, <1>3, <1>4 DEF ra_insert_memory_area
<1>5. insert_table_item(t, area) = TableWith(table, Append(areas, area))
  <2>1. t.tail # "freed"
    BY TableWithFields
  <2>2. Len(Append(areas, area)) = Len(areas) + 1 /\ Append(areas, area) # <<>>
    BY AppendProperties
  <2>3. CASE areas = <<>>
    BY <2>1, <2>2, <2>3 DEF insert_table_item, TableWith, AnyTable, ra_table_t
  <2>4. CASE areas # <<>>
    BY <2>1, <2>2, <2>4 DEF insert_table_item, TableWith, AnyTable, ra_table_t
  <2>5. QED
    BY <2>3, <2>4
<1>6. ASSUME \A k \in 1 .. Len(areas) : areas[k].label # area.label
      PROVE  ra_insert_memory_area(t, area, TRUE)
               = Answer("RA_SUCCESS", TableWith(table, Append(areas, area)))
  <2>1. ra_is_label_defined(t, ra_mA_get_label(area)) = FALSE
    BY <1>2, <1>6
  <2>2. QED
    BY <1>1, <1>3, <1>5, <2>1 DEF ra_insert_memory_area
<1> HIDE DEF t
<1>7. QED
  BY <1>4, <1>6 DEF t

-----------------------------------------------------------------------------
(* The areas of an ADS *)

(* An area as the tool chain describes it. *)
Plan == [label : Nat, blocks : Seq(AnyBlock)]

(* What the insertion of the described areas yields. *)
FilledAreas(plans) == [k \in 1 .. Len(plans) |-> Filled(plans[k].label, plans[k].blocks)]

DistinctLabels(plans, m) ==
    \A i, j \in 1 .. m : plans[i].label = plans[j].label => i = j

NoLabelTwice(plans) == DistinctLabels(plans, Len(plans))

(* An area filled with blocks is an area. *)
LEMMA FilledType ==
    ASSUME NEW labels, NEW label \in labels, NEW B, NEW blocks \in Seq(B),
           \A b \in B : b.size \in Nat
    PROVE  Filled(label, blocks) \in memory_area_t(labels, B)
<1>1. BytesOf(blocks) \in Nat
  <2>1. CASE B = {}
    <3>1. blocks = <<>>
      BY <2>1
    <3>2. BytesOf(<<>>) = 0
      <4>1. Len(<<>>) + 1 = 1
        OBVIOUS
      <4>2. QED
        BY <4>1, LowerBoundSteps DEF BytesOf
    <3>3. QED
      BY <3>1, <3>2
  <2>2. CASE B # {}
    BY <2>2, BytesOfAppend
  <2>3. QED
    BY <2>1, <2>2
<1>2. Len(blocks) \in Nat
  BY LenProperties
<1>3. QED
  BY <1>1, <1>2 DEF Filled, memory_area_t, Pointer

(* The described areas, filled. *)
LEMMA FilledAreasType ==
    ASSUME NEW plans \in Seq(Plan)
    PROVE  /\ FilledAreas(plans) \in Seq(AnyArea)
           /\ Len(FilledAreas(plans)) = Len(plans)
           /\ \A k \in 1 .. Len(plans) :
                 FilledAreas(plans)[k] = Filled(plans[k].label, plans[k].blocks)
<1>1. PICK n \in Nat : n = Len(plans)
  BY LenProperties
<1>2. \A k \in 1 .. n : plans[k].label \in Nat /\ plans[k].blocks \in Seq(AnyBlock)
  <2>1. \A k \in 1 .. n : plans[k] \in Plan
    BY <1>1
  <2>2. QED
    BY <2>1 DEF Plan
<1>3. \A b \in AnyBlock : b.size \in Nat
  BY DEF AnyBlock, memory_block_t
<1>4. \A k \in 1 .. n : Filled(plans[k].label, plans[k].blocks) \in AnyArea
  BY <1>2, <1>3, FilledType DEF AnyArea
<1>5. QED
  BY <1>1, <1>4 DEF FilledAreas

(* One pass of the loop over the areas of an ADS. *)
Passes(table, areas, plan, text, rest) ==
    /\ (\A k \in 1 .. Len(areas) : areas[k].label # plan.label) =>
          ParseStep([table |-> TableWith(table, areas), pointer |-> text \o rest])
            = [table |-> TableWith(table, Append(areas, Filled(plan.label, plan.blocks))),
               pointer |-> rest]
    /\ (\E k \in 1 .. Len(areas) : areas[k].label = plan.label) =>
          ParseStep([table |-> TableWith(table, areas), pointer |-> text \o rest]).table = Null

(* The text of an area is read and the area inserted. *)
LEMMA PassOfParse ==
    ASSUME NEW table \in AnyTable, NEW areas \in Seq(AnyArea), NEW plan \in Plan,
           NEW text, Describes(text, plan.label, plan.blocks), NEW rest \in Seq(Nat)
    PROVE  Passes(table, areas, plan, text, rest)
<1> DEFINE area == Filled(plan.label, plan.blocks)
           t    == TableWith(table, areas)
           s    == [table |-> t, pointer |-> text \o rest]
<1>1. plan.label \in Nat /\ plan.blocks \in Seq(AnyBlock)
  BY DEF Plan
<1>2. area \in AnyArea /\ area.label = plan.label
  <2>1. \A b \in AnyBlock : b.size \in Nat
    BY DEF AnyBlock, memory_block_t
  <2>2. area \in AnyArea
    BY <1>1, <2>1, FilledType DEF AnyArea
  <2>3. QED
    BY <2>2 DEF Filled
<1>3. ra_mA_parse_ads_binary_info(text \o rest) = [area |-> area, pointer |-> rest]
  BY <1>1, ReadBack
<1>4. t \in AnyTable
  BY TableWithFields
<1>5. t # Null /\ t # Undefined /\ area # Undefined
  BY <1>2, <1>4, NoValue
<1>6. /\ (\A k \in 1 .. Len(areas) : areas[k].label # area.label) =>
           ra_insert_memory_area(t, area, TRUE)
             = Answer("RA_SUCCESS", TableWith(table, Append(areas, area)))
      /\ (\E k \in 1 .. Len(areas) : areas[k].label = area.label) =>
           ra_insert_memory_area(t, area, TRUE)
             = Answer("RA_ERROR_MEMORY_LABEL_ALREADY_DEFINED", t)
  BY <1>2, InsertedArea
<1> HIDE DEF area, t
<1>7. s.table = t /\ s.pointer = text \o rest
  OBVIOUS
<1> HIDE DEF s
<1>8. ParseStep(s) = LET a == ra_insert_memory_area(t, area, TRUE) IN
                     [table   |-> IF a.result = "RA_SUCCESS" THEN a.table ELSE Null,
                      pointer |-> rest]
  <2>1. LET parsed == [area |-> area, pointer |-> rest]
        IN  parsed.area = area /\ parsed.pointer = rest
    OBVIOUS
  <2>2. QED
    BY <1>3, <1>5, <1>7, <2>1 DEF ParseStep
<1>9. ASSUME \A k \in 1 .. Len(areas) : areas[k].label # plan.label
      PROVE  ParseStep(s) = [table |-> TableWith(table, Append(areas, area)), pointer |-> rest]
  <2>1. ra_insert_memory_area(t, area, TRUE)
          = Answer("RA_SUCCESS", TableWith(table, Append(areas, area)))
    BY <1>2, <1>6, <1>9
  <2>2. /\ Answer("RA_SUCCESS", TableWith(table, Append(areas, area))).result = "RA_SUCCESS"
        /\ Answer("RA_SUCCESS", TableWith(table, Append(areas, area))).table
             = TableWith(table, Append(areas, area))
    BY DEF Answer
  <2>3. QED
    BY <1>8, <2>1, <2>2
<1>10. ASSUME \E k \in 1 .. Len(areas) : areas[k].label = plan.label
       PROVE  ParseStep(s).table = Null
  <2>1. ra_insert_memory_area(t, area, TRUE)
          = Answer("RA_ERROR_MEMORY_LABEL_ALREADY_DEFINED", t)
    BY <1>2, <1>6, <1>10
  <2>2. Answer("RA_ERROR_MEMORY_LABEL_ALREADY_DEFINED", t).result # "RA_SUCCESS"
    BY DEF Answer
  <2>3. ParseStep(s) = [table |-> Null, pointer |-> rest]
    BY <1>8, <2>1, <2>2
  <2>4. QED
    BY <2>3
<1>11. QED
  BY <1>9, <1>10 DEF s, t, area, Passes

(* The text of an ADS behind its header is parsed to the areas it describes *)
(* when their labels are distinct, and to NULL when one is used twice.      *)
LEMMA ParseAll ==
    ASSUME NEW table \in AnyTable, table = TableWith(table, <<>>),
           NEW plans \in Seq(Plan), NEW n \in Nat, n = Len(plans),
           NEW c \in [1 .. n -> Seq(Nat)], NEW h, Joins(h, c, n),
           \A k \in 1 .. n : Describes(c[k], plans[k].label, plans[k].blocks)
    PROVE  ParseAreas(table, h[n], n)
             = IF NoLabelTwice(plans) THEN TableWith(table, FilledAreas(plans)) ELSE Null
<1> DEFINE A == FilledAreas(plans)
<1>1. A \in Seq(AnyArea) /\ Len(A) = n
      /\ \A k \in 1 .. n : A[k] = Filled(plans[k].label, plans[k].blocks)
  BY FilledAreasType
<1>2. PICK r \in [0 .. n -> Seq(Nat)] : Leaves(r, c, h[n], n)
  BY JoinLeaves
<1>3. PICK g : /\ Parses(g, [table |-> table, pointer |-> h[n]], n)
               /\ ParseAreas(table, h[n], n) = g[n].table
  BY ParseSteps
<1> HIDE DEF A
<1> DEFINE Distinct(m) == DistinctLabels(plans, m)
           Good(m) == g[m] = [table |-> TableWith(table, SubSeq(A, 1, m)), pointer |-> r[m]]
           G == {m \in Nat : m <= n => /\ Distinct(m) => Good(m)
                                       /\ ~Distinct(m) => g[m].table = Null}
<1>4. 0 \in G
  <2>1. SubSeq(A, 1, 0) = <<>>
    BY <1>1
  <2>2. g[0] = [table |-> table, pointer |-> h[n]] /\ r[0] = h[n]
    BY <1>2, <1>3 DEF Parses, Leaves
  <2>3. Distinct(0)
    BY DEF DistinctLabels
  <2>4. QED
    BY <2>1, <2>2, <2>3
<1>5. ASSUME NEW m \in Nat, m \in G PROVE m + 1 \in G
  <2> SUFFICES ASSUME m + 1 <= n
               PROVE  /\ Distinct(m + 1) => Good(m + 1)
                      /\ ~Distinct(m + 1) => g[m + 1].table = Null
    OBVIOUS
  <2>1. m + 1 \in 1 .. n /\ (m + 1) - 1 = m /\ m + 1 \in 0 .. n
    OBVIOUS
  <2>2. g[m + 1] = ParseStep(g[m]) /\ r[m] = c[m + 1] \o r[m + 1] /\ r[m + 1] \in Seq(Nat)
    BY <1>2, <1>3, <2>1 DEF Parses, Leaves
  <2>3. Distinct(m + 1) => Distinct(m)
    BY DEF DistinctLabels
  <2>4. CASE ~Distinct(m)
    <3>1. g[m].table = Null
      BY <1>5, <2>4
    <3>2. ParseStep(g[m]) = g[m]
      BY <3>1 DEF ParseStep
    <3>3. QED
      BY <2>2, <2>3, <2>4, <3>1, <3>2
  <2>5. CASE Distinct(m)
    <3> DEFINE areas == SubSeq(A, 1, m)
               plan  == plans[m + 1]
    <3>1. g[m] = [table |-> TableWith(table, areas), pointer |-> c[m + 1] \o r[m + 1]]
      <4>1. Good(m)
        BY <1>5, <2>5
      <4>2. QED
        BY <2>2, <4>1
    <3>2. plan \in Plan /\ Describes(c[m + 1], plan.label, plan.blocks)
      BY <2>1
    <3>3. areas \in Seq(AnyArea) /\ Len(areas) = m /\ \A k \in 1 .. m : areas[k] = A[k]
      BY <1>1
    <3>4. \A k \in 1 .. m : areas[k].label = plans[k].label
      <4>1. \A k \in 1 .. m : k \in 1 .. n
        OBVIOUS
      <4>2. \A k \in 1 .. m : areas[k] = Filled(plans[k].label, plans[k].blocks)
        BY <1>1, <3>3, <4>1
      <4>3. \A k : Filled(plans[k].label, plans[k].blocks).label = plans[k].label
        BY DEF Filled
      <4> HIDE DEF areas
      <4>4. QED
        BY <4>2, <4>3
    <3>5. Append(areas, A[m + 1]) = SubSeq(A, 1, m + 1)
          /\ A[m + 1] = Filled(plan.label, plan.blocks)
      BY <1>1, <2>1, LongerPrefix
    <3> HIDE DEF areas, plan
    <3>6. /\ (\A k \in 1 .. Len(areas) : areas[k].label # plan.label) =>
               g[m + 1] = [table |-> TableWith(table, Append(areas, A[m + 1])),
                           pointer |-> r[m + 1]]
          /\ (\E k \in 1 .. Len(areas) : areas[k].label = plan.label) =>
               g[m + 1].table = Null
      <4> DEFINE next == ParseStep([table |-> TableWith(table, areas),
                                    pointer |-> c[m + 1] \o r[m + 1]])
      <4>1. /\ (\A k \in 1 .. Len(areas) : areas[k].label # plan.label) =>
                  next = [table |-> TableWith(table,
                                       Append(areas, Filled(plan.label, plan.blocks))),
                          pointer |-> r[m + 1]]
            /\ (\E k \in 1 .. Len(areas) : areas[k].label = plan.label) =>
                  next.table = Null
        <5>1. Passes(table, areas, plan, c[m + 1], r[m + 1])
          BY <2>2, <3>2, <3>3, PassOfParse
        <5>2. QED
          BY <5>1 DEF Passes
      <4>2. g[m + 1] = next
        BY <2>2, <3>1
      <4> HIDE DEF next
      <4>3. QED
        BY <3>5, <4>1, <4>2
    <3>7. CASE Distinct(m + 1)
      <4>1. \A k \in 1 .. m : plans[k].label # plan.label
        <5>1. \A k \in 1 .. m : k \in 1 .. m + 1 /\ k # m + 1 /\ m + 1 \in 1 .. m + 1
          OBVIOUS
        <5>2. QED
          BY <3>7, <5>1 DEF plan, DistinctLabels
      <4>2. \A k \in 1 .. Len(areas) : areas[k].label # plan.label
        BY <3>3, <3>4, <4>1
      <4>3. QED
        BY <3>5, <3>6, <3>7, <4>2
    <3>8. CASE ~Distinct(m + 1)
      <4>1. \E k \in 1 .. m : plans[k].label = plan.label
        <5>1. PICK i \in 1 .. m + 1, j \in 1 .. m + 1 :
                 plans[i].label = plans[j].label /\ i # j
          BY <3>8 DEF DistinctLabels
        <5>2. \/ i \in 1 .. m /\ j = m + 1
              \/ j \in 1 .. m /\ i = m + 1
              \/ i \in 1 .. m /\ j \in 1 .. m
          BY <5>1
        <5>3. QED
          BY <2>5, <5>1, <5>2 DEF plan, DistinctLabels
      <4>2. \E k \in 1 .. Len(areas) : areas[k].label = plan.label
        BY <3>3, <3>4, <4>1
      <4>3. QED
        BY <3>6, <3>8, <4>2
    <3>9. QED
      BY <3>7, <3>8
  <2>6. QED
    BY <2>4, <2>5
<1> HIDE DEF G
<1>6. Nat \subseteq G
  BY <1>4, <1>5, SetInduction
<1>7. (Distinct(n) => Good(n)) /\ (~Distinct(n) => g[n].table = Null)
  <2> HIDE DEF Distinct, Good
  <2> QED
    BY <1>6 DEF G
<1>8. Distinct(n) <=> NoLabelTwice(plans)
  BY DEF NoLabelTwice
<1>9. SubSeq(A, 1, n) = A
  BY <1>1, SubSeqFull
<1> HIDE DEF Distinct
<1>10. QED
  <2>1. ASSUME Good(n) PROVE g[n].table = TableWith(table, A)
    <3>1. g[n] = [table |-> TableWith(table, A), pointer |-> r[n]]
      BY <1>9, <2>1
    <3>2. QED
      BY <3>1
  <2> HIDE DEF Good
  <2>2. QED
    BY <1>3, <1>7, <1>8, <2>1 DEF A

-----------------------------------------------------------------------------
(* The ADS *)

(* A table is made of its areas and its other fields. *)
LEMMA TableIsWith ==
    ASSUME NEW t \in AnyTable, t.memory_areas_count = Len(t.areas),
           t.head = IF t.areas = <<>> THEN "null" ELSE "live",
           t.tail = IF t.areas = <<>> THEN "null" ELSE "live"
    PROVE  t = TableWith(t, t.areas)
  BY DEF AnyTable, ra_table_t, TableWith

(* A table that has its identity and no areas yet. *)
Identified(aid, number) ==
    ra_set_attestator_number(ra_set_AID(ra_create_table(FALSE), aid), number)

(* Its type and fields. *)
LEMMA IdentifiedFields ==
    ASSUME NEW aid \in Seq(Nat), NEW number \in Nat
    PROVE  /\ Identified(aid, number) \in AnyTable
           /\ Identified(aid, number) = TableWith(Identified(aid, number), <<>>)
           /\ Identified(aid, number).app_AID = aid
           /\ Identified(aid, number).is_AID_set = TRUE
           /\ Identified(aid, number).app_attestator_number = number
           /\ Identified(aid, number).is_attestator_number_set = TRUE
           /\ Identified(aid, number).current_nonce = Null
           /\ Identified(aid, number).current_nonce_size = 0
           /\ Identified(aid, number).current_key = Null
           /\ Identified(aid, number).prepared_data = Null
           /\ Identified(aid, number).prepared_data_size = 0
<1> DEFINE t == ra_create_table(FALSE)
           u == ra_set_AID(t, aid)
           v == ra_set_attestator_number(u, number)
<1>1. /\ t \in AnyTable
      /\ t.areas = <<>> /\ t.head = "null" /\ t.tail = "null" /\ t.memory_areas_count = 0
      /\ t.current_nonce = Null /\ t.current_nonce_size = 0 /\ t.current_key = Null
      /\ t.prepared_data = Null /\ t.prepared_data_size = 0
  BY DEF AnyTable, ra_table_t, Pointer, ra_create_table
<1> HIDE DEF t
<1>2. /\ u \in AnyTable
      /\ u.areas = <<>> /\ u.head = "null" /\ u.tail = "null" /\ u.memory_areas_count = 0
      /\ u.current_nonce = Null /\ u.current_nonce_size = 0 /\ u.current_key = Null
      /\ u.prepared_data = Null /\ u.prepared_data_size = 0
      /\ u.app_AID = aid /\ u.is_AID_set = TRUE
  BY <1>1 DEF AnyTable, ra_table_t, ra_set_AID
<1> HIDE DEF u
<1>3. /\ v \in AnyTable
      /\ v.areas = <<>> /\ v.head = "null" /\ v.tail = "null" /\ v.memory_areas_count = 0
      /\ v.current_nonce = Null /\ v.current_nonce_size = 0 /\ v.current_key = Null
      /\ v.prepared_data = Null /\ v.prepared_data_size = 0
      /\ v.app_AID = aid /\ v.is_AID_set = TRUE
      /\ v.app_attestator_number = number /\ v.is_attestator_number_set = TRUE
  BY <1>2 DEF AnyTable, ra_table_t, ra_set_attestator_number
<1> HIDE DEF v
<1>4. v = TableWith(v, <<>>)
  BY <1>3, TableIsWith
<1>5. v = Identified(aid, number)
  BY DEF Identified, v, u, t
<1>6. QED
  BY <1>3, <1>4, <1>5

(* Bytes are packed into words and taken out again. *)
LEMMA WordsAndBytes ==
    ASSUME NEW m \in Nat, NEW s \in Seq(0 .. 255), Len(s) = 2 * m
    PROVE  /\ Words(s) \in Seq(Nat) /\ Len(Words(s)) = m
           /\ Bytes(Words(s)) = s
<1>1. Len(s) \div 2 = m
  OBVIOUS
<1>2. DOMAIN s = 1 .. 2 * m /\ \A i \in 1 .. 2 * m : s[i] \in 0 .. 255
  BY LenProperties, ElementOfSeq
<1> DEFINE w == [i \in 1 .. m |-> s[2 * i - 1] + 256 * s[2 * i]]
<1>3. Words(s) = w
  BY <1>1 DEF Words
<1>4. ASSUME NEW i \in 1 .. m
      PROVE  /\ s[2 * i - 1] \in 0 .. 255 /\ s[2 * i] \in 0 .. 255
             /\ w[i] = s[2 * i - 1] + 256 * s[2 * i]
             /\ w[i] \in Nat
             /\ w[i] % 256 = s[2 * i - 1] /\ w[i] \div 256 = s[2 * i]
  <2>1. 2 * i - 1 \in 1 .. 2 * m /\ 2 * i \in 1 .. 2 * m
    OBVIOUS
  <2>2. PICK a \in 0 .. 255, b \in 0 .. 255 : a = s[2 * i - 1] /\ b = s[2 * i]
    BY <1>2, <2>1
  <2>3. w[i] = a + 256 * b
    BY <2>2
  <2>4. (a + 256 * b) % 256 = a /\ (a + 256 * b) \div 256 = b /\ a + 256 * b \in Nat
    OBVIOUS
  <2>5. QED
    BY <2>2, <2>3, <2>4
<1>5. w \in Seq(Nat) /\ Len(w) = m
  <2>1. \A i \in 1 .. m : s[2 * i - 1] + 256 * s[2 * i] \in Nat
    BY <1>4
  <2>2. w \in Seq(Nat)
    BY <2>1
  <2>3. Len(w) = m
    OBVIOUS
  <2>4. QED
    BY <2>2, <2>3
<1> HIDE DEF w
<1>6. Bytes(w) = [i \in 1 .. 2 * m |-> s[i]]
  <2> DEFINE byte(i) == LET v == w[(i + 1) \div 2] IN IF i % 2 = 1 THEN v % 256 ELSE v \div 256
  <2>1. Bytes(w) = [i \in 1 .. 2 * m |-> byte(i)]
    BY <1>5 DEF Bytes
  <2>2. ASSUME NEW i \in 1 .. 2 * m PROVE byte(i) = s[i]
    <3>1. PICK k \in 1 .. m : (i = 2 * k - 1 /\ i % 2 = 1) \/ (i = 2 * k /\ i % 2 = 0)
      <4>1. PICK k \in Nat : k = (i + 1) \div 2
        OBVIOUS
      <4>2. k \in 1 .. m /\ ((i = 2 * k - 1 /\ i % 2 = 1) \/ (i = 2 * k /\ i % 2 = 0))
        BY <4>1
      <4>3. QED
        BY <4>2
    <3>2. (i + 1) \div 2 = k
      BY <3>1
    <3>3. QED
      BY <1>4, <3>1, <3>2
  <2> HIDE DEF byte
  <2>3. QED
    BY <2>1, <2>2
<1>7. s = [i \in 1 .. 2 * m |-> s[i]]
  BY <1>2
<1>8. QED
  BY <1>3, <1>5, <1>6, <1>7

(* A sequence turned round twice. *)
LEMMA ReverseTwice ==
    ASSUME NEW S, NEW s \in Seq(S)
    PROVE  Reverse(s) \in Seq(S) /\ Len(Reverse(s)) = Len(s) /\ Reverse(Reverse(s)) = s
<1>1. PICK n \in Nat : n = Len(s) /\ DOMAIN s = 1 .. n
  BY LenProperties
<1> DEFINE t == [i \in 1 .. n |-> s[(n - i) + 1]]
<1>2. \A i \in 1 .. n : (n - i) + 1 \in 1 .. n /\ (n - ((n - i) + 1)) + 1 = i
  OBVIOUS
<1>3. \A i \in 1 .. n : s[i] \in S
  BY <1>1
<1>4. t \in Seq(S) /\ Len(t) = n
  BY <1>2, <1>3
<1>5. Reverse(s) = t
  BY <1>1 DEF Reverse
<1>6. \A i \in 1 .. n : t[(n - i) + 1] = s[i]
  BY <1>2
<1> HIDE DEF t
<1>7. Reverse(t) = [i \in 1 .. n |-> s[i]]
  BY <1>4, <1>6 DEF Reverse
<1>8. s = [i \in 1 .. n |-> s[i]]
  BY <1>1
<1>9. QED
  BY <1>1, <1>4, <1>5, <1>7, <1>8

(* The ADS of the tool chain is parsed to the areas it describes, or to     *)
(* NULL when one of the labels is used twice.                               *)
LEMMA ParsedBlob ==
    ASSUME NEW aid \in Seq(0 .. 255), Len(aid) = AID_SIZE, NEW number \in Nat,
           NEW plans \in Seq(Plan)
    PROVE  ra_parse_binary_ads(Blob(aid, number, plans))
             = IF NoLabelTwice(plans)
               THEN TableWith(Identified(aid, number), FilledAreas(plans))
               ELSE Null
<1>1. PICK m \in Nat : AID_SIZE = 2 * m /\ AIDWords = m /\ HeaderWords = m + 6
  BY AIDAssumption DEF AIDWords, HeaderWords
<1>2. PICK n \in Nat : n = Len(plans) /\ DOMAIN plans = 1 .. n
  BY LenProperties
<1>3. \A k \in 1 .. n : plans[k].label \in Nat /\ plans[k].blocks \in Seq(AnyBlock)
  <2>1. \A k \in 1 .. n : plans[k] \in Plan
    BY <1>2
  <2>2. QED
    BY <2>1 DEF Plan
<1> DEFINE text(k) == <<plans[k].label, Len(plans[k].blocks), 0>>
                        \o FlattenSeq([j \in DOMAIN plans[k].blocks |->
                                          ra_mB_dump_info(plans[k].blocks[j])])
           c == [k \in DOMAIN plans |-> text(k)]
<1>4. ASSUME NEW k \in 1 .. n
      PROVE  Describes(text(k), plans[k].label, plans[k].blocks) /\ text(k) \in Seq(Nat)
  <2>1. PICK label \in Nat, blocks \in Seq(AnyBlock) :
           label = plans[k].label /\ blocks = plans[k].blocks
    BY <1>3
  <2>2. PICK l \in Nat : l = Len(blocks) /\ DOMAIN blocks = 1 .. l
    BY LenProperties
  <2> DEFINE d == [j \in 1 .. l |-> ra_mB_dump_info(blocks[j])]
  <2>3. d \in [1 .. l -> Seq(Nat)]
    <3>1. \A j \in 1 .. l : blocks[j] \in AnyBlock
      BY <2>2
    <3>2. \A j \in 1 .. l : ra_mB_dump_info(blocks[j]) \in Seq(Nat)
      BY <3>1, BlockWordsRead
    <3>3. QED
      BY <3>2
  <2>4. PICK h : Joins(h, d, l) /\ FlattenSeq(d) = h[l]
    <3> HIDE DEF d
    <3> QED
      BY <2>3, FlattenIsJoin
  <2>5. text(k) = <<label, l, 0>> \o h[l]
    BY <2>1, <2>2, <2>4
  <2>6. l + Word * 0 = l
    BY DEF Word
  <2>7. Describes(text(k), label, blocks)
    <3> HIDE DEF text
    <3> QED
      BY <2>2, <2>4, <2>5, <2>6 DEF Describes
  <2> HIDE DEF text
  <2>8. text(k) \in Seq(Nat)
    <3>1. <<>> \in Seq(Nat)
      OBVIOUS
    <3>2. QED
      BY <2>7, <3>1, ReadBack
  <2>9. QED
    BY <2>1, <2>7, <2>8
<1>5. c = [k \in 1 .. n |-> text(k)]
  BY <1>2
<1> HIDE DEF text
<1>6. c \in [1 .. n -> Seq(Nat)] /\ \A k \in 1 .. n : c[k] = text(k)
  BY <1>4, <1>5
<1> HIDE DEF c
<1>7. PICK h : Joins(h, c, n) /\ FlattenSeq(c) = h[n]
  BY <1>6, FlattenIsJoin
<1>8. h[n] \in Seq(Nat)
  <2>1. n \in 0 .. n
    OBVIOUS
  <2>2. QED
    BY <1>6, <1>7, <2>1, JoinType
<1> DEFINE w == Words(Reverse(aid))
           fields == <<number, 0, 0, 0, n, 0>>
           start == w \o fields
           blob == start \o h[n]
<1>9. w \in Seq(Nat) /\ Len(w) = m /\ Reverse(Bytes(w)) = aid
  <2>1. /\ Reverse(aid) \in Seq(0 .. 255) /\ Len(Reverse(aid)) = 2 * m
        /\ Reverse(Reverse(aid)) = aid
    BY <1>1, ReverseTwice
  <2>2. QED
    BY <2>1, WordsAndBytes
<1>10. /\ fields \in Seq(Nat) /\ Len(fields) = 6
       /\ fields[1] = number /\ fields[2] = 0 /\ fields[5] = n /\ fields[6] = 0
  OBVIOUS
<1>11. Blob(aid, number, plans) = blob
  BY <1>2, <1>7 DEF Blob, c, text
<1> HIDE DEF w, fields
<1>12. /\ start \in Seq(Nat) /\ Len(start) = m + 6
       /\ \A i \in 1 .. m + 6 : start[i] = IF i <= m THEN w[i] ELSE fields[i - m]
  <2>1. /\ w \o fields \in Seq(Nat) /\ Len(w \o fields) = Len(w) + Len(fields)
        /\ \A i \in 1 .. Len(w) + Len(fields) :
              (w \o fields)[i] = IF i <= Len(w) THEN w[i] ELSE fields[i - Len(w)]
    BY <1>9, <1>10, ConcatProperties
  <2>2. QED
    BY <1>9, <1>10, <2>1
<1> HIDE DEF start
<1>13. PICK z \in Nat : z = Len(h[n])
  BY <1>8, LenProperties
<1>14. /\ blob \in Seq(Nat) /\ Len(blob) = m + 6 + z
       /\ \A i \in 1 .. m + 6 : blob[i] = start[i]
       /\ SubSeq(blob, m + 6 + 1, Len(blob)) = h[n]
  <2>1. /\ start \o h[n] \in Seq(Nat) /\ Len(start \o h[n]) = Len(start) + Len(h[n])
        /\ \A i \in 1 .. Len(start) + Len(h[n]) :
              (start \o h[n])[i] = IF i <= Len(start) THEN start[i] ELSE h[n][i - Len(start)]
    BY <1>8, <1>12, ConcatProperties
  <2>2. SubSeq(start \o h[n], Len(start) + 1, Len(start \o h[n])) = h[n]
    BY <1>8, <1>12, Behind
  <2>3. \A i \in 1 .. m + 6 : (start \o h[n])[i] = start[i]
    <3>1. \A i \in 1 .. m + 6 : i \in 1 .. Len(start) + Len(h[n]) /\ i <= Len(start)
      <4>1. \A i \in 1 .. m + 6 : i \in 1 .. (m + 6) + z /\ i <= m + 6
        OBVIOUS
      <4>2. QED
        BY <1>12, <1>13, <4>1
    <3>2. QED
      BY <2>1, <3>1
  <2>4. QED
    BY <1>12, <1>13, <2>1, <2>2, <2>3
<1> HIDE DEF blob
<1>15. SubSeq(blob, 1, m) = w
  <2>1. /\ SubSeq(blob, 1, m) \in Seq(Nat) /\ Len(SubSeq(blob, 1, m)) = m
        /\ \A i \in 1 .. m : SubSeq(blob, 1, m)[i] = blob[i]
    BY <1>14
  <2>2. \A i \in 1 .. m : blob[i] = w[i]
    <3>1. \A i \in 1 .. m : i \in 1 .. m + 6 /\ i <= m
      OBVIOUS
    <3>2. QED
      BY <1>12, <1>14, <3>1
  <2>3. QED
    BY <1>9, <2>1, <2>2, SeqEqual
<1>16. ASSUME NEW j \in 1 .. 5
       PROVE  Number(SubSeq(blob, m + j, m + 6)) = fields[j] + Word * fields[j + 1]
  <2>1. /\ SubSeq(blob, m + j, m + 6)[1] = blob[m + j]
        /\ SubSeq(blob, m + j, m + 6)[2] = blob[m + (j + 1)]
    <3>1. PICK a \in Nat \ {0}, b \in Nat : a = m + j /\ b = m + 6
      OBVIOUS
    <3>2. a + 1 <= b /\ b <= Len(blob) /\ Len(blob) \in Nat /\ a + 1 = m + (j + 1)
      BY <1>14, <3>1
    <3>3. SubSeq(blob, a, b)[1] = blob[a] /\ SubSeq(blob, a, b)[2] = blob[a + 1]
      BY <1>14, <3>2
    <3>4. QED
      BY <3>1, <3>2, <3>3
  <2>2. ASSUME NEW i \in 1 .. 6 PROVE blob[m + i] = fields[i]
    <3>1. m + i \in 1 .. m + 6 /\ ~(m + i <= m) /\ (m + i) - m = i
      OBVIOUS
    <3>2. QED
      BY <1>12, <1>14, <3>1
  <2>3. j \in 1 .. 6 /\ j + 1 \in 1 .. 6
    OBVIOUS
  <2>4. QED
    BY <2>1, <2>2, <2>3 DEF Number
<1>17. /\ Number(SubSeq(blob, m + 1, m + 6)) = number
       /\ Number(SubSeq(blob, m + 5, m + 6)) = n
  <2>1. number + Word * 0 = number /\ n + Word * 0 = n
    BY DEF Word
  <2>2. /\ Number(SubSeq(blob, m + 1, m + 6)) = fields[1] + Word * fields[2]
        /\ Number(SubSeq(blob, m + 5, m + 6)) = fields[5] + Word * fields[6]
    BY <1>16
  <2>3. QED
    BY <1>10, <2>1, <2>2 DEF fields
<1>18. blob # Null /\ ~(Len(blob) < m + 6)
  BY <1>14, NoValue
<1>19. ra_parse_binary_ads(blob) = ParseAreas(Identified(aid, number), h[n], n)
  <2>1. (m + 6) + 1 = m + 6 + 1
    OBVIOUS
  <2>2. QED
    BY <1>1, <1>9, <1>14, <1>15, <1>17, <1>18 DEF ra_parse_binary_ads, Identified
<1>20. /\ Identified(aid, number) \in AnyTable
       /\ Identified(aid, number) = TableWith(Identified(aid, number), <<>>)
  <2>1. aid \in Seq(Nat)
    <3>1. 0 .. 255 \subseteq Nat
      OBVIOUS
    <3>2. QED
      BY <3>1, SeqMonotonic
  <2>2. QED
    BY <2>1, IdentifiedFields
<1>21. ParseAreas(Identified(aid, number), h[n], n)
         = IF NoLabelTwice(plans)
           THEN TableWith(Identified(aid, number), FilledAreas(plans)) ELSE Null
  BY <1>2, <1>4, <1>6, <1>7, <1>20, ParseAll
<1>22. QED
  BY <1>11, <1>19, <1>21

-----------------------------------------------------------------------------
(* Searches *)

(* The first of a nonempty set of places. *)
LEMMA MinFacts ==
    ASSUME NEW I \in SUBSET Nat, I # {}
    PROVE  Min(I) \in I /\ \A y \in I : Min(I) <= y
  BY LeastNumber DEF Min

(* Where the search for a label ends. *)
LabelPlace(areas, label) == SelectInSeq(areas, LAMBDA a : ra_mA_get_label(a) = label)

(* At the first area that has it, or nowhere. *)
LEMMA LabelPlaceFacts ==
    ASSUME NEW S, NEW areas \in Seq(S), NEW label
    PROVE  /\ LabelPlace(areas, label) \in 0 .. Len(areas)
           /\ LabelPlace(areas, label) # 0 => areas[LabelPlace(areas, label)].label = label
           /\ LabelPlace(areas, label) = 0
              => \A k \in 1 .. Len(areas) : areas[k].label # label
<1> DEFINE I == {k \in 1 .. Len(areas) : areas[k].label = label}
<1>1. LabelPlace(areas, label) = IF I # {} THEN Min(I) ELSE 0
  BY DEF LabelPlace, SelectInSeq, ra_mA_get_label
<1>2. I \in SUBSET Nat /\ Len(areas) \in Nat
  BY LenProperties
<1>3. CASE I = {}
  BY <1>1, <1>2, <1>3
<1>4. CASE I # {}
  <2>1. Min(I) \in I
    BY <1>2, <1>4, MinFacts
  <2>2. QED
    BY <1>1, <1>2, <1>4, <2>1
<1>5. QED
  BY <1>3, <1>4

(* The block in which a byte lies is the one the search finds. *)
LEMMA BlockFound ==
    ASSUME NEW blocks \in Seq(AnyBlock), NEW x \in Nat, x < BytesOf(blocks)
    PROVE  \E k \in 1 .. Len(blocks) :
              /\ BlockOfByte(blocks, x) = k
              /\ LowerBound(blocks, k) \in Nat
              /\ LowerBound(blocks, k) <= x
              /\ x < LowerBound(blocks, k) + blocks[k].size
<1>1. PICK n \in Nat : n = Len(blocks)
  BY LenProperties
<1>2. \A k \in 1 .. n : blocks[k].size \in Nat
  <2>1. \A k \in 1 .. n : blocks[k] \in AnyBlock
    BY <1>1, ElementOfSeq
  <2>2. QED
    BY <2>1 DEF AnyBlock, memory_block_t
<1>3. /\ LowerBound(blocks, 1) = 0
      /\ \A k \in Nat \ {0} : LowerBound(blocks, k + 1) = LowerBound(blocks, k) + blocks[k].size
  BY LowerBoundSteps
<1>4. /\ \A k \in 1 .. n + 1 : LowerBound(blocks, k) \in Nat
      /\ \A j, k \in 1 .. n + 1 : j <= k => LowerBound(blocks, j) <= LowerBound(blocks, k)
  BY <1>2, LowerBoundGrows
<1> DEFINE B(k) == LowerBound(blocks, k)
           H == {k \in Nat : k \in 1 .. n /\ x < B(k + 1)}
<1>5. x < B(n + 1)
  BY <1>1 DEF BytesOf
<1>6. n \in H
  <2>1. n # 0
    BY <1>3, <1>5
  <2>2. QED
    BY <1>5, <2>1
<1>7. PICK k \in H : \A j \in H : k <= j
  <2>1. H \in SUBSET Nat /\ H # {}
    BY <1>6
  <2> HIDE DEF H
  <2>2. QED
    BY <2>1, LeastNumber
<1>8. k \in 1 .. n /\ x < B(k + 1)
  BY <1>7
<1>9. B(k) <= x
  <2>1. CASE k = 1
    BY <1>3, <2>1
  <2>2. CASE k # 1
    <3>1. k - 1 \in 1 .. n /\ k - 1 \in Nat /\ (k - 1) + 1 = k /\ ~(k <= k - 1)
      BY <1>8, <2>2
    <3>2. k - 1 \notin H
      BY <1>7, <3>1
    <3>3. ~(x < B((k - 1) + 1))
      BY <3>1, <3>2
    <3>4. B(k) \in Nat
      BY <1>4, <1>8
    <3>5. QED
      BY <3>1, <3>3, <3>4
  <2>3. QED
    BY <2>1, <2>2
<1> DEFINE hit == {j \in DOMAIN blocks : B(j) <= x /\ x < B(j + 1)}
<1>10. hit = {k}
  <2>1. DOMAIN blocks = 1 .. n
    BY <1>1, LenProperties
  <2>2. k \in hit
    BY <1>8, <1>9, <2>1
  <2>3. ASSUME NEW j \in hit PROVE j = k
    <3>1. j \in 1 .. n /\ B(j) <= x /\ x < B(j + 1)
      BY <2>1
    <3>2. B(j) \in Nat /\ B(k) \in Nat /\ B(j + 1) \in Nat /\ B(k + 1) \in Nat
      BY <1>4, <1>8, <3>1
    <3>3. ~(j < k)
      <4>1. SUFFICES ASSUME j < k PROVE FALSE
        OBVIOUS
      <4>2. j + 1 <= k /\ j + 1 \in 1 .. n + 1 /\ k \in 1 .. n + 1
        BY <1>8, <3>1, <4>1
      <4>3. B(j + 1) <= B(k)
        BY <1>4, <4>2
      <4> HIDE DEF B
      <4>4. QED
        BY <1>9, <3>1, <3>2, <4>3
    <3>4. ~(k < j)
      <4>1. SUFFICES ASSUME k < j PROVE FALSE
        OBVIOUS
      <4>2. k + 1 <= j /\ k + 1 \in 1 .. n + 1 /\ j \in 1 .. n + 1
        BY <1>8, <3>1, <4>1
      <4>3. B(k + 1) <= B(j)
        BY <1>4, <4>2
      <4> HIDE DEF B
      <4>4. QED
        BY <1>8, <3>1, <3>2, <4>3
    <3>5. QED
      BY <1>8, <3>1, <3>3, <3>4
  <2> HIDE DEF hit
  <2>4. QED
    BY <2>2, <2>3
<1>11. BlockOfByte(blocks, x) = k
  <2>1. BlockOfByte(blocks, x) = IF hit = {} THEN 0 ELSE CHOOSE j \in hit : TRUE
    BY DEF BlockOfByte
  <2> HIDE DEF hit
  <2>2. QED
    BY <1>10, <2>1
<1>12. B(k + 1) = B(k) + blocks[k].size /\ B(k) \in Nat
  <2>1. k \in 1 .. n + 1 /\ k \in Nat \ {0}
    BY <1>8
  <2>2. QED
    BY <1>3, <1>4, <2>1
<1>13. QED
  BY <1>1, <1>8, <1>9, <1>11, <1>12

(* Sequences as long as the blocks. *)
Pieces(c, blocks, n, S) ==
    c \in [1 .. n -> Seq(S)] /\ \A k \in 1 .. n : Len(c[k]) = blocks[k].size

(* The lengths of the copies of the blocks add up to the bounds. *)
LEMMA BufferLengths ==
    ASSUME NEW S, NEW n \in Nat, NEW blocks, NEW c, Pieces(c, blocks, n, S),
           NEW h, Joins(h, c, n)
    PROVE  \A k \in 0 .. n : Len(h[k]) = LowerBound(blocks, k + 1)
<1> DEFINE G == {k \in Nat : k <= n => Len(h[k]) = LowerBound(blocks, k + 1)}
<1>0. /\ LowerBound(blocks, 1) = 0
      /\ \A k \in Nat \ {0} : LowerBound(blocks, k + 1) = LowerBound(blocks, k) + blocks[k].size
  BY LowerBoundSteps
<1>1. 0 \in G
  <2>1. Len(h[0]) = 0
    BY DEF Joins
  <2>2. 0 + 1 = 1
    OBVIOUS
  <2>3. QED
    BY <1>0, <2>1, <2>2
<1>2. ASSUME NEW m \in Nat, m \in G PROVE m + 1 \in G
  <2>1. SUFFICES ASSUME m + 1 <= n PROVE Len(h[m + 1]) = LowerBound(blocks, (m + 1) + 1)
    OBVIOUS
  <2>2. Len(h[m]) = LowerBound(blocks, m + 1) /\ m + 1 \in 1 .. n /\ (m + 1) - 1 = m
        /\ m + 1 \in Nat \ {0}
    BY <1>2, <2>1
  <2>3. Placed(h, c, n, m + 1)
    BY <2>2, JoinPlaces DEF Pieces
  <2>4. Len(h[m + 1]) = Len(h[m]) + blocks[m + 1].size
    BY <2>2, <2>3 DEF Placed, Pieces
  <2>5. LowerBound(blocks, (m + 1) + 1) = LowerBound(blocks, m + 1) + blocks[m + 1].size
    BY <1>0, <2>2
  <2>6. QED
    BY <2>2, <2>4, <2>5
<1> HIDE DEF G
<1>3. Nat \subseteq G
  BY <1>1, <1>2, SetInduction
<1>4. QED
  BY <1>3 DEF G

(* The search for a byte and the copy of the area see the same bytes. *)
SameBytes(memory, label, blocks) ==
    LET area == Filled(label, blocks)
        buffer == ra_mA_get_buffer(memory, area) IN
    /\ Len(buffer) = BytesOf(blocks)
    /\ \A i \in 1 .. BytesOf(blocks) :
          /\ ra_mA_get_byte(memory, area, i - 1) = buffer[i]
          /\ ra_mA_get_block(area, i - 1) \in ToSet(blocks)

(* For any blocks and any memory. *)
LEMMA SameBytesAll ==
    ASSUME NEW memory, NEW label, NEW blocks \in Seq(AnyBlock)
    PROVE  SameBytes(memory, label, blocks)
<1> DEFINE area == Filled(label, blocks)
<1>1. PICK n \in Nat : n = Len(blocks) /\ DOMAIN blocks = 1 .. n
  BY LenProperties
<1>2. \A k \in 1 .. n : blocks[k] \in AnyBlock /\ blocks[k].size \in Nat
  <2>1. \A k \in 1 .. n : blocks[k] \in AnyBlock
    BY <1>1, ElementOfSeq
  <2>2. QED
    BY <2>1 DEF AnyBlock, memory_block_t
<1>3. area.head # "freed" /\ area.blocks = blocks
  BY DEF Filled
<1>4. PICK c : c = Copies(memory, blocks, n)
  OBVIOUS
<1>5. PICK h : Joins(h, c, n) /\ ra_mA_get_buffer(memory, area) = h[n]
  <2>1. PICK h : Joins(h, c, n) /\ CopyAll(memory, blocks) = h[n]
    BY <1>1, <1>4, BufferSteps
  <2>2. ra_mA_get_buffer(memory, area) = CopyAll(memory, blocks)
    BY <1>3 DEF ra_mA_get_buffer, CopyAll
  <2>3. QED
    BY <2>1, <2>2
<1> DEFINE S == {ra_mB_get_byte(memory, blocks[k], i) : k \in 1 .. n, i \in Nat}
<1>6. ASSUME NEW k \in 1 .. n
      PROVE  /\ c[k] \in Seq(S) /\ Len(c[k]) = blocks[k].size
             /\ \A i \in 1 .. blocks[k].size : c[k][i] = ra_mB_get_byte(memory, blocks[k], i - 1)
  <2>1. PICK z \in Nat : z = blocks[k].size
    BY <1>2
  <2>2. c[k] = [i \in 1 .. z |-> ra_mB_get_byte(memory, blocks[k], i - 1)]
    BY <1>4, <2>1 DEF ra_mB_get_buffer, Copies
  <2>3. c[k] \in [1 .. z -> S]
    <3>1. \A i \in 1 .. z : i - 1 \in Nat
      OBVIOUS
    <3>2. \A i \in 1 .. z : ra_mB_get_byte(memory, blocks[k], i - 1) \in S
      BY <3>1
    <3> HIDE DEF S
    <3>3. QED
      BY <2>2, <3>2
  <2> HIDE DEF S
  <2>4. c[k] \in Seq(S)
    BY <2>3, SeqDef
  <2>5. Len(c[k]) = z
    BY <2>2, <2>4, LenProperties
  <2>6. QED
    BY <2>1, <2>2, <2>4, <2>5
<1> HIDE DEF S
<1>7. c \in [1 .. n -> Seq(S)]
  BY <1>4, <1>6 DEF Copies
<1>8. \A k \in 0 .. n : Len(h[k]) = LowerBound(blocks, k + 1)
  <2>1. Pieces(c, blocks, n, S)
    BY <1>6, <1>7 DEF Pieces
  <2>2. QED
    BY <1>5, <2>1, BufferLengths
<1>9. Len(h[n]) = BytesOf(blocks)
  BY <1>1, <1>8 DEF BytesOf
<1>10. BytesOf(blocks) \in Nat
  <2>1. \A b \in AnyBlock : b.size \in Nat
    BY DEF AnyBlock, memory_block_t
  <2>2. PICK b \in AnyBlock : TRUE
    <3>1. [offset |-> 0, size |-> 0] \in AnyBlock
      BY DEF AnyBlock, memory_block_t
    <3>2. QED
      BY <3>1
  <2>3. QED
    BY <2>1, <2>2, BytesOfAppend
<1>11. ASSUME NEW i \in 1 .. BytesOf(blocks)
       PROVE  /\ ra_mA_get_byte(memory, area, i - 1) = h[n][i]
              /\ ra_mA_get_block(area, i - 1) \in ToSet(blocks)
  <2>1. i - 1 \in Nat /\ i - 1 < BytesOf(blocks) /\ i \in Nat
    BY <1>10
  <2>2. PICK k \in 1 .. n :
              /\ BlockOfByte(blocks, i - 1) = k
              /\ LowerBound(blocks, k) \in Nat
              /\ LowerBound(blocks, k) <= i - 1
              /\ i - 1 < LowerBound(blocks, k) + blocks[k].size
    BY <1>1, <2>1, BlockFound
  <2>3. PICK b \in Nat, z \in Nat : b = LowerBound(blocks, k) /\ z = blocks[k].size
    BY <1>2, <2>2
  <2>4. PICK j \in 1 .. z : i = b + j
    <3>1. i - b \in 1 .. z /\ i = b + (i - b)
      BY <2>1, <2>2, <2>3
    <3>2. QED
      BY <3>1
  <2>5. k # 0 /\ ~NeverFilled(area)
    <3>1. blocks # <<>>
      BY <1>1
    <3>2. area.head = "live"
      BY <3>1 DEF Filled
    <3>3. QED
      BY <3>2 DEF NeverFilled
  <2>6. ra_mA_get_byte(memory, area, i - 1) = ra_mB_get_byte(memory, blocks[k], (i - 1) - b)
    BY <1>3, <2>2, <2>3, <2>5 DEF ra_mA_get_byte
  <2>7. ra_mA_get_block(area, i - 1) = blocks[k]
    BY <1>3, <2>2, <2>5 DEF ra_mA_get_block
  <2>8. Placed(h, c, n, k)
    BY <1>5, <1>7, JoinPlaces
  <2>9. Len(h[k - 1]) = b
    <3>1. k - 1 \in 0 .. n /\ (k - 1) + 1 = k
      OBVIOUS
    <3>2. QED
      BY <1>8, <2>3, <3>1
  <2>10. h[n][b + j] = c[k][j] /\ c[k][j] = ra_mB_get_byte(memory, blocks[k], j - 1)
    BY <1>6, <2>3, <2>8, <2>9 DEF Placed
  <2>11. (i - 1) - b = j - 1
    BY <2>4
  <2>12. blocks[k] \in ToSet(blocks)
    BY <1>1 DEF ToSet
  <2>13. QED
    BY <2>4, <2>6, <2>7, <2>10, <2>11, <2>12
<1> HIDE DEF area
<1>12. QED
  BY <1>5, <1>9, <1>11 DEF SameBytes, area
=============================================================================
