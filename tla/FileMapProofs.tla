--------------------------- MODULE FileMapProofs ---------------------------
(***************************************************************************)
(* Proofs about module FileMap, for every load order and every sequence of *)
(* marks and clears.  First: populateFileMap gives every path the source   *)
(* the game would load it from.  The order of the archives is the result   *)
(* of three nested folds, so the module begins with what a fold does step  *)
(* by step.  Then: a patching run never loses a native source, and         *)
(* clearGeneratedFiles returns the map to what populateFileMap made of it. *)
(***************************************************************************)
EXTENDS FileMap, FiniteSetTheorems, TLAPS

-----------------------------------------------------------------------------
(* Folds.  The library's induction theorems cannot be used here, so what a *)
(* fold does step by step is derived from the finiteness of an interval.   *)

LEMMA Induct ==
  ASSUME NEW S, 0 \in S, \A n \in Nat : n \in S => n + 1 \in S,
         NEW n \in Nat
  PROVE  n \in S
<1> SUFFICES ASSUME n \notin S PROVE FALSE
  OBVIOUS
<1> DEFINE A == {k \in 0 .. n : k \in S}
           B == A \ {0}
           f == [k \in A |-> k + 1]
<1>1. IsFiniteSet(0 .. n)
  BY FS_Interval
<1>2. IsFiniteSet(A) /\ 0 \in A
  BY <1>1, FS_Subset
<1>3. IsFiniteSet(B) /\ Cardinality(B) = Cardinality(A) - 1
  BY <1>2, FS_RemoveElement
<1>4. f \in [A -> B]
  <2> SUFFICES ASSUME NEW k \in A PROVE k + 1 \in B
    OBVIOUS
  <2>1. k # n /\ k \in Nat
    OBVIOUS
  <2> QED BY <2>1
<1>5. Cardinality(B) < Cardinality(A)
  BY <1>2, <1>3, FS_CardinalityType
<1>6. PICK x \in A, y \in A : x # y /\ f[x] = f[y]
  <2> HIDE DEF f, A, B
  <2> QED BY <1>2, <1>3, <1>4, <1>5, FS_PigeonHole
<1> QED BY <1>6

\* Max of a set of numbers up to n.
LEMMA MaxOf ==
  ASSUME NEW n \in Nat, NEW s \in SUBSET (1 .. n), s # {}
  PROVE  Max(s) \in s /\ \A k \in s : k <= Max(s)
<1>0. PICK x0 \in s : TRUE
  OBVIOUS
<1> DEFINE Q == {k \in Nat : (\E x \in s : \A y \in s : x >= y) \/ (\A x \in s : x <= n - k)}
<1>1. 0 \in Q
  OBVIOUS
<1>2. \A k \in Nat : k \in Q => k + 1 \in Q
  <2> SUFFICES ASSUME NEW k \in Nat, \A x \in s : x <= n - k,
                      ~ \E x \in s : \A y \in s : x >= y
               PROVE  \A x \in s : x <= n - (k + 1)
    OBVIOUS
  <2> QED OBVIOUS
<1>3. n \in Q
  <2> HIDE DEF Q
  <2> QED BY <1>1, <1>2, Induct
<1>4. \E x \in s : \A y \in s : x >= y
  BY <1>0, <1>3
<1> QED BY <1>4 DEF Max

LEMMA MinOf ==
  ASSUME NEW s \in SUBSET Nat, s # {}
  PROVE  Min(s) \in s /\ \A k \in s : Min(s) <= k
<1>0. PICK x0 \in s : TRUE
  OBVIOUS
<1> DEFINE Q == {k \in Nat : (\E x \in s : \A y \in s : x <= y) \/ (\A x \in s : x >= k)}
<1>1. 0 \in Q
  OBVIOUS
<1>2. \A k \in Nat : k \in Q => k + 1 \in Q
  OBVIOUS
<1>3. x0 + 1 \in Q
  <2> HIDE DEF Q
  <2> QED BY <1>1, <1>2, Induct
<1>4. \E x \in s : \A y \in s : x <= y
  BY <1>0, <1>3
<1> QED BY <1>4 DEF Min

\* A fold over the first n numbers is well defined: h is its value on sets.
Folds(base, step, n, h) ==
  \A s \in SUBSET (1 .. n) :
    h[s] = IF s = {} THEN base ELSE step[<<Max(s), h[s \ {Max(s)}]>>]

LEMMA FoldFurther ==
  ASSUME NEW T, NEW base \in T, NEW n \in Nat, NEW step \in [(1 .. n) \X T -> T],
         NEW k \in Nat, k + 1 <= n,
         NEW h \in [SUBSET (1 .. k) -> T], Folds(base, step, k, h)
  PROVE  \E g \in [SUBSET (1 .. k + 1) -> T] : Folds(base, step, k + 1, g)
<1> DEFINE m == k + 1
           g == [s \in SUBSET (1 .. m) |-> IF m \in s THEN step[<<m, h[s \ {m}]>>] ELSE h[s]]
<1>1. m \in 1 .. n /\ m \in Nat /\ SUBSET (1 .. k) \subseteq SUBSET (1 .. m)
  OBVIOUS
<1>2. ASSUME NEW s \in SUBSET (1 .. m), m \in s
      PROVE  s \ {m} \in SUBSET (1 .. k) /\ Max(s) = m
  <2>1. Max(s) \in s /\ \A i \in s : i <= Max(s)
    <3> HIDE DEF m
    <3> QED BY <1>1, <1>2, MaxOf
  <2>2. Max(s) = m
    <3>1. Max(s) \in 1 .. m /\ m <= Max(s)
      BY <2>1, <1>2
    <3> QED BY <3>1
  <2>3. s \ {m} \subseteq 1 .. k
    OBVIOUS
  <2> QED BY <2>2, <2>3
<1>3. ASSUME NEW s \in SUBSET (1 .. m), m \notin s
      PROVE  s \in SUBSET (1 .. k) /\ s \ {Max(s)} \in SUBSET (1 .. k)
  <2>1. s \subseteq 1 .. k
    BY <1>3
  <2> QED BY <2>1
<1>4. \A s \in SUBSET (1 .. m) : m \in s => g[s] = step[<<m, h[s \ {m}]>>]
  OBVIOUS
<1>5. \A s \in SUBSET (1 .. m) : m \notin s => g[s] = h[s]
  OBVIOUS
<1>6. g \in [SUBSET (1 .. m) -> T]
  <2> SUFFICES ASSUME NEW s \in SUBSET (1 .. m) PROVE g[s] \in T
    OBVIOUS
  <2> HIDE DEF g, m
  <2>1. CASE m \in s
    <3>1. h[s \ {m}] \in T /\ <<m, h[s \ {m}]>> \in (1 .. n) \X T
      BY <1>1, <1>2, <2>1
    <3> QED BY <1>4, <2>1, <3>1
  <2>2. CASE m \notin s
    BY <1>3, <1>5, <2>2
  <2> QED BY <2>1, <2>2
<1>7. Folds(base, step, m, g)
  <2> SUFFICES ASSUME NEW s \in SUBSET (1 .. m)
               PROVE  g[s] = IF s = {} THEN base ELSE step[<<Max(s), g[s \ {Max(s)}]>>]
    BY DEF Folds
  <2> HIDE DEF g, m
  <2>1. CASE m \in s
    <3>1. Max(s) = m /\ s \ {m} \in SUBSET (1 .. m) /\ m \notin s \ {m} /\ s # {}
      BY <1>1, <1>2, <2>1
    <3> QED BY <1>4, <1>5, <2>1, <3>1
  <2>2. CASE m \notin s
    <3>1. s \ {Max(s)} \in SUBSET (1 .. m) /\ m \notin s \ {Max(s)}
      BY <2>2
    <3> QED BY <1>3, <1>5, <2>2, <3>1 DEF Folds
  <2> QED BY <2>1, <2>2
<1> HIDE DEF g
<1> QED BY <1>6, <1>7

HasFold(T, base, step, n) ==
  \E h \in [SUBSET (1 .. n) -> T] : Folds(base, step, n, h)

LEMMA FoldExists ==
  ASSUME NEW T, NEW base \in T, NEW n \in Nat, NEW step \in [(1 .. n) \X T -> T]
  PROVE  HasFold(T, base, step, n)
<1> DEFINE Q == {k \in Nat : k <= n => HasFold(T, base, step, k)}
<1>1. 0 \in Q
  <2> DEFINE h == [s \in SUBSET (1 .. 0) |-> base]
  <2>1. h \in [SUBSET (1 .. 0) -> T] /\ Folds(base, step, 0, h)
    BY DEF Folds
  <2> QED BY <2>1 DEF HasFold
<1>2. ASSUME NEW k \in Nat, k \in Q PROVE k + 1 \in Q
  <2> SUFFICES ASSUME k + 1 <= n
               PROVE  HasFold(T, base, step, k + 1)
    OBVIOUS
  <2>1. k <= n /\ HasFold(T, base, step, k)
    BY <1>2
  <2>2. PICK h \in [SUBSET (1 .. k) -> T] : Folds(base, step, k, h)
    BY <2>1 DEF HasFold
  <2> QED BY <2>2, FoldFurther DEF HasFold
<1>3. n \in Q
  <2> HIDE DEF Q
  <2> QED BY <1>1, <1>2, Induct
<1> QED BY <1>3

\* Of all that has been folded, the values on 1 .. k are what a loop computes.
LEMMA FirstNumbers ==
  ASSUME NEW n \in Nat, NEW k \in 1 .. n
  PROVE  /\ 1 .. k \in SUBSET (1 .. n) /\ 1 .. k # {} /\ k - 1 \in 0 .. n
         /\ Max(1 .. k) = k /\ (1 .. k) \ {Max(1 .. k)} = 1 .. k - 1
<1>1. 1 .. k \in SUBSET (1 .. n) /\ 1 .. k # {} /\ k \in 1 .. k /\ (1 .. k) \ {k} = 1 .. k - 1
  OBVIOUS
<1>2. Max(1 .. k) \in 1 .. k /\ \A i \in 1 .. k : i <= Max(1 .. k)
  BY <1>1, MaxOf, Zenon
<1>3. Max(1 .. k) = k
  BY <1>1, <1>2
<1> QED BY <1>1, <1>3

\* So are the values an operator gives that agrees with step on T.
Folding(T, base, step, n, f) ==
  /\ f[{}] = base
  /\ \A s \in SUBSET (1 .. n) :
       s # {} /\ f[s \ {Max(s)}] \in T => f[s] = step[<<Max(s), f[s \ {Max(s)}]>>]

Runs(T, base, step, n, last) ==
  \E g \in [0 .. n -> T] :
    g[0] = base /\ g[n] = last /\ \A k \in 1 .. n : g[k] = step[<<k, g[k - 1]>>]

LEMMA FoldSteps ==
  ASSUME NEW T, NEW base \in T, NEW n \in Nat, NEW step \in [(1 .. n) \X T -> T],
         NEW f, Folding(T, base, step, n, f)
  PROVE  Runs(T, base, step, n, f[1 .. n])
<1>1. f[1 .. 0] = base
  BY DEF Folding
<1>2. ASSUME NEW k \in 1 .. n, f[1 .. k - 1] \in T
      PROVE  f[1 .. k] = step[<<k, f[1 .. k - 1]>>] /\ f[1 .. k] \in T
  <2>1. /\ 1 .. k \in SUBSET (1 .. n) /\ 1 .. k # {}
        /\ Max(1 .. k) = k /\ (1 .. k) \ {Max(1 .. k)} = 1 .. k - 1
    BY FirstNumbers
  <2>2. f[1 .. k] = step[<<k, f[1 .. k - 1]>>]
    BY <1>2, <2>1 DEF Folding
  <2> QED BY <1>2, <2>2
<1> DEFINE Q == {k \in Nat : k <= n => f[1 .. k] \in T}
<1>3. 0 \in Q
  BY <1>1
<1>4. ASSUME NEW k \in Nat, k \in Q PROVE k + 1 \in Q
  <2> SUFFICES ASSUME k + 1 <= n PROVE f[1 .. k + 1] \in T
    OBVIOUS
  <2>1. f[1 .. (k + 1) - 1] \in T /\ k + 1 \in 1 .. n
    BY <1>4
  <2> DEFINE j == k + 1
  <2> HIDE DEF j
  <2> QED BY <1>2, <2>1 DEF j
<1>5. ASSUME NEW k \in 0 .. n PROVE f[1 .. k] \in T
  <2>1. k \in Q
    <3> HIDE DEF Q
    <3> QED BY <1>3, <1>4, Induct
  <2> QED BY <2>1
<1> DEFINE g == [k \in 0 .. n |-> f[1 .. k]]
<1>6. g \in [0 .. n -> T] /\ g[0] = base /\ g[n] = f[1 .. n]
  BY <1>1, <1>5
<1>7. \A k \in 1 .. n : g[k] = step[<<k, g[k - 1]>>]
  BY <1>2, <1>5
<1> HIDE DEF g
<1> QED BY <1>6, <1>7 DEF Runs

-----------------------------------------------------------------------------
(* The load order of the archives.                                         *)

LEMMA ConcatSteps ==
  ASSUME NEW A, NEW s \in Seq(A), NEW t \in Seq(A)
  PROVE  \E g \in [0 .. Len(t) -> Seq(A)] :
           /\ g[0] = s /\ g[Len(t)] = concatenateVectorsWithoutDuplicates(s, t)
           /\ \A k \in 1 .. Len(t) : g[k] = addUniqueElement(g[k - 1], t[k])
<1> DEFINE n == Len(t)
           Is(h) == h = [ss \in SUBSET DOMAIN t |->
                           IF ss = {} THEN s ELSE addUniqueElement(h[ss \ {Max(ss)}], t[Max(ss)])]
           step == [x \in (1 .. n) \X Seq(A) |-> addUniqueElement(x[2], t[x[1]])]
           f == CHOOSE x : Is(x)
<1>1. n \in Nat /\ DOMAIN t = 1 .. n /\ step \in [(1 .. n) \X Seq(A) -> Seq(A)]
  BY DEF addUniqueElement
<1>2. PICK h \in [SUBSET (1 .. n) -> Seq(A)] : Folds(s, step, n, h)
  <2> HIDE DEF step, n
  <2> QED BY <1>1, FoldExists DEF HasFold
<1>3. \A ss \in SUBSET (1 .. n) : ss # {} => Max(ss) \in 1 .. n
  BY <1>1, MaxOf
<1>4. Is(h)
  BY <1>1, <1>2, <1>3 DEF Folds
<1>5. concatenateVectorsWithoutDuplicates(s, t) = f[DOMAIN t]
  BY DEF concatenateVectorsWithoutDuplicates, FoldLeft, MapThenFoldSet
<1>6. Is(f)
  BY <1>4
<1>7. Folding(Seq(A), s, step, n, f)
  <2> HIDE DEF f
  <2> QED BY <1>1, <1>3, <1>6 DEF Folding
<1>8. Runs(Seq(A), s, step, n, f[1 .. n])
  <2> HIDE DEF step, n, f
  <2> QED BY <1>1, <1>7, FoldSteps
<1>9. PICK g \in [0 .. n -> Seq(A)] :
         g[0] = s /\ g[n] = f[1 .. n] /\ \A k \in 1 .. n : g[k] = step[<<k, g[k - 1]>>]
  BY <1>8 DEF Runs
<1>10. g[n] = concatenateVectorsWithoutDuplicates(s, t)
  BY <1>1, <1>5, <1>9
<1>11. ASSUME NEW k \in 1 .. n PROVE g[k] = addUniqueElement(g[k - 1], t[k])
  <2>1. k - 1 \in 0 .. n
    BY <1>1
  <2>2. g[k - 1] \in Seq(A)
    BY <2>1
  <2> QED BY <1>9, <2>2
<1> HIDE DEF f, step
<1> QED BY <1>9, <1>10, <1>11

\* What holds at 0 and is kept by each of n steps holds at n.
LEMMA InductTo ==
  ASSUME NEW n \in Nat, NEW S, 0 \in S, \A k \in 0 .. n - 1 : k \in S => k + 1 \in S
  PROVE  n \in S
<1> DEFINE Q == {k \in Nat : k <= n => k \in S}
<1>1. 0 \in Q
  OBVIOUS
<1>2. \A k \in Nat : k \in Q => k + 1 \in Q
  OBVIOUS
<1>3. n \in Q
  <2> HIDE DEF Q
  <2>1. QED  BY <1>1, <1>2, Induct
<1>4. QED  BY <1>3

\* r is s and then the first k elements of t that are not in s, each once.
Joined(s, t, k, r) ==
  /\ Len(s) <= Len(r) /\ \A i \in 1 .. Len(s) : r[i] = s[i]
  /\ \A b : Contains(r, b) <=> Contains(s, b) \/ \E m \in 1 .. k : t[m] = b
  /\ \A j \in Len(s) + 1 .. Len(r) : ~ Contains(s, r[j])
  /\ \A j \in Len(s) + 1 .. Len(r) : \A i \in Len(s) + 1 .. j - 1 :
       \E m \in 1 .. k : t[m] = r[i] /\ \A l \in 1 .. k : t[l] = r[j] => m < l

LEMMA JoinNext ==
  ASSUME NEW A, NEW s \in Seq(A), NEW t \in Seq(A), NEW k \in 0 .. Len(t) - 1,
         NEW r \in Seq(A), Joined(s, t, k, r)
  PROVE  Joined(s, t, k + 1, addUniqueElement(r, t[k + 1]))
<1> DEFINE b == t[k + 1]
<1>1. k \in Nat /\ 1 .. k + 1 = (1 .. k) \cup {k + 1} /\ b \in A /\ Len(s) \in Nat /\ Len(r) \in Nat
  OBVIOUS
<1>2. CASE Contains(r, b)
  <2>1. addUniqueElement(r, b) = r
    BY <1>2 DEF addUniqueElement
  <2>2. \A c : Contains(r, c) <=> Contains(s, c) \/ \E m \in 1 .. k + 1 : t[m] = c
    BY <1>1, <1>2 DEF Joined
  <2>3. ASSUME NEW j \in Len(s) + 1 .. Len(r), NEW i \in Len(s) + 1 .. j - 1
        PROVE  \E m \in 1 .. k + 1 : t[m] = r[i] /\ \A l \in 1 .. k + 1 : t[l] = r[j] => m < l
    <3>1. PICK m \in 1 .. k : t[m] = r[i] /\ \A l \in 1 .. k : t[l] = r[j] => m < l
      BY DEF Joined
    <3>2. QED  BY <1>1, <3>1
  <2>4. QED  BY <2>1, <2>2, <2>3 DEF Joined
<1>3. CASE ~ Contains(r, b)
  <2> DEFINE q == Append(r, b)
  <2>1. addUniqueElement(r, b) = q
    BY <1>3 DEF addUniqueElement
  <2>2. /\ Len(q) = Len(r) + 1 /\ q[Len(r) + 1] = b
        /\ \A i \in 1 .. Len(r) : q[i] = r[i]
    BY <1>1
  <2> HIDE DEF q
  <2>3. \A c : Contains(q, c) <=> Contains(r, c) \/ c = b
    BY <1>1, <2>2 DEF Contains
  <2>4. \A c : Contains(q, c) <=> Contains(s, c) \/ \E m \in 1 .. k + 1 : t[m] = c
    BY <1>1, <2>3 DEF Joined
  <2>5. Len(s) <= Len(q) /\ \A i \in 1 .. Len(s) : q[i] = s[i]
    BY <1>1, <2>2 DEF Joined
  <2>6. ASSUME NEW j \in Len(s) + 1 .. Len(q) PROVE ~ Contains(s, q[j])
    <3>1. CASE j = Len(r) + 1
      BY <1>3, <2>2, <3>1 DEF Joined
    <3>2. CASE j \in Len(s) + 1 .. Len(r)
      BY <2>2, <3>2 DEF Joined
    <3>3. QED  BY <1>1, <2>2, <3>1, <3>2
  <2>7. ASSUME NEW j \in Len(s) + 1 .. Len(q), NEW i \in Len(s) + 1 .. j - 1
        PROVE  \E m \in 1 .. k + 1 : t[m] = q[i] /\ \A l \in 1 .. k + 1 : t[l] = q[j] => m < l
    <3>1. i \in Len(s) + 1 .. Len(r) /\ q[i] = r[i]
      BY <1>1, <2>2
    <3>2. CASE j = Len(r) + 1
      <4>1. Contains(r, r[i]) /\ ~ Contains(s, r[i])
        BY <1>1, <3>1 DEF Joined, Contains
      <4>2. PICK m \in 1 .. k : t[m] = r[i]
        BY <4>1 DEF Joined
      <4>3. \A l \in 1 .. k : t[l] # b
        BY <1>3 DEF Joined
      <4>4. m \in 1 .. k + 1 /\ t[m] = q[i]
        BY <1>1, <3>1, <4>2
      <4>5. q[j] = b
        BY <2>2, <3>2
      <4>6. \A l \in 1 .. k + 1 : t[l] = q[j] => m < l
        BY <1>1, <4>3, <4>5
      <4>7. QED  BY <4>4, <4>6
    <3>3. CASE j \in Len(s) + 1 .. Len(r)
      <4>1. PICK m \in 1 .. k : t[m] = r[i] /\ \A l \in 1 .. k : t[l] = r[j] => m < l
        BY <3>3 DEF Joined
      <4>2. q[j] = r[j]
        BY <1>1, <2>2, <3>3
      <4>3. m \in 1 .. k + 1 /\ t[m] = q[i]
        BY <1>1, <3>1, <4>1
      <4>4. \A l \in 1 .. k + 1 : t[l] = q[j] => m < l
        BY <1>1, <4>1, <4>2
      <4>5. QED  BY <4>3, <4>4
    <3>4. Len(s) \in Nat /\ Len(r) \in Nat /\ Len(q) = Len(r) + 1
      BY <1>1, <2>2
    <3>5. j = Len(r) + 1 \/ j \in Len(s) + 1 .. Len(r)
      BY <3>4
    <3>6. QED  BY <3>2, <3>3, <3>5, Zenon
  <2>8. QED  BY <2>1, <2>4, <2>5, <2>6, <2>7 DEF Joined
<1>4. QED  BY <1>2, <1>3

\* Two lists joined: each element once, where it comes first.
LEMMA ConcatJoins ==
  ASSUME NEW A, NEW s \in Seq(A), NEW t \in Seq(A)
  PROVE  /\ concatenateVectorsWithoutDuplicates(s, t) \in Seq(A)
         /\ Joined(s, t, Len(t), concatenateVectorsWithoutDuplicates(s, t))
<1> DEFINE n == Len(t)
<1>1. PICK g \in [0 .. n -> Seq(A)] :
        /\ g[0] = s /\ g[n] = concatenateVectorsWithoutDuplicates(s, t)
        /\ \A k \in 1 .. n : g[k] = addUniqueElement(g[k - 1], t[k])
  BY ConcatSteps
<1> DEFINE S == {k \in 0 .. n : Joined(s, t, k, g[k])}
<1>2. n \in Nat /\ 0 \in 0 .. n /\ n \in 0 .. n
  OBVIOUS
<1>3. 0 \in S
  BY <1>1, <1>2 DEF Joined
<1>4. ASSUME NEW k \in 0 .. n - 1, k \in S PROVE k + 1 \in S
  <2>1. /\ k \in 0 .. n /\ g[k] \in Seq(A) /\ Joined(s, t, k, g[k])
        /\ k + 1 \in 1 .. n /\ k + 1 \in 0 .. n /\ (k + 1) - 1 = k
    BY <1>2, <1>4
  <2>2. g[k + 1] = addUniqueElement(g[k], t[k + 1])
    BY <1>1, <2>1
  <2>3. QED  BY <2>1, <2>2, JoinNext
<1>5. n \in S
  <2> HIDE DEF S, n
  <2>1. QED  BY <1>2, <1>3, <1>4, InductTo
<1>6. QED  BY <1>1, <1>2, <1>5

\* What the program reads before it builds the map.
InputsTyped ==
  /\ iniValue \in [ToSet(Fields) -> [ToSet(INIs) -> Lists]]
  /\ names \in [ToSet(Plugins) -> [ToSet(Dir) -> NameKinds]]

LEMMA IniListTyped ==
  ASSUME InputsTyped, NEW f \in DOMAIN Fields
  PROVE  IniList(Fields[f]) \in Seq(BSAs)
<1> DEFINE field == Fields[f]
           inis == {i \in DOMAIN INIs : iniValue[field][INIs[i]] # <<>>}
<1>1. field \in ToSet(Fields)
  BY DEF ToSet
<1>2. inis # {} => Max(inis) \in DOMAIN INIs
  <2>1. DOMAIN INIs = 1 .. Len(INIs) /\ Len(INIs) \in Nat
    BY FileMapAssumption
  <2>2. inis \in SUBSET (1 .. Len(INIs))
    BY <2>1
  <2> HIDE DEF inis
  <2>3. QED  BY <2>1, <2>2, MaxOf, Zenon
<1>3. \A i \in DOMAIN INIs : iniValue[field][INIs[i]] \in Seq(BSAs)
  BY <1>1, FileMapAssumption DEF InputsTyped, ToSet
<1>4. IniList(field) = IF inis = {} THEN <<>> ELSE iniValue[field][INIs[Max(inis)]]
  BY DEF IniList
<1>5. <<>> \in Seq(BSAs)
  OBVIOUS
<1> HIDE DEF inis
<1>6. QED  BY <1>2, <1>3, <1>4, <1>5

\* r holds the archives of the first k fields, in the order they are listed.
Listed(k, r) ==
  /\ \A b : Contains(r, b) <=> \E f \in 1 .. k : Contains(IniList(Fields[f]), b)
  /\ \A j \in 1 .. Len(r) : \A i \in 1 .. j - 1 :
       \E x \in IniPlaces(r[i]) : x[1] <= k /\ \A y \in IniPlaces(r[j]) : Before(x, y)

\* A place is a field and a place in its list.
LEMMA Places ==
  ASSUME NEW b
  PROVE  /\ \A f \in DOMAIN Fields : \A m \in DOMAIN IniList(Fields[f]) :
              IniList(Fields[f])[m] = b => <<f, m>> \in IniPlaces(b)
         /\ \A y \in IniPlaces(b) :
              \E f \in DOMAIN Fields : \E m \in DOMAIN IniList(Fields[f]) :
                y = <<f, m>> /\ IniList(Fields[f])[m] = b
  BY DEF IniPlaces, PlacesIn

LEMMA ListNext ==
  ASSUME InputsTyped, NEW k \in 0 .. Len(Fields) - 1, NEW r \in Seq(BSAs), Listed(k, r),
         NEW q \in Seq(BSAs),
         Joined(r, IniList(Fields[k + 1]), Len(IniList(Fields[k + 1])), q)
  PROVE  Listed(k + 1, q)
<1> DEFINE list == IniList(Fields[k + 1])
<1>1. /\ k \in Nat /\ 1 .. k + 1 = (1 .. k) \cup {k + 1}
      /\ DOMAIN Fields = 1 .. Len(Fields) /\ Len(Fields) \in Nat /\ k + 1 \in DOMAIN Fields
      /\ Len(r) \in Nat /\ Len(q) \in Nat
  BY FileMapAssumption
<1>2. list \in Seq(BSAs) /\ DOMAIN list = 1 .. Len(list) /\ Len(list) \in Nat
  BY <1>1, IniListTyped
<1>3. \A b : Contains(q, b) <=> \E f \in 1 .. k + 1 : Contains(IniList(Fields[f]), b)
  <2>1. \A b : Contains(q, b) <=> Contains(r, b) \/ Contains(list, b)
    <3>1. \A b : Contains(list, b) <=> \E m \in 1 .. Len(list) : list[m] = b
      BY DEF Contains
    <3>2. QED  BY <3>1 DEF Joined
  <2>2. \A b : Contains(list, b) <=> Contains(IniList(Fields[k + 1]), b)
    OBVIOUS
  <2> HIDE DEF list
  <2>3. QED  BY <1>1, <2>1, <2>2 DEF Listed
<1>4. \A b : ~ Contains(r, b) => \A y \in IniPlaces(b) : y[1] \in Nat /\ y[2] \in Nat /\ y[1] > k
  <2> SUFFICES ASSUME NEW b, ~ Contains(r, b), NEW y \in IniPlaces(b)
               PROVE  y[1] \in Nat /\ y[2] \in Nat /\ y[1] > k
    OBVIOUS
  <2>1. PICK f \in DOMAIN Fields : \E m \in DOMAIN IniList(Fields[f]) :
          y = <<f, m>> /\ IniList(Fields[f])[m] = b
    BY Places
  <2>6. PICK m \in DOMAIN IniList(Fields[f]) : y = <<f, m>> /\ IniList(Fields[f])[m] = b
    BY <2>1
  <2>2. m \in 1 .. Len(IniList(Fields[f])) /\ Len(IniList(Fields[f])) \in Nat
    BY IniListTyped
  <2>3. Contains(IniList(Fields[f]), b)
    BY <2>6, <2>2 DEF Contains
  <2>4. f \notin 1 .. k
    BY <2>3 DEF Listed
  <2>5. QED  BY <1>1, <2>6, <2>2, <2>4
<1>5. ASSUME NEW j \in 1 .. Len(q), NEW i \in 1 .. j - 1
      PROVE  \E x \in IniPlaces(q[i]) : x[1] <= k + 1 /\ \A y \in IniPlaces(q[j]) : Before(x, y)
  <2>1. CASE j <= Len(r)
    <3>1. q[i] = r[i] /\ q[j] = r[j] /\ j \in 1 .. Len(r)
      BY <1>1, <2>1 DEF Joined
    <3>2. PICK x \in IniPlaces(r[i]) : x[1] <= k /\ \A y \in IniPlaces(r[j]) : Before(x, y)
      BY <3>1 DEF Listed
    <3>3. x[1] \in Nat
      BY <1>1, Places
    <3>4. x[1] <= k + 1
      BY <1>1, <3>2, <3>3
    <3>5. QED  BY <3>1, <3>2, <3>4
  <2>2. CASE j > Len(r) /\ i <= Len(r)
    <3>1. q[i] = r[i] /\ ~ Contains(r, q[j]) /\ Contains(r, r[i])
      BY <1>1, <2>2 DEF Joined, Contains
    <3>2. PICK f \in 1 .. k : Contains(IniList(Fields[f]), r[i])
      BY <3>1 DEF Listed
    <3>3. PICK m \in 1 .. Len(IniList(Fields[f])) : IniList(Fields[f])[m] = r[i]
      BY <3>2 DEF Contains
    <3>4. f \in DOMAIN Fields /\ m \in DOMAIN IniList(Fields[f])
      BY <1>1, IniListTyped
    <3>5. <<f, m>> \in IniPlaces(q[i])
      BY <3>1, <3>3, <3>4, Places
    <3>6. \A y \in IniPlaces(q[j]) : Before(<<f, m>>, y)
      BY <1>1, <1>4, <3>1 DEF Before
    <3>7. <<f, m>>[1] <= k + 1
      BY <1>1
    <3>8. QED  BY <3>5, <3>6, <3>7
  <2>3. CASE j > Len(r) /\ i > Len(r)
    <3>1. j \in Len(r) + 1 .. Len(q) /\ i \in Len(r) + 1 .. j - 1
      BY <1>1, <2>3
    <3>2. PICK m \in 1 .. Len(list) : list[m] = q[i] /\ \A l \in 1 .. Len(list) : list[l] = q[j] => m < l
      BY <3>1 DEF Joined
    <3>3. <<k + 1, m>> \in IniPlaces(q[i])
      BY <1>1, <1>2, <3>2, Places
    <3>4. ~ Contains(r, q[j])
      BY <3>1 DEF Joined
    <3>5. ASSUME NEW y \in IniPlaces(q[j]) PROVE Before(<<k + 1, m>>, y)
      <4>0. PICK f \in DOMAIN Fields : \E l \in DOMAIN IniList(Fields[f]) :
              y = <<f, l>> /\ IniList(Fields[f])[l] = q[j]
        BY Places
      <4>1. PICK l \in DOMAIN IniList(Fields[f]) : y = <<f, l>> /\ IniList(Fields[f])[l] = q[j]
        BY <4>0
      <4>2. f > k /\ f \in Nat
        BY <1>1, <1>4, <3>4, <4>1
      <4>3. CASE f = k + 1
        BY <1>2, <3>2, <4>1, <4>3 DEF Before
      <4>4. CASE f > k + 1
        BY <4>1, <4>4 DEF Before
      <4>5. QED  BY <1>1, <4>2, <4>3, <4>4
    <3>6. <<k + 1, m>>[1] <= k + 1
      BY <1>1
    <3>7. QED  BY <3>3, <3>5, <3>6
  <2>4. QED  BY <1>1, <2>1, <2>2, <2>3
<1>6. QED  BY <1>3, <1>5 DEF Listed

LEMMA ListSteps ==
  ASSUME InputsTyped
  PROVE  \E g \in [0 .. Len(Fields) -> Seq(BSAs)] :
           /\ g[0] = <<>> /\ g[Len(Fields)] = getBSAFilesFromINIs
           /\ \A k \in 1 .. Len(Fields) :
                g[k] = concatenateVectorsWithoutDuplicates(g[k - 1], IniList(Fields[k]))
<1> DEFINE n == Len(Fields)
           T == Seq(BSAs)
           Is(h) == h = [ss \in SUBSET DOMAIN Fields |->
                           IF ss = {} THEN <<>>
                           ELSE concatenateVectorsWithoutDuplicates(h[ss \ {Max(ss)}],
                                                                    IniList(Fields[Max(ss)]))]
           step == [x \in (1 .. n) \X T |->
                      concatenateVectorsWithoutDuplicates(x[2], IniList(Fields[x[1]]))]
           f == CHOOSE x : Is(x)
<1>0. n \in Nat /\ DOMAIN Fields = 1 .. n /\ <<>> \in T
  BY FileMapAssumption
<1>1. step \in [(1 .. n) \X T -> T]
  <2>1. \A k \in 1 .. n, r \in T : concatenateVectorsWithoutDuplicates(r, IniList(Fields[k])) \in T
    BY <1>0, IniListTyped, ConcatJoins
  <2>2. QED  BY <2>1
<1>2. PICK h \in [SUBSET (1 .. n) -> T] : Folds(<<>>, step, n, h)
  <2> HIDE DEF step, n, T
  <2>1. QED  BY <1>0, <1>1, FoldExists DEF HasFold
<1>3. \A ss \in SUBSET (1 .. n) : ss # {} => Max(ss) \in 1 .. n
  BY <1>0, MaxOf
<1>4. Is(h)
  BY <1>0, <1>2, <1>3 DEF Folds
<1>5. getBSAFilesFromINIs = f[DOMAIN Fields]
  BY DEF getBSAFilesFromINIs, FoldLeft, MapThenFoldSet
<1>6. Is(f)
  BY <1>4
<1>7. Folding(T, <<>>, step, n, f)
  <2> HIDE DEF f
  <2>1. QED  BY <1>0, <1>3, <1>6 DEF Folding
<1>8. Runs(T, <<>>, step, n, f[1 .. n])
  <2> HIDE DEF step, n, f, T
  <2>1. QED  BY <1>0, <1>1, <1>7, FoldSteps
<1>9. PICK g \in [0 .. n -> T] :
         g[0] = <<>> /\ g[n] = f[1 .. n] /\ \A k \in 1 .. n : g[k] = step[<<k, g[k - 1]>>]
  BY <1>8 DEF Runs
<1>10. g[n] = getBSAFilesFromINIs
  BY <1>0, <1>5, <1>9
<1>11. ASSUME NEW k \in 1 .. n
       PROVE  g[k] = concatenateVectorsWithoutDuplicates(g[k - 1], IniList(Fields[k]))
  <2>1. k - 1 \in 0 .. n
    BY <1>0
  <2>2. g[k - 1] \in T
    BY <2>1
  <2>3. QED  BY <1>9, <2>2
<1> HIDE DEF f, step
<1>12. QED  BY <1>9, <1>10, <1>11

(* The archives the INI files name, in the order they name them first.     *)
LEMMA AllListed ==
  ASSUME InputsTyped
  PROVE  getBSAFilesFromINIs \in Seq(BSAs) /\ Listed(Len(Fields), getBSAFilesFromINIs)
<1> DEFINE n == Len(Fields)
<1>1. PICK g \in [0 .. n -> Seq(BSAs)] :
        /\ g[0] = <<>> /\ g[n] = getBSAFilesFromINIs
        /\ \A k \in 1 .. n : g[k] = concatenateVectorsWithoutDuplicates(g[k - 1], IniList(Fields[k]))
  BY ListSteps
<1> DEFINE S == {k \in 0 .. n : Listed(k, g[k])}
<1>2. n \in Nat /\ 0 \in 0 .. n /\ n \in 0 .. n /\ DOMAIN Fields = 1 .. n
  BY FileMapAssumption
<1>3. 0 \in S
  BY <1>1, <1>2 DEF Listed, Contains
<1>4. ASSUME NEW k \in 0 .. n - 1, k \in S PROVE k + 1 \in S
  <2>1. /\ k \in 0 .. n /\ g[k] \in Seq(BSAs) /\ Listed(k, g[k])
        /\ k + 1 \in 1 .. n /\ k + 1 \in 0 .. n /\ (k + 1) - 1 = k
    BY <1>2, <1>4
  <2>2. g[k + 1] = concatenateVectorsWithoutDuplicates(g[k], IniList(Fields[k + 1]))
    BY <1>1, <2>1
  <2>3. IniList(Fields[k + 1]) \in Seq(BSAs)
    BY <1>2, <2>1, IniListTyped
  <2>4. g[k + 1] \in Seq(BSAs) /\ Joined(g[k], IniList(Fields[k + 1]), Len(IniList(Fields[k + 1])), g[k + 1])
    BY <2>1, <2>2, <2>3, ConcatJoins
  <2>5. QED  BY <2>1, <2>4, ListNext
<1>5. n \in S
  <2> HIDE DEF S, n
  <2>1. QED  BY <1>2, <1>3, <1>4, InductTo
<1>6. QED  BY <1>1, <1>2, <1>5

\* r holds those of the first k archives of the directory that plugin loads.
Found(plugin, k, r) ==
  /\ \A b : Contains(r, b) <=> \E m \in 1 .. k : Dir[m] = b /\ names[plugin][b] # "other"
  /\ \A j \in 1 .. Len(r) : \A i \in 1 .. j - 1 :
       \/ names[plugin][r[i]] = "exact"
       \/ /\ names[plugin][r[j]] # "exact"
          /\ \E l \in 1 .. k : \E m \in 1 .. l - 1 : Dir[m] = r[i] /\ Dir[l] = r[j]

LEMMA NameTyped ==
  ASSUME InputsTyped, NEW plugin \in ToSet(Plugins), NEW i \in DOMAIN Dir
  PROVE  names[plugin][Dir[i]] \in NameKinds
<1>1. Dir[i] \in ToSet(Dir)
  BY DEF ToSet
<1>2. QED  BY <1>1 DEF InputsTyped

LEMMA FoundNext ==
  ASSUME InputsTyped, NEW plugin \in ToSet(Plugins), NEW k \in 0 .. Len(Dir) - 1,
         NEW r \in Seq(BSAs), Found(plugin, k, r)
  PROVE  Found(plugin, k + 1, FindNext(plugin, r, Dir[k + 1]))
<1> DEFINE b == Dir[k + 1]
           name == names[plugin][b]
<1>1. /\ k \in Nat /\ 1 .. k + 1 = (1 .. k) \cup {k + 1} /\ k + 1 \in DOMAIN Dir
      /\ b \in BSAs /\ Len(r) \in Nat
  BY FileMapAssumption
<1>2. name \in {"exact", "suffixed", "other"}
  BY <1>1, NameTyped DEF NameKinds
<1>3. CASE name = "exact"
  <2> DEFINE q == <<b>> \o r
  <2>1. FindNext(plugin, r, b) = q
    BY <1>3 DEF FindNext
  <2>2. Len(q) = Len(r) + 1 /\ q[1] = b /\ \A i \in 1 .. Len(r) : q[i + 1] = r[i]
    BY <1>1
  <2> HIDE DEF q
  <2>3. \A i \in 1 .. Len(q) : i = 1 \/ (i - 1 \in 1 .. Len(r) /\ q[i] = r[i - 1])
    <3> SUFFICES ASSUME NEW i \in 1 .. Len(q), i # 1
                 PROVE  i - 1 \in 1 .. Len(r) /\ q[i] = r[i - 1]
      OBVIOUS
    <3>1. i - 1 \in 1 .. Len(r) /\ (i - 1) + 1 = i
      BY <1>1, <2>2
    <3>2. QED  BY <2>2, <3>1
  <2>4. \A c : Contains(q, c) <=> Contains(r, c) \/ c = b
    <3> SUFFICES ASSUME NEW c PROVE Contains(q, c) <=> Contains(r, c) \/ c = b
      OBVIOUS
    <3>1. ASSUME NEW i \in 1 .. Len(r), r[i] = c PROVE Contains(q, c)
      <4>1. i + 1 \in 1 .. Len(q) /\ q[i + 1] = c
        BY <1>1, <2>2, <3>1
      <4>2. QED  BY <4>1 DEF Contains
    <3>2. Contains(q, b)
      BY <1>1, <2>2 DEF Contains
    <3>3. ASSUME NEW i \in 1 .. Len(q), q[i] = c PROVE Contains(r, c) \/ c = b
      BY <2>2, <2>3, <3>3 DEF Contains
    <3>4. QED  BY <3>1, <3>2, <3>3 DEF Contains
  <2>5. \A c : Contains(q, c) <=> \E m \in 1 .. k + 1 : Dir[m] = c /\ names[plugin][c] # "other"
    BY <1>1, <1>3, <2>4 DEF Found
  <2>6. ASSUME NEW j \in 1 .. Len(q), NEW i \in 1 .. j - 1
        PROVE  \/ names[plugin][q[i]] = "exact"
               \/ /\ names[plugin][q[j]] # "exact"
                  /\ \E l \in 1 .. k + 1 : \E m \in 1 .. l - 1 : Dir[m] = q[i] /\ Dir[l] = q[j]
    <3>1. CASE i = 1
      BY <1>3, <2>2, <3>1
    <3>2. CASE i # 1
      <4>0. /\ i \in 1 .. Len(q) /\ j # 1
            /\ i - 1 \in 1 .. (j - 1) - 1 /\ j - 1 \in 1 .. Len(r)
        <5>1. Len(r) \in Nat /\ Len(q) = Len(r) + 1
          BY <1>1, <2>2
        <5>2. QED  BY <3>2, <5>1
      <4>1. /\ i - 1 \in 1 .. (j - 1) - 1 /\ j - 1 \in 1 .. Len(r)
            /\ q[i] = r[i - 1] /\ q[j] = r[j - 1]
        BY <2>3, <3>2, <4>0
      <4> DEFINE i0 == i - 1
                 j0 == j - 1
      <4>2. i0 \in 1 .. j0 - 1 /\ j0 \in 1 .. Len(r) /\ q[i] = r[i0] /\ q[j] = r[j0]
        BY <4>1
      <4> HIDE DEF i0, j0
      <4>3. QED  BY <1>1, <4>2 DEF Found
    <3>3. QED  BY <3>1, <3>2
  <2>7. QED  BY <2>1, <2>5, <2>6 DEF Found
<1>4. CASE name = "suffixed"
  <2> DEFINE q == Append(r, b)
  <2>1. FindNext(plugin, r, b) = q
    BY <1>4 DEF FindNext
  <2>2. Len(q) = Len(r) + 1 /\ q[Len(r) + 1] = b /\ \A i \in 1 .. Len(r) : q[i] = r[i]
    BY <1>1
  <2> HIDE DEF q
  <2>3. \A c : Contains(q, c) <=> Contains(r, c) \/ c = b
    BY <1>1, <2>2 DEF Contains
  <2>4. \A c : Contains(q, c) <=> \E m \in 1 .. k + 1 : Dir[m] = c /\ names[plugin][c] # "other"
    BY <1>1, <1>4, <2>3 DEF Found
  <2>5. ASSUME NEW j \in 1 .. Len(q), NEW i \in 1 .. j - 1
        PROVE  \/ names[plugin][q[i]] = "exact"
               \/ /\ names[plugin][q[j]] # "exact"
                  /\ \E l \in 1 .. k + 1 : \E m \in 1 .. l - 1 : Dir[m] = q[i] /\ Dir[l] = q[j]
    <3>1. i \in 1 .. Len(r) /\ q[i] = r[i]
      BY <1>1, <2>2
    <3>2. CASE j = Len(r) + 1
      <4>1. Contains(r, r[i])
        BY <3>1 DEF Contains
      <4>2. PICK m \in 1 .. k : Dir[m] = r[i]
        BY <4>1 DEF Found
      <4>3. m \in 1 .. (k + 1) - 1 /\ k + 1 \in 1 .. k + 1
        BY <1>1
      <4>4. q[j] = b /\ names[plugin][q[j]] # "exact"
        BY <1>4, <2>2, <3>2
      <4>5. QED  BY <3>1, <4>2, <4>3, <4>4
    <3>3. CASE j # Len(r) + 1
      <4>1. j \in 1 .. Len(r) /\ q[j] = r[j]
        BY <1>1, <2>2, <3>3
      <4>2. QED  BY <1>1, <3>1, <4>1 DEF Found
    <3>4. QED  BY <3>2, <3>3
  <2>6. QED  BY <2>1, <2>4, <2>5 DEF Found
<1>5. CASE name = "other"
  <2>1. FindNext(plugin, r, b) = r
    BY <1>5 DEF FindNext
  <2>2. \A c : Contains(r, c) <=> \E m \in 1 .. k + 1 : Dir[m] = c /\ names[plugin][c] # "other"
    BY <1>1, <1>5 DEF Found
  <2>3. 1 .. k \subseteq 1 .. k + 1
    BY <1>1
  <2>4. QED  BY <2>1, <2>2, <2>3 DEF Found
<1>6. QED  BY <1>2, <1>3, <1>4, <1>5

LEMMA FindSteps ==
  ASSUME InputsTyped, NEW plugin \in ToSet(Plugins)
  PROVE  \E g \in [0 .. Len(Dir) -> Seq(BSAs)] :
           /\ g[0] = <<>> /\ g[Len(Dir)] = findBSAFilesFromPluginName(plugin)
           /\ \A k \in 1 .. Len(Dir) : g[k] = FindNext(plugin, g[k - 1], Dir[k])
<1> DEFINE n == Len(Dir)
           T == Seq(BSAs)
           Is(h) == h = [ss \in SUBSET DOMAIN Dir |->
                           IF ss = {} THEN <<>>
                           ELSE FindNext(plugin, h[ss \ {Max(ss)}], Dir[Max(ss)])]
           step == [x \in (1 .. n) \X T |-> FindNext(plugin, x[2], Dir[x[1]])]
           f == CHOOSE x : Is(x)
<1>0. n \in Nat /\ DOMAIN Dir = 1 .. n /\ <<>> \in T
  BY FileMapAssumption
<1>1. step \in [(1 .. n) \X T -> T]
  <2>1. \A k \in 1 .. n, r \in T : FindNext(plugin, r, Dir[k]) \in T
    <3> SUFFICES ASSUME NEW k \in 1 .. n, NEW r \in T PROVE FindNext(plugin, r, Dir[k]) \in T
      OBVIOUS
    <3>1. Dir[k] \in BSAs
      BY <1>0, FileMapAssumption
    <3>2. names[plugin][Dir[k]] \in {"exact", "suffixed", "other"}
      BY <1>0, NameTyped DEF NameKinds
    <3>3. QED  BY <3>1, <3>2 DEF FindNext
  <2>2. QED  BY <2>1
<1>2. PICK h \in [SUBSET (1 .. n) -> T] : Folds(<<>>, step, n, h)
  <2> HIDE DEF step, n, T
  <2>1. QED  BY <1>0, <1>1, FoldExists DEF HasFold
<1>3. \A ss \in SUBSET (1 .. n) : ss # {} => Max(ss) \in 1 .. n
  BY <1>0, MaxOf
<1>4. Is(h)
  BY <1>0, <1>2, <1>3 DEF Folds
<1>5. findBSAFilesFromPluginName(plugin) = f[DOMAIN Dir]
  BY DEF findBSAFilesFromPluginName, FoldLeft, MapThenFoldSet
<1>6. Is(f)
  BY <1>4
<1>7. Folding(T, <<>>, step, n, f)
  <2> HIDE DEF f
  <2>1. QED  BY <1>0, <1>3, <1>6 DEF Folding
<1>8. Runs(T, <<>>, step, n, f[1 .. n])
  <2> HIDE DEF step, n, f, T
  <2>1. QED  BY <1>0, <1>1, <1>7, FoldSteps
<1>9. PICK g \in [0 .. n -> T] :
         g[0] = <<>> /\ g[n] = f[1 .. n] /\ \A k \in 1 .. n : g[k] = step[<<k, g[k - 1]>>]
  BY <1>8 DEF Runs
<1>10. g[n] = findBSAFilesFromPluginName(plugin)
  BY <1>0, <1>5, <1>9
<1>11. ASSUME NEW k \in 1 .. n PROVE g[k] = FindNext(plugin, g[k - 1], Dir[k])
  <2>1. k - 1 \in 0 .. n
    BY <1>0
  <2>2. g[k - 1] \in T
    BY <2>1
  <2>3. QED  BY <1>9, <2>2
<1> HIDE DEF f, step
<1>12. QED  BY <1>9, <1>10, <1>11

(* The archives one plugin loads: its own, then the others by directory.   *)
LEMMA AllFound ==
  ASSUME InputsTyped, NEW plugin \in ToSet(Plugins)
  PROVE  /\ findBSAFilesFromPluginName(plugin) \in Seq(BSAs)
         /\ Found(plugin, Len(Dir), findBSAFilesFromPluginName(plugin))
<1> DEFINE n == Len(Dir)
<1>1. PICK g \in [0 .. n -> Seq(BSAs)] :
        /\ g[0] = <<>> /\ g[n] = findBSAFilesFromPluginName(plugin)
        /\ \A k \in 1 .. n : g[k] = FindNext(plugin, g[k - 1], Dir[k])
  BY FindSteps
<1> DEFINE S == {k \in 0 .. n : Found(plugin, k, g[k])}
<1>2. n \in Nat /\ 0 \in 0 .. n /\ n \in 0 .. n
  BY FileMapAssumption
<1>3. 0 \in S
  BY <1>1, <1>2 DEF Found, Contains
<1>4. ASSUME NEW k \in 0 .. n - 1, k \in S PROVE k + 1 \in S
  <2>1. /\ k \in 0 .. n /\ g[k] \in Seq(BSAs) /\ Found(plugin, k, g[k])
        /\ k + 1 \in 1 .. n /\ k + 1 \in 0 .. n /\ (k + 1) - 1 = k
    BY <1>2, <1>4
  <2>2. g[k + 1] = FindNext(plugin, g[k], Dir[k + 1])
    BY <1>1, <2>1
  <2>3. QED  BY <2>1, <2>2, FoundNext
<1>5. n \in S
  <2> HIDE DEF S, n
  <2>1. QED  BY <1>2, <1>3, <1>4, InductTo
<1>6. QED  BY <1>1, <1>2, <1>5

LEMMA OrderSteps ==
  ASSUME InputsTyped
  PROVE  \E g \in [0 .. Len(Plugins) -> Seq(BSAs)] :
           /\ g[0] = getBSAFilesFromINIs /\ g[Len(Plugins)] = getBSALoadOrder
           /\ \A k \in 1 .. Len(Plugins) : g[k] = concatenateVectorsWithoutDuplicates(g[k - 1], findBSAFilesFromPluginName(Plugins[k]))
<1> DEFINE n == Len(Plugins)
           T == Seq(BSAs)
           Is(h) == h = [ss \in SUBSET DOMAIN Plugins |->
                           IF ss = {} THEN getBSAFilesFromINIs
                           ELSE concatenateVectorsWithoutDuplicates(h[ss \ {Max(ss)}], findBSAFilesFromPluginName(Plugins[Max(ss)]))]
           step == [x \in (1 .. n) \X T |-> concatenateVectorsWithoutDuplicates(x[2], findBSAFilesFromPluginName(Plugins[x[1]]))]
           f == CHOOSE x : Is(x)
<1>0. n \in Nat /\ DOMAIN Plugins = 1 .. n /\ getBSAFilesFromINIs \in T
  BY FileMapAssumption, AllListed
<1>1. step \in [(1 .. n) \X T -> T]
  <2>1. \A k \in 1 .. n, r \in T : concatenateVectorsWithoutDuplicates(r, findBSAFilesFromPluginName(Plugins[k])) \in T
    BY <1>0, AllFound, ConcatJoins DEF ToSet
  <2>2. QED  BY <2>1
<1>2. PICK h \in [SUBSET (1 .. n) -> T] : Folds(getBSAFilesFromINIs, step, n, h)
  <2> HIDE DEF step, n, T
  <2>1. QED  BY <1>0, <1>1, FoldExists DEF HasFold
<1>3. \A ss \in SUBSET (1 .. n) : ss # {} => Max(ss) \in 1 .. n
  BY <1>0, MaxOf
<1>4. Is(h)
  BY <1>0, <1>2, <1>3 DEF Folds
<1>5. getBSALoadOrder = f[DOMAIN Plugins]
  BY DEF getBSALoadOrder, FoldLeft, MapThenFoldSet
<1>6. Is(f)
  BY <1>4
<1>7. Folding(T, getBSAFilesFromINIs, step, n, f)
  <2> HIDE DEF f
  <2>1. QED  BY <1>0, <1>3, <1>6 DEF Folding
<1>8. Runs(T, getBSAFilesFromINIs, step, n, f[1 .. n])
  <2> HIDE DEF step, n, f, T
  <2>1. QED  BY <1>0, <1>1, <1>7, FoldSteps
<1>9. PICK g \in [0 .. n -> T] :
         g[0] = getBSAFilesFromINIs /\ g[n] = f[1 .. n] /\ \A k \in 1 .. n : g[k] = step[<<k, g[k - 1]>>]
  BY <1>8 DEF Runs
<1>10. g[n] = getBSALoadOrder
  BY <1>0, <1>5, <1>9
<1>11. ASSUME NEW k \in 1 .. n PROVE g[k] = concatenateVectorsWithoutDuplicates(g[k - 1], findBSAFilesFromPluginName(Plugins[k]))
  <2>1. k - 1 \in 0 .. n
    BY <1>0
  <2>2. g[k - 1] \in T
    BY <2>1
  <2>3. QED  BY <1>9, <2>2
<1> HIDE DEF f, step
<1>12. QED  BY <1>9, <1>10, <1>11

\* r holds the archives of the INI files and of the first k plugins, each after
\* those it overrides.
Ordered(k, r) ==
  /\ \A b : Contains(r, b) <=> \/ Contains(getBSAFilesFromINIs, b)
                               \/ \E l \in 1 .. k : l \in Loaders(b)
  /\ \A j \in 1 .. Len(r) : \A i \in 1 .. j - 1 : Overrides(r[j], r[i])

LEMMA ListedHasPlace ==
  ASSUME InputsTyped, NEW b
  PROVE  Contains(getBSAFilesFromINIs, b) <=> IniPlaces(b) # {}
<1>1. DOMAIN Fields = 1 .. Len(Fields)
  BY FileMapAssumption
<1>2. Contains(getBSAFilesFromINIs, b) <=> \E f \in DOMAIN Fields : Contains(IniList(Fields[f]), b)
  BY <1>1, AllListed DEF Listed
<1>3. ASSUME NEW f \in DOMAIN Fields
      PROVE  Contains(IniList(Fields[f]), b)
               <=> \E m \in DOMAIN IniList(Fields[f]) : IniList(Fields[f])[m] = b
  <2>1. IniList(Fields[f]) \in Seq(BSAs)
    BY IniListTyped
  <2>2. DOMAIN IniList(Fields[f]) = 1 .. Len(IniList(Fields[f]))
    BY <2>1
  <2>3. QED  BY <2>2 DEF Contains
<1>4. (\E f \in DOMAIN Fields : \E m \in DOMAIN IniList(Fields[f]) : IniList(Fields[f])[m] = b)
        <=> IniPlaces(b) # {}
  <2>1. ASSUME NEW f \in DOMAIN Fields, NEW m \in DOMAIN IniList(Fields[f]),
               IniList(Fields[f])[m] = b
        PROVE  IniPlaces(b) # {}
    BY <2>1, Places
  <2>2. ASSUME NEW y \in IniPlaces(b)
        PROVE  \E f \in DOMAIN Fields : \E m \in DOMAIN IniList(Fields[f]) :
                 IniList(Fields[f])[m] = b
    BY Places
  <2>3. QED  BY <2>1, <2>2
<1>5. QED  BY <1>2, <1>3, <1>4

LEMMA LoadersOf ==
  ASSUME NEW b
  PROVE  /\ DOMAIN Plugins = 1 .. Len(Plugins) /\ Len(Plugins) \in Nat
         /\ Loaders(b) \in SUBSET Nat
         /\ Loaders(b) # {} =>
              Min(Loaders(b)) \in Loaders(b) /\ \A l \in Loaders(b) : Min(Loaders(b)) <= l
<1>1. DOMAIN Plugins = 1 .. Len(Plugins) /\ Len(Plugins) \in Nat
  BY FileMapAssumption
<1>2. Loaders(b) \in SUBSET Nat
  BY <1>1 DEF Loaders
<1>3. QED  BY <1>1, <1>2, MinOf

LEMMA DirPlaceOf ==
  ASSUME NEW m \in DOMAIN Dir
  PROVE  DirPlace(Dir[m]) = m
  BY FileMapAssumption DEF DirPlace

LEMMA OrderNext ==
  ASSUME InputsTyped, NEW k \in 0 .. Len(Plugins) - 1, NEW r \in Seq(BSAs), Ordered(k, r),
         NEW t \in Seq(BSAs), Found(Plugins[k + 1], Len(Dir), t),
         NEW q \in Seq(BSAs), Joined(r, t, Len(t), q)
  PROVE  Ordered(k + 1, q)
<1>1. /\ k \in Nat /\ 1 .. k + 1 = (1 .. k) \cup {k + 1} /\ k + 1 \in DOMAIN Plugins
      /\ Len(r) \in Nat /\ Len(q) \in Nat /\ Len(t) \in Nat
      /\ DOMAIN Dir = 1 .. Len(Dir) /\ Len(Dir) \in Nat
  BY FileMapAssumption
<1>2. \A b : Contains(t, b) <=> k + 1 \in Loaders(b)
  BY <1>1 DEF Found, Loaders, Contains
<1>3. \A b : Contains(q, b) <=> Contains(r, b) \/ Contains(t, b)
  BY DEF Joined, Contains
<1>4. \A b : Contains(q, b) <=> \/ Contains(getBSAFilesFromINIs, b)
                                \/ \E l \in 1 .. k + 1 : l \in Loaders(b)
  BY <1>1, <1>2, <1>3 DEF Ordered
<1>5. ASSUME NEW b, Contains(q, b), ~ Contains(r, b)
      PROVE  IniPlaces(b) = {} /\ Min(Loaders(b)) = k + 1 /\ Contains(t, b)
  <2>1. IniPlaces(b) = {} /\ \A l \in 1 .. k : l \notin Loaders(b)
    BY <1>5, ListedHasPlace DEF Ordered
  <2>2. k + 1 \in Loaders(b) /\ Contains(t, b)
    BY <1>2, <1>3, <1>5
  <2>3. Min(Loaders(b)) \in Loaders(b) /\ Min(Loaders(b)) <= k + 1
    BY <2>2, LoadersOf
  <2>4. Min(Loaders(b)) \in 1 .. Len(Plugins)
    BY <2>3, LoadersOf DEF Loaders
  <2>5. QED  BY <1>1, <2>1, <2>2, <2>3, <2>4
<1>6. ASSUME NEW b, Contains(r, b), IniPlaces(b) = {}
      PROVE  Min(Loaders(b)) \in Nat /\ Min(Loaders(b)) <= k
  <2>1. PICK l \in 1 .. k : l \in Loaders(b)
    BY <1>6, ListedHasPlace DEF Ordered
  <2>2. Min(Loaders(b)) \in Nat /\ Min(Loaders(b)) <= l
    BY <2>1, LoadersOf
  <2>3. QED  BY <1>1, <2>1, <2>2
<1>7. ASSUME NEW j \in 1 .. Len(q), NEW i \in 1 .. j - 1
      PROVE  Overrides(q[j], q[i])
  <2>1. CASE j <= Len(r)
    <3>1. q[i] = r[i] /\ q[j] = r[j] /\ j \in 1 .. Len(r)
      BY <1>1, <2>1 DEF Joined
    <3>2. QED  BY <3>1 DEF Ordered
  <2>2. CASE j > Len(r) /\ i <= Len(r)
    <3>1. q[i] = r[i] /\ ~ Contains(r, q[j]) /\ Contains(r, q[i]) /\ Contains(q, q[j])
      BY <1>1, <2>2 DEF Joined, Contains
    <3>2. IniPlaces(q[j]) = {} /\ Min(Loaders(q[j])) = k + 1
      BY <1>5, <3>1
    <3>3. CASE IniPlaces(q[i]) # {}
      BY <3>2, <3>3 DEF Overrides
    <3>4. CASE IniPlaces(q[i]) = {}
      <4>1. Min(Loaders(q[i])) \in Nat /\ Min(Loaders(q[i])) <= k
        BY <1>6, <3>1, <3>4
      <4>2. Min(Loaders(q[j])) > Min(Loaders(q[i]))
        BY <1>1, <3>2, <4>1
      <4>3. QED  BY <3>2, <3>4, <4>2 DEF Overrides
    <3>5. QED  BY <3>3, <3>4
  <2>3. CASE j > Len(r) /\ i > Len(r)
    <3>1. j \in Len(r) + 1 .. Len(q) /\ i \in Len(r) + 1 .. j - 1 /\ i \in Len(r) + 1 .. Len(q)
      BY <1>1, <2>3
    <3>2. /\ ~ Contains(r, q[j]) /\ Contains(q, q[j])
          /\ ~ Contains(r, q[i]) /\ Contains(q, q[i])
      BY <1>1, <3>1 DEF Joined, Contains
    <3>3. /\ IniPlaces(q[i]) = {} /\ Min(Loaders(q[i])) = k + 1
          /\ IniPlaces(q[j]) = {} /\ Min(Loaders(q[j])) = k + 1 /\ Contains(t, q[j])
      BY <1>5, <3>2
    <3>4. PICK m \in 1 .. Len(t) : t[m] = q[i] /\ \A l \in 1 .. Len(t) : t[l] = q[j] => m < l
      BY <3>1 DEF Joined
    <3>5. PICK l \in 1 .. Len(t) : t[l] = q[j] /\ m < l
      BY <3>3, <3>4 DEF Contains
    <3>6. m \in 1 .. l - 1
      BY <1>1, <3>5
    <3>7. \/ names[Plugins[k + 1]][q[i]] = "exact"
          \/ /\ names[Plugins[k + 1]][q[j]] # "exact"
             /\ \E y \in 1 .. Len(Dir) : \E x \in 1 .. y - 1 : Dir[x] = q[i] /\ Dir[y] = q[j]
      BY <3>4, <3>5, <3>6 DEF Found
    <3>8. ASSUME NEW y \in 1 .. Len(Dir), NEW x \in 1 .. y - 1, Dir[x] = q[i], Dir[y] = q[j]
          PROVE  DirPlace(q[j]) > DirPlace(q[i])
      <4>1. x \in DOMAIN Dir /\ y \in DOMAIN Dir /\ y > x
        BY <1>1
      <4>2. QED  BY <3>8, <4>1, DirPlaceOf
    <3>9. \/ names[Plugins[k + 1]][q[i]] = "exact"
          \/ names[Plugins[k + 1]][q[j]] # "exact" /\ DirPlace(q[j]) > DirPlace(q[i])
      BY <3>7, <3>8
    <3>10. QED  BY <3>3, <3>9 DEF Overrides
  <2>4. QED  BY <1>1, <2>1, <2>2, <2>3
<1>8. QED  BY <1>4, <1>7 DEF Ordered

(* The load order holds the archives that are loaded, each after those it  *)
(* overrides.                                                              *)
LEMMA AllOrdered ==
  ASSUME InputsTyped
  PROVE  /\ getBSALoadOrder \in Seq(BSAs)
         /\ \A b : Contains(getBSALoadOrder, b) <=> Loaded(b)
         /\ \A j \in 1 .. Len(getBSALoadOrder) : \A i \in 1 .. j - 1 :
              Overrides(getBSALoadOrder[j], getBSALoadOrder[i])
<1> DEFINE n == Len(Plugins)
           found(k) == findBSAFilesFromPluginName(Plugins[k])
<1>1. PICK g \in [0 .. n -> Seq(BSAs)] :
        /\ g[0] = getBSAFilesFromINIs /\ g[n] = getBSALoadOrder
        /\ \A k \in 1 .. n : g[k] = concatenateVectorsWithoutDuplicates(g[k - 1], found(k))
  BY OrderSteps
<1> DEFINE S == {k \in 0 .. n : Ordered(k, g[k])}
<1>2. n \in Nat /\ 0 \in 0 .. n /\ n \in 0 .. n /\ DOMAIN Plugins = 1 .. n
  BY FileMapAssumption
<1>3. 0 \in S
  <2> DEFINE ini == getBSAFilesFromINIs
  <2>1. \A j \in 1 .. Len(ini) : \A i \in 1 .. j - 1 :
          \E x \in IniPlaces(ini[i]) : \A y \in IniPlaces(ini[j]) : Before(x, y)
    BY AllListed DEF Listed
  <2>2. \A j \in 1 .. Len(ini) : \A i \in 1 .. j - 1 : Overrides(ini[j], ini[i])
    BY <2>1 DEF Overrides
  <2>3. QED  BY <1>1, <1>2, <2>2 DEF Ordered
<1>4. ASSUME NEW k \in 0 .. n - 1, k \in S PROVE k + 1 \in S
  <2>1. /\ k \in 0 .. n /\ g[k] \in Seq(BSAs) /\ Ordered(k, g[k])
        /\ k + 1 \in 1 .. n /\ k + 1 \in 0 .. n /\ (k + 1) - 1 = k
    BY <1>2, <1>4
  <2>2. g[k + 1] = concatenateVectorsWithoutDuplicates(g[k], found(k + 1))
    BY <1>1, <2>1
  <2>3. Plugins[k + 1] \in ToSet(Plugins)
    BY <1>2, <2>1 DEF ToSet
  <2>4. found(k + 1) \in Seq(BSAs) /\ Found(Plugins[k + 1], Len(Dir), found(k + 1))
    BY <2>3, AllFound
  <2>5. g[k + 1] \in Seq(BSAs) /\ Joined(g[k], found(k + 1), Len(found(k + 1)), g[k + 1])
    BY <2>1, <2>2, <2>4, ConcatJoins
  <2>6. Ordered(k + 1, g[k + 1])
    BY <2>1, <2>4, <2>5, OrderNext
  <2>7. QED  BY <2>1, <2>6
<1>5. Ordered(n, g[n])
  <2>1. n \in S
    <3> HIDE DEF S, n
    <3>1. QED  BY <1>2, <1>3, <1>4, InductTo
  <2>2. QED  BY <2>1
<1>6. ASSUME NEW b PROVE Contains(getBSALoadOrder, b) <=> Loaded(b)
  <2>1. Contains(getBSALoadOrder, b) <=> IniPlaces(b) # {} \/ \E l \in 1 .. n : l \in Loaders(b)
    BY <1>1, <1>5, ListedHasPlace DEF Ordered
  <2>2. Loaders(b) \subseteq 1 .. n
    BY <1>2 DEF Loaders
  <2>3. QED  BY <2>1, <2>2 DEF Loaded
<1>7. QED  BY <1>1, <1>2, <1>5, <1>6 DEF Ordered

-----------------------------------------------------------------------------
(* populateFileMap.                                                        *)

\* An order in which the archives may be entered, and what is in the map m
\* after the first n of them.
OrderOf(order) ==
  /\ order \in Seq(BSAs)
  /\ \A b : Contains(order, b) <=> Loaded(b)
  /\ \A j \in 1 .. Len(order) : \A i \in 1 .. j - 1 : Overrides(order[j], order[i])

HoldsAt(order, i, p) == order[i] \notin Broken /\ p \in Held[order[i]]

Entered(order, n, m) ==
  /\ \A p : p \in DOMAIN m <=> \E i \in 1 .. n : HoldsAt(order, i, p)
  /\ \A p \in DOMAIN m :
       \E i \in 1 .. n : /\ HoldsAt(order, i, p) /\ m[p] = Entry(order[i], FALSE)
                         /\ \A j \in i + 1 .. n : ~ HoldsAt(order, j, p)

Left(order, n) ==
  /\ Len(toAdd) = Len(order) - n
  /\ \A i \in 1 .. Len(toAdd) : toAdd[i] = order[n + i]

SourceInv ==
  /\ InputsTyped /\ TypeOK /\ WinningSource
  /\ mapPc = "BSAs" =>
       \E order : /\ OrderOf(order)
                  /\ \E n \in 0 .. Len(order) : Left(order, n) /\ Entered(order, n, fileMap)

LEMMA InitSources == Init => SourceInv
  BY DEF Init, SourceInv, InputsTyped, TypeOK, WinningSource, IsMap, NoFiles

\* Where an archive stands depends on what was read at the start alone.
LEMMA InputsKept ==
  ASSUME InputsTyped, UNCHANGED inputVars
  PROVE  /\ InputsTyped'
         /\ \A b : Loaded(b)' <=> Loaded(b)
         /\ \A a, b : Overrides(b, a)' <=> Overrides(b, a)
         /\ \A b, p : Wins(b, p)' <=> Wins(b, p)
<1>1. iniValue' = iniValue /\ names' = names
  BY DEF inputVars
<1>2. \A field : IniList(field)' = IniList(field)
  BY <1>1 DEF IniList
<1>3. \A b : IniPlaces(b)' = IniPlaces(b)
  BY <1>2 DEF IniPlaces, PlacesIn
<1>4. \A b : Loaders(b)' = Loaders(b)
  BY <1>1 DEF Loaders
<1>5. InputsTyped'
  BY <1>1 DEF InputsTyped
<1>6. \A b : Loaded(b)' <=> Loaded(b)
  BY <1>3, <1>4 DEF Loaded
<1>7. \A a, b : Overrides(b, a)' <=> Overrides(b, a)
  BY <1>1, <1>3, <1>4 DEF Overrides, DirPlace
<1>8. \A b, p : Wins(b, p)' <=> Wins(b, p)
  <2>1. \A p : Holders(p)' = Holders(p)
    BY <1>6 DEF Holders
  <2>2. QED  BY <1>7, <2>1 DEF Wins
<1>9. QED  BY <1>5, <1>6, <1>7, <1>8

\* The next archive replaces the entries it shares with those before it.
LEMMA EnterNext ==
  ASSUME NEW order \in Seq(BSAs), NEW n \in 0 .. Len(order) - 1, NEW m, Entered(order, n, m),
         NEW q, q = IF order[n + 1] \in Broken THEN m
                    ELSE Put(m, Held[order[n + 1]], Entry(order[n + 1], FALSE))
  PROVE  Entered(order, n + 1, q)
<1> DEFINE b == order[n + 1]
<1>1. n \in Nat /\ 1 .. n + 1 = (1 .. n) \cup {n + 1} /\ b \in BSAs
  OBVIOUS
<1>2. CASE b \in Broken
  <2>1. q = m /\ \A p : ~ HoldsAt(order, n + 1, p)
    BY <1>2 DEF HoldsAt
  <2>2. \A p : p \in DOMAIN m <=> \E i \in 1 .. n + 1 : HoldsAt(order, i, p)
    BY <1>1, <2>1 DEF Entered
  <2>3. ASSUME NEW p \in DOMAIN m
        PROVE  \E i \in 1 .. n + 1 : /\ HoldsAt(order, i, p) /\ m[p] = Entry(order[i], FALSE)
                                     /\ \A j \in i + 1 .. n + 1 : ~ HoldsAt(order, j, p)
    <3>1. PICK i \in 1 .. n : /\ HoldsAt(order, i, p) /\ m[p] = Entry(order[i], FALSE)
                              /\ \A j \in i + 1 .. n : ~ HoldsAt(order, j, p)
      BY DEF Entered
    <3>2. \A j \in i + 1 .. n + 1 : j \in i + 1 .. n \/ j = n + 1
      BY <1>1
    <3>3. QED  BY <1>1, <2>1, <3>1, <3>2
  <2>4. QED  BY <2>1, <2>2, <2>3 DEF Entered
<1>3. CASE b \notin Broken
  <2>1. q = Put(m, Held[b], Entry(b, FALSE)) /\ \A p : HoldsAt(order, n + 1, p) <=> p \in Held[b]
    BY <1>3 DEF HoldsAt
  <2>2. /\ DOMAIN q = Held[b] \cup DOMAIN m
        /\ \A p \in Held[b] : q[p] = Entry(b, FALSE)
        /\ \A p \in DOMAIN m : p \notin Held[b] => q[p] = m[p]
    BY <2>1 DEF Put
  <2> HIDE DEF b
  <2>3. \A p : p \in DOMAIN q <=> \E i \in 1 .. n + 1 : HoldsAt(order, i, p)
    BY <1>1, <2>1, <2>2 DEF Entered
  <2>4. ASSUME NEW p \in DOMAIN q
        PROVE  \E i \in 1 .. n + 1 : /\ HoldsAt(order, i, p) /\ q[p] = Entry(order[i], FALSE)
                                     /\ \A j \in i + 1 .. n + 1 : ~ HoldsAt(order, j, p)
    <3>1. CASE p \in Held[b]
      <4>1. HoldsAt(order, n + 1, p) /\ q[p] = Entry(order[n + 1], FALSE)
        BY <2>1, <2>2, <3>1 DEF b
      <4>2. n + 1 \in 1 .. n + 1 /\ (n + 1) + 1 .. n + 1 = {}
        BY <1>1
      <4>3. QED  BY <4>1, <4>2
    <3>2. CASE p \notin Held[b]
      <4>1. p \in DOMAIN m /\ q[p] = m[p] /\ ~ HoldsAt(order, n + 1, p)
        BY <2>1, <2>2, <3>2
      <4>2. PICK i \in 1 .. n : /\ HoldsAt(order, i, p) /\ m[p] = Entry(order[i], FALSE)
                                /\ \A j \in i + 1 .. n : ~ HoldsAt(order, j, p)
        BY <4>1 DEF Entered
      <4>3. \A j \in i + 1 .. n + 1 : j \in i + 1 .. n \/ j = n + 1
        BY <1>1
      <4>4. QED  BY <1>1, <4>1, <4>2, <4>3
    <3>3. QED  BY <3>1, <3>2
  <2>5. QED  BY <2>3, <2>4 DEF Entered
<1>4. QED  BY <1>2, <1>3

\* When the last archive has been entered, the loose files make the map right.
LEMMA LooseComplete ==
  ASSUME NEW order, OrderOf(order), NEW m, Entered(order, Len(order), m),
         NEW q, q = Put(m, Loose, Entry(NoBSA, FALSE))
  PROVE  /\ DOMAIN q = Loose \cup UNION {Held[b] : b \in {c \in BSAs \ Broken : Loaded(c)}}
         /\ \A p \in DOMAIN q : Wins(q[p].bsaFile, p)
<1> DEFINE n == Len(order)
<1>1. /\ order \in Seq(BSAs) /\ n \in Nat
      /\ \A i \in 1 .. n : order[i] \in BSAs
  BY DEF OrderOf
<1>2. /\ DOMAIN q = Loose \cup DOMAIN m
      /\ \A p \in Loose : q[p] = Entry(NoBSA, FALSE)
      /\ \A p \in DOMAIN m : p \notin Loose => q[p] = m[p]
  BY DEF Put
<1>3. \A b, f : Entry(b, f).bsaFile = b
  BY DEF Entry
<1>4. \A b : Loaded(b) <=> \E i \in 1 .. n : order[i] = b
  BY DEF OrderOf, Contains
<1>5. \A p : p \in DOMAIN m <=> \E b \in BSAs \ Broken : Loaded(b) /\ p \in Held[b]
  BY <1>1, <1>4 DEF Entered, HoldsAt
<1>6. DOMAIN m = UNION {Held[b] : b \in {c \in BSAs \ Broken : Loaded(c)}}
  BY <1>5
<1>7. ASSUME NEW p \in DOMAIN m, p \notin Loose
      PROVE  Wins(q[p].bsaFile, p)
  <2>1. PICK i \in 1 .. n : /\ HoldsAt(order, i, p) /\ m[p] = Entry(order[i], FALSE)
                            /\ \A j \in i + 1 .. n : ~ HoldsAt(order, j, p)
    BY DEF Entered
  <2> DEFINE b == order[i]
  <2>2. b \in BSAs \ Broken /\ Loaded(b) /\ p \in Held[b] /\ q[p].bsaFile = b
    <3>1. b \in BSAs \ Broken /\ p \in Held[b]
      BY <1>1, <2>1 DEF HoldsAt
    <3>2. Loaded(b)
      BY <1>4
    <3>3. q[p] = Entry(b, FALSE)
      BY <1>2, <1>7, <2>1
    <3>4. QED  BY <1>3, <3>1, <3>2, <3>3
  <2>3. ASSUME NEW a \in BSAs \ Broken, Loaded(a), p \in Held[a], a # b
        PROVE  Overrides(b, a)
    <3>1. PICK j \in 1 .. n : order[j] = a
      BY <1>4, <2>3
    <3>2. HoldsAt(order, j, p)
      BY <2>3, <3>1 DEF HoldsAt
    <3>3. j \notin i + 1 .. n /\ j # i
      BY <2>1, <2>3, <3>1, <3>2
    <3>4. j \in 1 .. i - 1
      BY <1>1, <3>3
    <3>5. QED  BY <3>1, <3>4 DEF OrderOf
  <2>4. QED  BY <1>7, <2>2, <2>3 DEF Wins, Holders
<1>8. DOMAIN q = Loose \cup UNION {Held[b] : b \in {c \in BSAs \ Broken : Loaded(c)}}
  BY <1>2, <1>6
<1>9. \A p \in Loose : Wins(q[p].bsaFile, p)
  BY <1>2, <1>3 DEF Wins
<1>10. \A p \in DOMAIN q : p \notin Loose => p \in DOMAIN m
  BY <1>2
<1>11. QED  BY <1>7, <1>8, <1>9, <1>10

\* Marks and their undoing keep the maps well formed.
LEMMA MarksTyped ==
  ASSUME TypeOK, mapPc' = mapPc, toAdd' = toAdd, native' = native,
         (\E p \in Paths : Mark(p)) \/ RestoreMarked
  PROVE  TypeOK'
<1>0. Entry(NoBSA, TRUE) \in Entries
  BY DEF Entry, Entries
<1>1. ASSUME NEW p \in Paths, Mark(p) PROVE IsMap(fileMap') /\ IsMap(restoreMap')
  <2>1. IsMap(fileMap) /\ IsMap(restoreMap)
    BY DEF TypeOK
  <2>2. IsMap(fileMap')
    BY <1>0, <1>1, <2>1 DEF Mark, Put, IsMap
  <2>3. p \in DOMAIN fileMap => fileMap[p] \in Entries
    BY <2>1 DEF IsMap
  <2>4. IsMap(restoreMap')
    BY <1>1, <2>1, <2>3 DEF Mark, Put, IsMap
  <2>5. QED  BY <2>2, <2>4
<1>2. ASSUME RestoreMarked PROVE IsMap(fileMap') /\ IsMap(restoreMap')
  BY <1>2 DEF RestoreMarked, IsMap, TypeOK
<1>3. QED  BY <1>1, <1>2 DEF TypeOK

LEMMA PutTyped ==
  ASSUME NEW m, IsMap(m), NEW ps \in SUBSET Paths, NEW b \in BSAs \cup {NoBSA}
  PROVE  IsMap(Put(m, ps, Entry(b, FALSE)))
  BY DEF Put, IsMap, Entry, Entries

\* The populated map stays right as long as nothing it is made of changes.
LEMMA SourcesKept ==
  ASSUME InputsTyped, WinningSource, UNCHANGED inputVars, mapPc' = mapPc, native' = native
  PROVE  WinningSource'
<1>1. \A b, p : (Loaded(b)' <=> Loaded(b)) /\ (Wins(b, p)' <=> Wins(b, p))
  BY InputsKept
<1>2. {c \in BSAs \ Broken : Loaded(c)'} = {c \in BSAs \ Broken : Loaded(c)}
  BY <1>1
<1>3. QED  BY <1>1, <1>2 DEF WinningSource

LEMMA NextSources == SourceInv /\ [Next]_vars => SourceInv'
<1> SUFFICES ASSUME SourceInv, [Next]_vars PROVE SourceInv'
  OBVIOUS
<1>a. InputsTyped /\ TypeOK /\ WinningSource
  BY DEF SourceInv
<1>b. UNCHANGED inputVars
  BY DEF Next, ClearMaps, addBSAToFileMap, addLooseFilesToMap, addGeneratedFile,
         clearGeneratedFiles, vars
<1>c. /\ InputsTyped'
      /\ \A b : Loaded(b)' <=> Loaded(b)
      /\ \A a, b : Overrides(b, a)' <=> Overrides(b, a)
      /\ \A b, p : Wins(b, p)' <=> Wins(b, p)
  BY <1>a, <1>b, InputsKept
<1>d. \A order : OrderOf(order) => OrderOf(order)'
  BY <1>c DEF OrderOf
<1>1. CASE ClearMaps
  <2>1. /\ mapPc' = "BSAs" /\ toAdd' = getBSALoadOrder
        /\ fileMap' = NoFiles /\ restoreMap' = NoFiles /\ native' = native
    BY <1>1 DEF ClearMaps
  <2>0. PICK order : order = getBSALoadOrder
    OBVIOUS
  <2>2. OrderOf(order) /\ order \in Seq(BSAs) /\ toAdd' = order
    BY <1>a, <2>0, <2>1, AllOrdered DEF OrderOf
  <2>3. TypeOK'
    BY <1>a, <2>1, <2>2 DEF TypeOK, IsMap, NoFiles
  <2>4. Left(order, 0)' /\ 0 \in 0 .. Len(order)
    BY <2>2 DEF Left
  <2>5. Entered(order, 0, fileMap')
    BY <2>1 DEF Entered, NoFiles
  <2>6. WinningSource'
    BY <2>1 DEF WinningSource
  <2>7. OrderOf(order)' /\ Entered(order, 0, fileMap)'
    BY <1>d, <2>2, <2>5 DEF Entered, HoldsAt
  <2>8. QED  BY <1>c, <2>3, <2>4, <2>6, <2>7 DEF SourceInv
<1>2. CASE addBSAToFileMap
  <2>1. /\ mapPc = "BSAs" /\ mapPc' = "BSAs" /\ toAdd # <<>> /\ toAdd' = Tail(toAdd)
        /\ fileMap' = IF Head(toAdd) \in Broken THEN fileMap
                      ELSE Put(fileMap, Held[Head(toAdd)], Entry(Head(toAdd), FALSE))
        /\ restoreMap' = restoreMap /\ native' = native
    BY <1>2 DEF addBSAToFileMap
  <2>2. PICK order : OrderOf(order)
                     /\ \E n \in 0 .. Len(order) : Left(order, n) /\ Entered(order, n, fileMap)
    BY <2>1 DEF SourceInv
  <2>3. PICK n \in 0 .. Len(order) : Left(order, n) /\ Entered(order, n, fileMap)
    BY <2>2
  <2>4. toAdd \in Seq(BSAs) /\ Len(toAdd) \in Nat \ {0} /\ Head(toAdd) = toAdd[1]
        /\ Head(toAdd) \in BSAs
    BY <1>a, <2>1 DEF TypeOK
  <2>5. order \in Seq(BSAs) /\ Len(order) \in Nat
    BY <2>2 DEF OrderOf
  <2>6. n \in 0 .. Len(order) - 1 /\ n + 1 \in 0 .. Len(order) /\ Head(toAdd) = order[n + 1]
    BY <2>3, <2>4, <2>5 DEF Left
  <2>7. Left(order, n + 1)'
    <3>1. Len(toAdd') = Len(toAdd) - 1 /\ \A i \in 1 .. Len(toAdd') : toAdd'[i] = toAdd[i + 1]
      BY <2>1, <2>4
    <3>2. Len(toAdd') = Len(order) - (n + 1)
      BY <2>3, <2>4, <2>5, <2>6, <3>1 DEF Left
    <3>3. ASSUME NEW i \in 1 .. Len(toAdd') PROVE toAdd'[i] = order[n + 1 + i]
      <4>1. i + 1 \in 1 .. Len(toAdd) /\ n + (i + 1) = n + 1 + i
        BY <2>4, <2>6, <3>1
      <4>2. QED  BY <2>3, <3>1, <4>1 DEF Left
    <3>4. QED  BY <3>2, <3>3 DEF Left
  <2>8. Entered(order, n + 1, fileMap')
    BY <2>1, <2>3, <2>5, <2>6, EnterNext
  <2>9. TypeOK'
    <3>1. toAdd' \in Seq(BSAs)
      BY <2>1, <2>4
    <3>2. Held[Head(toAdd)] \in SUBSET Paths
      BY <2>4, FileMapAssumption
    <3>3. IsMap(fileMap')
      BY <1>a, <2>1, <2>4, <3>2, PutTyped DEF TypeOK
    <3>4. QED  BY <1>a, <2>1, <3>1, <3>3 DEF TypeOK
  <2>10. WinningSource'
    BY <2>1 DEF WinningSource
  <2>11. OrderOf(order)' /\ Entered(order, n + 1, fileMap)'
    BY <1>d, <2>2, <2>8 DEF Entered, HoldsAt
  <2>12. QED  BY <1>c, <2>6, <2>7, <2>9, <2>10, <2>11 DEF SourceInv
<1>3. CASE addLooseFilesToMap
  <2>1. /\ mapPc = "BSAs" /\ mapPc' = "populated" /\ toAdd = <<>> /\ toAdd' = toAdd
        /\ fileMap' = Put(fileMap, Loose, Entry(NoBSA, FALSE))
        /\ restoreMap' = restoreMap /\ native' = fileMap'
    BY <1>3 DEF addLooseFilesToMap
  <2>2. PICK order : OrderOf(order)
                     /\ \E n \in 0 .. Len(order) : Left(order, n) /\ Entered(order, n, fileMap)
    BY <2>1 DEF SourceInv
  <2>3. PICK n \in 0 .. Len(order) : Left(order, n) /\ Entered(order, n, fileMap)
    BY <2>2
  <2>4. Len(order) \in Nat /\ Len(toAdd) = 0
    BY <2>1, <2>2 DEF OrderOf
  <2>5. n = Len(order)
    BY <2>3, <2>4 DEF Left
  <2>6. Entered(order, Len(order), fileMap)
    BY <2>3, <2>5
  <2>7. /\ DOMAIN native' = Loose \cup UNION {Held[b] : b \in {c \in BSAs \ Broken : Loaded(c)}}
        /\ \A p \in DOMAIN native' : Wins(native'[p].bsaFile, p)
    BY <2>1, <2>2, <2>6, LooseComplete
  <2>8. WinningSource'
    <3>1. {c \in BSAs \ Broken : Loaded(c)'} = {c \in BSAs \ Broken : Loaded(c)}
      BY <1>c
    <3>2. DOMAIN native' = Loose \cup UNION {Held[b] : b \in {c \in BSAs \ Broken : Loaded(c)'}}
      BY <2>7, <3>1
    <3>3. QED  BY <1>c, <2>7, <3>2 DEF WinningSource
  <2>9. IsMap(fileMap')
    BY <1>a, <2>1, PutTyped, FileMapAssumption DEF TypeOK
  <2>10. TypeOK'
    BY <1>a, <2>1, <2>9 DEF TypeOK
  <2>11. QED  BY <1>c, <2>1, <2>8, <2>10 DEF SourceInv
<1>4. CASE (\E p \in Paths : addGeneratedFile(p)) \/ clearGeneratedFiles
  <2>1. /\ mapPc = "populated" /\ mapPc' = mapPc /\ toAdd' = toAdd /\ native' = native
        /\ (\E p \in Paths : Mark(p)) \/ RestoreMarked
    BY <1>4 DEF addGeneratedFile, clearGeneratedFiles
  <2>2. TypeOK'
    BY <1>a, <2>1, MarksTyped
  <2>3. WinningSource'
    BY <1>a, <1>b, <2>1, SourcesKept
  <2>4. QED  BY <1>c, <2>1, <2>2, <2>3 DEF SourceInv
<1>5. CASE UNCHANGED vars
  <2>1. /\ mapPc' = mapPc /\ toAdd' = toAdd /\ fileMap' = fileMap
        /\ restoreMap' = restoreMap /\ native' = native
    BY <1>5 DEF vars, mapVars
  <2>2. TypeOK'
    BY <1>a, <2>1 DEF TypeOK
  <2>3. WinningSource'
    BY <1>a, <1>b, <2>1, SourcesKept
  <2>4. ASSUME mapPc = "BSAs"
        PROVE  (\E order : /\ OrderOf(order)
                           /\ \E n \in 0 .. Len(order) : Left(order, n) /\ Entered(order, n, fileMap))'
    <3>1. PICK order : OrderOf(order)
                       /\ \E n \in 0 .. Len(order) : Left(order, n) /\ Entered(order, n, fileMap)
      BY <2>4 DEF SourceInv
    <3>2. PICK n \in 0 .. Len(order) : Left(order, n) /\ Entered(order, n, fileMap)
      BY <3>1
    <3>3. OrderOf(order)' /\ Left(order, n)' /\ Entered(order, n, fileMap)'
      BY <1>d, <2>1, <3>1, <3>2 DEF Left, Entered, HoldsAt
    <3>4. QED  BY <3>3
  <2>5. QED  BY <1>c, <2>1, <2>2, <2>3, <2>4 DEF SourceInv
<1>6. QED  BY <1>1, <1>2, <1>3, <1>4, <1>5 DEF Next

(* Every path has the source the game would load it from, for every load   *)
(* order and every way INI files and plugins name its archives.            *)
THEOREM SourcesCorrect == Spec => []SourcesRight
<1>1. SourceInv => SourcesRight
  BY DEF SourceInv, SourcesRight
<1>2. QED  BY <1>1, InitSources, NextSources, PTL DEF Spec

-----------------------------------------------------------------------------
(* The marks of a patching run.                                            *)

(* NativeKept, with what makes it inductive: the maps are functions, none  *)
(* of their entries but those of fileMap after populateFileMap is a mark.  *)
IsFunction(m) == m = [p \in DOMAIN m |-> m[p]]
Unmarked(m) == \A p \in DOMAIN m : m[p].generated = FALSE

MapInv ==
  /\ mapPc \in {"clear", "BSAs", "populated"}
  /\ IsFunction(fileMap) /\ IsFunction(restoreMap) /\ IsFunction(native)
  /\ mapPc # "populated" => DOMAIN restoreMap = {} /\ Unmarked(fileMap)
  /\ mapPc = "populated" => Unmarked(native)
  /\ \A p \in DOMAIN fileMap : fileMap[p].generated \in BOOLEAN
  /\ NativeKept

(* The initial maps are empty.                                             *)
LEMMA InitMapInv == Init => MapInv
  BY DEF Init, MapInv, IsFunction, NoFiles, NativeKept, Unmarked

(* addGeneratedFile saves a native entry before it marks the path, and     *)
(* leaves a saved one alone when the path is marked again.                 *)
LEMMA AddKeeps ==
  ASSUME MapInv, NEW p \in Paths, addGeneratedFile(p)
  PROVE  MapInv'
<1> DEFINE mark == Entry(NoBSA, TRUE)
           saved == p \in DOMAIN fileMap /\ ~fileMap[p].generated
<1>1. /\ mapPc = "populated" /\ mapPc' = mapPc /\ native' = native
      /\ fileMap' = Put(fileMap, {p}, mark)
      /\ restoreMap' = IF saved THEN Put(restoreMap, {p}, fileMap[p]) ELSE restoreMap
  BY DEF addGeneratedFile, Mark
<1>2. mark.generated = TRUE
  BY DEF Entry
<1>3. /\ IsFunction(fileMap') /\ DOMAIN fileMap' = {p} \cup DOMAIN fileMap
      /\ fileMap'[p] = mark
      /\ \A q \in DOMAIN fileMap \ {p} : fileMap'[q] = fileMap[q]
  BY <1>1 DEF Put, IsFunction
<1>4. GeneratedIn(fileMap') = {p} \cup GeneratedIn(fileMap)
  BY <1>2, <1>3 DEF GeneratedIn
<1>5. NativeKept'
  <2>1. CASE saved
    <3>1. /\ DOMAIN restoreMap' = {p} \cup DOMAIN restoreMap
          /\ restoreMap'[p] = fileMap[p]
          /\ \A q \in DOMAIN restoreMap \ {p} : restoreMap'[q] = restoreMap[q]
      BY <1>1, <2>1 DEF Put
    <3>2. p \in DOMAIN native /\ fileMap[p] = native[p]
      BY <1>1, <2>1 DEF MapInv, NativeKept, GeneratedIn
    <3>3. DOMAIN native' \subseteq DOMAIN fileMap'
      BY <1>1, <1>3 DEF MapInv, NativeKept
    <3>4. DOMAIN restoreMap' = DOMAIN native' \cap GeneratedIn(fileMap')
      BY <1>1, <1>4, <3>1, <3>2 DEF MapInv, NativeKept
    <3>5. \A q \in DOMAIN restoreMap' : restoreMap'[q] = native'[q]
      BY <1>1, <3>1, <3>2 DEF MapInv, NativeKept
    <3>6. \A q \in DOMAIN fileMap' \ GeneratedIn(fileMap') :
            q \in DOMAIN native' /\ fileMap'[q] = native'[q]
      BY <1>1, <1>3, <1>4 DEF MapInv, NativeKept
    <3>7. QED  BY <3>3, <3>4, <3>5, <3>6 DEF NativeKept
  <2>2. CASE ~saved
    <3>1. restoreMap' = restoreMap
      BY <1>1, <2>2
    <3>2. p \in DOMAIN native => p \in GeneratedIn(fileMap)
      BY <1>1, <2>2 DEF MapInv, NativeKept, GeneratedIn
    <3>3. DOMAIN restoreMap' = DOMAIN native' \cap GeneratedIn(fileMap')
      BY <1>1, <1>4, <3>1, <3>2 DEF MapInv, NativeKept
    <3>4. \A q \in DOMAIN fileMap' \ GeneratedIn(fileMap') :
            q \in DOMAIN native' /\ fileMap'[q] = native'[q]
      BY <1>1, <1>3, <1>4 DEF MapInv, NativeKept
    <3>5. QED  BY <1>1, <1>3, <3>1, <3>3, <3>4 DEF MapInv, NativeKept
  <2>3. QED  BY <2>1, <2>2
<1>6. IsFunction(restoreMap')
  BY <1>1 DEF MapInv, Put, IsFunction
<1>7. \A q \in DOMAIN fileMap' : fileMap'[q].generated \in BOOLEAN
  BY <1>2, <1>3 DEF MapInv
<1>8. QED  BY <1>1, <1>3, <1>5, <1>6, <1>7 DEF MapInv

(* The heart of the matter: clearing gives back the native map.            *)
LEMMA ClearGivesNative ==
  ASSUME MapInv, clearGeneratedFiles
  PROVE  fileMap' = native /\ restoreMap' = NoFiles
<1> DEFINE marked   == GeneratedIn(fileMap)
           restored == marked \cap DOMAIN restoreMap
<1>1. /\ mapPc = "populated"
      /\ fileMap' = [p \in DOMAIN fileMap \ (marked \ restored) |->
                       IF p \in restored THEN restoreMap[p] ELSE fileMap[p]]
      /\ restoreMap' = [p \in DOMAIN restoreMap \ restored |-> restoreMap[p]]
  BY DEF clearGeneratedFiles, RestoreMarked
<1>2. NativeKept /\ IsFunction(native)
  BY DEF MapInv
<1>3. restored = DOMAIN restoreMap /\ restored = DOMAIN native \cap marked
  BY <1>1, <1>2 DEF NativeKept
<1>4. DOMAIN fileMap \ (marked \ restored) = DOMAIN native
  BY <1>1, <1>2, <1>3 DEF NativeKept
<1>5. \A p \in DOMAIN native :
        (IF p \in restored THEN restoreMap[p] ELSE fileMap[p]) = native[p]
  BY <1>1, <1>2, <1>3, <1>4 DEF NativeKept
<1>6. fileMap' = native
  BY <1>1, <1>2, <1>4, <1>5 DEF IsFunction
<1>7. restoreMap' = NoFiles
  BY <1>1, <1>3 DEF NoFiles
<1>8. QED  BY <1>6, <1>7

LEMMA NextMapInv == MapInv /\ [Next]_vars => MapInv'
<1> SUFFICES ASSUME MapInv, [Next]_vars PROVE MapInv'
  OBVIOUS
<1>1. CASE ClearMaps
  BY <1>1 DEF ClearMaps, MapInv, IsFunction, NoFiles, Unmarked, NativeKept
<1>2. CASE addBSAToFileMap
  <2>1. /\ mapPc = "BSAs" /\ mapPc' = "BSAs"
        /\ native' = native /\ restoreMap' = restoreMap
        /\ \/ fileMap' = fileMap
           \/ fileMap' = Put(fileMap, Held[Head(toAdd)], Entry(Head(toAdd), FALSE))
    BY <1>2 DEF addBSAToFileMap
  <2>2. Unmarked(fileMap') /\ IsFunction(fileMap')
    <3>1. Unmarked(fileMap) /\ IsFunction(fileMap)
      BY <2>1 DEF MapInv
    <3>2. QED  BY <2>1, <3>1 DEF Put, Unmarked, IsFunction, Entry
  <2>3. QED  BY <2>1, <2>2 DEF MapInv, NativeKept, Unmarked
<1>3. CASE addLooseFilesToMap
  <2>1. /\ mapPc = "BSAs" /\ mapPc' = "populated"
        /\ native' = fileMap' /\ restoreMap' = restoreMap
        /\ fileMap' = Put(fileMap, Loose, Entry(NoBSA, FALSE))
    BY <1>3 DEF addLooseFilesToMap
  <2>2. Unmarked(fileMap') /\ IsFunction(fileMap')
    <3>1. Unmarked(fileMap) /\ IsFunction(fileMap)
      BY <2>1 DEF MapInv
    <3>2. QED  BY <2>1, <3>1 DEF Put, Unmarked, IsFunction, Entry
  <2>3. GeneratedIn(fileMap') = {}
    BY <2>2 DEF Unmarked, GeneratedIn
  <2>4. DOMAIN restoreMap' = {}
    BY <2>1 DEF MapInv
  <2>5. NativeKept'
    BY <2>1, <2>3, <2>4 DEF NativeKept
  <2>6. QED  BY <2>1, <2>2, <2>5 DEF MapInv, Unmarked
<1>4. CASE \E p \in Paths : addGeneratedFile(p)
  BY <1>4, AddKeeps
<1>5. CASE clearGeneratedFiles
  <2>1. fileMap' = native /\ restoreMap' = NoFiles
    BY <1>5, ClearGivesNative
  <2>2. mapPc = "populated" /\ mapPc' = mapPc /\ native' = native
    BY <1>5 DEF clearGeneratedFiles
  <2>3. GeneratedIn(fileMap') = {}
    BY <2>1, <2>2 DEF GeneratedIn, MapInv, Unmarked
  <2>4. NativeKept'
    BY <2>1, <2>2, <2>3 DEF NativeKept, NoFiles
  <2>5. IsFunction(restoreMap')
    BY <2>1 DEF IsFunction, NoFiles
  <2>6. QED  BY <2>1, <2>2, <2>4, <2>5 DEF MapInv, Unmarked
<1>6. CASE UNCHANGED vars
  BY <1>6 DEF vars, mapVars, inputVars, MapInv, NativeKept, IsFunction, Unmarked, GeneratedIn
<1>7. QED  BY <1>1, <1>2, <1>3, <1>4, <1>5, <1>6 DEF Next

LEMMA MapInvariant == Spec => []MapInv
  BY InitMapInv, NextMapInv, PTL DEF Spec

(* A marked path that was in the load order can always be restored, an     *)
(* unmarked path has its native source, whatever runs marked before; and   *)
(* the next patching run begins with the map populateFileMap built.        *)
THEOREM MarksCanBeUndone == Spec => MarksUndone
<1>1. MapInv /\ MapInv' /\ [Next]_vars =>
        [NativeKept' /\ (clearGeneratedFiles => fileMap' = native /\ restoreMap' = NoFiles)]_vars
  BY ClearGivesNative DEF MapInv
<1>2. QED  BY <1>1, MapInvariant, PTL DEF Spec, MarksUndone
=============================================================================
