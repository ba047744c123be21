---------------------------- MODULE Queue_proofs ----------------------------
(***************************************************************************)
(* What the operators of Queue return, for every queue: the facts that the *)
(* proofs about TurnRunner and Mailbox cite.  Keep is defined by positions,*)
(* and the argument is a count: UpTo numbers the kept positions, and a     *)
(* numbering of n positions below n that never repeats uses every number.  *)
(***************************************************************************)
EXTENDS Queue, FiniteSetTheorems, FunctionTheorems, TLAPS

LEMMA SeqFacts ==
  ASSUME NEW T, NEW q \in Seq(T)
  PROVE  /\ Len(q) \in Nat /\ DOMAIN q = 1 .. Len(q) /\ q \in [1 .. Len(q) -> T]
         /\ q = <<>> <=> Len(q) = 0
         /\ q = <<>> <=> Members(q) = {}
         /\ Members(q) \subseteq T
  <1>1. Len(q) \in Nat /\ DOMAIN q = 1 .. Len(q) /\ q \in [1 .. Len(q) -> T]
    OBVIOUS
  <1>2. q = <<>> <=> Len(q) = 0
    OBVIOUS
  <1>3. Len(q) # 0 => 1 \in DOMAIN q
    BY <1>1
  <1>4. DOMAIN q = {} <=> Len(q) = 0
    <2>1. \A n \in Nat : n = 0 => 1 .. n = {}
      OBVIOUS
    <2> QED BY <1>1, <1>3, <2>1
  <1> QED BY <1>1, <1>2, <1>3, <1>4 DEF Members

LEMMA KeptFinite ==
  ASSUME NEW T, NEW q \in Seq(T), NEW S
  PROVE  /\ Kept(q, S) \subseteq 1 .. Len(q)
         /\ IsFiniteSet(Kept(q, S)) /\ Cardinality(Kept(q, S)) \in Nat
  <1>1. Len(q) \in Nat /\ DOMAIN q = 1 .. Len(q)
    BY SeqFacts
  <1>2. Kept(q, S) \subseteq 1 .. Len(q)
    BY <1>1 DEF Kept
  <1>3. PICK a \in Int : a = 1
    OBVIOUS
  <1>4. IsFiniteSet(1 .. Len(q))
    <2>0. \A n \in Nat : \E b \in Int : b = n
      OBVIOUS
    <2>1. PICK b \in Int : b = Len(q)
      BY <1>1, <2>0
    <2> QED BY <1>3, <2>1, FS_Interval
  <1>5. IsFiniteSet(Kept(q, S))
    BY <1>2, <1>4, FS_Subset
  <1> QED BY <1>2, <1>5, FS_CardinalityType

\* UpTo numbers the kept positions in their order, from 1.
LEMMA UpToIncreases ==
  ASSUME NEW T, NEW q \in Seq(T), NEW S
  PROVE  /\ \A k \in Kept(q, S) : UpTo(q, S, k) \in 1 .. Cardinality(Kept(q, S))
         /\ \A j, k \in Kept(q, S) : j < k => UpTo(q, S, j) < UpTo(q, S, k)
  <1> DEFINE K == Kept(q, S)
  <1>0. IsFiniteSet(K) /\ Cardinality(K) \in Nat /\ K \subseteq Nat
    BY KeptFinite, SeqFacts
  <1>a. \A k : UpTo(q, S, k) = Cardinality({j \in K : j <= k})
    BY DEF UpTo
  <1> HIDE DEF K
  <1>1. ASSUME NEW k \in K
        PROVE  IsFiniteSet({j \in K : j <= k}) /\ UpTo(q, S, k) \in 1 .. Cardinality(K)
    <2> DEFINE B == {j \in K : j <= k}
    <2>1. B \in SUBSET K /\ k \in B
      BY <1>0
    <2>a. UpTo(q, S, k) = Cardinality(B)
      BY <1>a
    <2> HIDE DEF B
    <2>2. IsFiniteSet(B) /\ Cardinality(B) <= Cardinality(K)
      BY <1>0, <2>1, FS_Subset
    <2>3. Cardinality(B) \in Nat /\ Cardinality(B) # 0
      BY <2>1, <2>2, FS_CardinalityType, FS_EmptySet
    <2>4. UpTo(q, S, k) \in 1 .. Cardinality(K)
      BY <1>0, <2>a, <2>2, <2>3
    <2> QED BY <2>2, <2>4 DEF B
  <1>2. ASSUME NEW j \in K, NEW k \in K, j < k
        PROVE  UpTo(q, S, j) < UpTo(q, S, k)
    <2> DEFINE B == {h \in K : h <= j}
               C == {h \in K : h <= k}
    <2>0. \A h \in K : h \in Nat
      BY <1>0
    <2>1. B \in SUBSET C /\ k \in C /\ k \notin B
      <3>1. \A h \in K : h <= j => h <= k
        BY <2>0, <1>2
      <3>2. k <= k /\ ~ (k <= j)
        BY <2>0, <1>2
      <3> QED BY <3>1, <3>2
    <2>a. UpTo(q, S, j) = Cardinality(B) /\ UpTo(q, S, k) = Cardinality(C)
      BY <1>a
    <2>b. IsFiniteSet(C)
      BY <1>1
    <2> HIDE DEF B, C
    <2>2. Cardinality(B) <= Cardinality(C) /\ Cardinality(B) # Cardinality(C)
      BY <2>1, <2>b, FS_Subset
    <2>3. \A h \in K : UpTo(q, S, h) \in 1 .. Cardinality(K)
      BY <1>1
    <2>4. UpTo(q, S, j) \in Nat /\ UpTo(q, S, k) \in Nat
      BY <1>0, <2>3
    <2> QED BY <2>a, <2>2, <2>4
  <1> QED BY <1>1, <1>2 DEF K

\* Every number up to the number of kept positions is that of exactly one.
LEMMA UpToCounts ==
  ASSUME NEW T, NEW q \in Seq(T), NEW S,
         NEW n \in 1 .. Cardinality(Kept(q, S))
  PROVE  \E k \in Kept(q, S) : /\ UpTo(q, S, k) = n
                               /\ \A j \in Kept(q, S) : UpTo(q, S, j) = n => j = k
  <1> DEFINE K == Kept(q, S)
             N == 1 .. Cardinality(K)
             f == [k \in K |-> UpTo(q, S, k)]
  <1>1. IsFiniteSet(K) /\ Cardinality(K) \in Nat /\ K \subseteq Nat
    BY KeptFinite, SeqFacts
  <1>2. /\ \A k \in K : UpTo(q, S, k) \in N
        /\ \A j, k \in K : j < k => UpTo(q, S, j) < UpTo(q, S, k)
    BY UpToIncreases
  <1>3. \A j, k \in K : UpTo(q, S, j) = UpTo(q, S, k) => j = k
    <2> SUFFICES ASSUME NEW j \in K, NEW k \in K, UpTo(q, S, j) = UpTo(q, S, k), j # k
                 PROVE  FALSE
      OBVIOUS
    <2>1. j < k \/ k < j
      BY <1>1
    <2>2. UpTo(q, S, j) \in Nat /\ UpTo(q, S, k) \in Nat
      BY <1>1, <1>2
    <2> QED BY <1>2, <2>1, <2>2
  <1>4. PICK a, b \in Int : a = 1 /\ b = Cardinality(K)
    BY <1>1
  <1>5. IsFiniteSet(N) /\ Cardinality(N) = Cardinality(K)
    BY <1>1, <1>4, FS_Interval
  <1>6. f \in Injection(K, N)
    <2> HIDE DEF K, N
    <2>1. f \in [K -> N]
      BY <1>2
    <2>2. \A j, k \in K : f[j] = f[k] => j = k
      BY <1>3
    <2> QED BY <2>1, <2>2 DEF Injection, IsInjective
  <1>7. f \in Surjection(K, N)
    <2> HIDE DEF K, N, f
    <2> QED BY <1>5, <1>6, FS_Injection
  <1>8. \A m \in N : \E k \in K : UpTo(q, S, k) = m
    <2> HIDE DEF K, N
    <2> QED BY <1>7 DEF Surjection
  <1> QED BY <1>3, <1>8

\* Keep is a subsequence: its n-th item is that of the n-th kept position.
LEMMA KeepPicks ==
  ASSUME NEW T, NEW q \in Seq(T), NEW S
  PROVE  /\ Keep(q, S) \in Seq(T) /\ Len(Keep(q, S)) = Cardinality(Kept(q, S))
         /\ \A n \in 1 .. Len(Keep(q, S)) :
                \E k \in Kept(q, S) : UpTo(q, S, k) = n /\ Keep(q, S)[n] = q[k]
         /\ \A k \in Kept(q, S) : /\ UpTo(q, S, k) \in 1 .. Len(Keep(q, S))
                                  /\ Keep(q, S)[UpTo(q, S, k)] = q[k]
  <1> DEFINE N == Cardinality(Kept(q, S))
             e(n) == q[CHOOSE k \in Kept(q, S) : UpTo(q, S, k) = n]
  <1>1. N \in Nat /\ Kept(q, S) \subseteq 1 .. Len(q) /\ q \in [1 .. Len(q) -> T]
    BY KeptFinite, SeqFacts
  <1>2. ASSUME NEW n \in 1 .. N
        PROVE  e(n) \in T /\ \E k \in Kept(q, S) : UpTo(q, S, k) = n /\ e(n) = q[k]
    <2>1. PICK k \in Kept(q, S) : UpTo(q, S, k) = n
      BY UpToCounts
    <2>2. (CHOOSE j \in Kept(q, S) : UpTo(q, S, j) = n) \in Kept(q, S)
          /\ UpTo(q, S, CHOOSE j \in Kept(q, S) : UpTo(q, S, j) = n) = n
      BY <2>1
    <2> QED BY <1>1, <2>2
  <1>3. \A k \in Kept(q, S) : UpTo(q, S, k) \in 1 .. N /\ e(UpTo(q, S, k)) = q[k]
    <2> SUFFICES ASSUME NEW k \in Kept(q, S)
                 PROVE  UpTo(q, S, k) \in 1 .. N /\ e(UpTo(q, S, k)) = q[k]
      OBVIOUS
    <2>1. UpTo(q, S, k) \in 1 .. N
      BY UpToIncreases
    <2>2. \A j \in Kept(q, S) : UpTo(q, S, j) = UpTo(q, S, k) => j = k
      <3>1. PICK h \in Kept(q, S) : \A j \in Kept(q, S) : UpTo(q, S, j) = UpTo(q, S, k) => j = h
        BY <2>1, UpToCounts
      <3> QED BY <3>1
    <2>3. (CHOOSE j \in Kept(q, S) : UpTo(q, S, j) = UpTo(q, S, k)) = k
      BY <2>2
    <2> QED BY <2>1, <2>3
  <1>4. Keep(q, S) = [n \in 1 .. N |-> e(n)]
    BY DEF Keep
  <1> HIDE DEF N, e
  <1>5. Keep(q, S) \in Seq(T) /\ Len(Keep(q, S)) = N
    BY <1>1, <1>2, <1>4
  <1>6. \A n \in 1 .. N : Keep(q, S)[n] = e(n)
    BY <1>4
  <1> QED BY <1>2, <1>3, <1>5, <1>6 DEF N

\* Taking items away changes no other: the rest of the queue keeps its items,
\* once each, and their order (takeQueuedItem, drainQueuedMessagesMatching).
THEOREM KeepFilters ==
  ASSUME NEW T, NEW q \in Seq(T), Distinct(q), NEW S
  PROVE  /\ Keep(q, S) \in Seq(T)
         /\ Distinct(Keep(q, S))
         /\ Members(Keep(q, S)) = Members(q) \cap S
         /\ \A m, n \in DOMAIN Keep(q, S) : m < n =>
                \E j, k \in DOMAIN q : j < k /\ q[j] = Keep(q, S)[m] /\ q[k] = Keep(q, S)[n]
  <1> DEFINE r == Keep(q, S)
  <1>1. /\ r \in Seq(T)
        /\ \A n \in 1 .. Len(r) : \E k \in Kept(q, S) : UpTo(q, S, k) = n /\ r[n] = q[k]
        /\ \A k \in Kept(q, S) : UpTo(q, S, k) \in 1 .. Len(r) /\ r[UpTo(q, S, k)] = q[k]
    BY KeepPicks
  <1> HIDE DEF r
  <1>2. /\ Len(r) \in Nat /\ DOMAIN r = 1 .. Len(r)
        /\ Len(q) \in Nat /\ DOMAIN q = 1 .. Len(q) /\ Kept(q, S) \subseteq DOMAIN q
    BY <1>1, SeqFacts, KeptFinite
  <1>3. Distinct(r)
    BY <1>1, <1>2 DEF Distinct
  <1>4. Members(r) = Members(q) \cap S
    <2>1. ASSUME NEW n \in DOMAIN r PROVE r[n] \in Members(q) \cap S
      BY <1>1, <1>2 DEF Members, Kept
    <2>2. ASSUME NEW k \in DOMAIN q, q[k] \in S PROVE q[k] \in Members(r)
      <3>1. k \in Kept(q, S)
        BY <2>2 DEF Kept
      <3> QED BY <3>1, <1>1, <1>2 DEF Members
    <2> QED BY <2>1, <2>2 DEF Members
  <1>5. ASSUME NEW m \in DOMAIN r, NEW n \in DOMAIN r, m < n
        PROVE  \E j, k \in DOMAIN q : j < k /\ q[j] = r[m] /\ q[k] = r[n]
    <2>1. PICK j \in Kept(q, S) : UpTo(q, S, j) = m /\ r[m] = q[j]
      BY <1>1, <1>2
    <2>2. PICK k \in Kept(q, S) : UpTo(q, S, k) = n /\ r[n] = q[k]
      BY <1>1, <1>2
    <2>3. j < k
      <3>1. k < j => n < m
        BY <2>1, <2>2, UpToIncreases
      <3>2. j # k
        BY <2>1, <2>2, <1>2, <1>5
      <3>3. j \in Nat /\ k \in Nat /\ m \in Nat /\ n \in Nat
        BY <1>2
      <3> QED BY <3>1, <3>2, <3>3, <1>5
    <2> QED BY <2>1, <2>2, <2>3, <1>2
  <1> QED BY <1>1, <1>3, <1>4, <1>5 DEF r

LEMMA WithoutOne ==
  ASSUME NEW T, NEW q \in Seq(T), Distinct(q), NEW i
  PROVE  /\ Without(q, i) \in Seq(T) /\ Distinct(Without(q, i))
         /\ Members(Without(q, i)) = Members(q) \ {i}
  BY KeepFilters DEF Without

LEMMA FirstNumbers ==
  ASSUME NEW n \in Nat
  PROVE  Cardinality(1 .. n) = n
  <1>1. \A m \in Nat : m \in Int
    OBVIOUS
  <1>2. PICK a \in Int : a = 1
    OBVIOUS
  <1>3. PICK b \in Int : b = n
    BY <1>1
  <1>4. Cardinality(a .. b) = IF a > b THEN 0 ELSE b - a + 1
    BY FS_Interval
  <1>5. (IF a > b THEN 0 ELSE b - a + 1) = n
    BY <1>2, <1>3
  <1> QED BY <1>2, <1>3, <1>4, <1>5

\* Taking away an item that is not in the queue leaves it as it is.
LEMMA WithoutNone ==
  ASSUME NEW T, NEW q \in Seq(T), NEW i, i \notin Members(q)
  PROVE  Without(q, i) = q
  <1> DEFINE S == Members(q) \ {i}
  <1>1. Len(q) \in Nat /\ DOMAIN q = 1 .. Len(q)
    BY SeqFacts
  <1>2. Kept(q, S) = 1 .. Len(q)
    BY <1>1 DEF Kept, Members
  <1>3. Cardinality(1 .. Len(q)) = Len(q)
    BY <1>1, FirstNumbers
  <1>4. ASSUME NEW k \in 1 .. Len(q) PROVE UpTo(q, S, k) = k
    <2>1. k \in Nat /\ k <= Len(q)
      BY <1>1
    <2>2. \A j \in 1 .. Len(q) : j <= k => j \in 1 .. k
      BY <1>1, <2>1
    <2>3. \A j \in 1 .. k : j \in 1 .. Len(q) /\ j <= k
      BY <1>1, <2>1
    <2>4. {j \in 1 .. Len(q) : j <= k} = 1 .. k
      BY <2>2, <2>3
    <2> QED BY <1>2, <2>1, <2>4, FirstNumbers DEF UpTo
  <1>5. Keep(q, S) \in Seq(T) /\ Len(Keep(q, S)) = Len(q)
    BY <1>2, <1>3, KeepPicks
  <1>6. \A k \in Kept(q, S) : Keep(q, S)[UpTo(q, S, k)] = q[k]
    BY KeepPicks
  <1>7. \A k \in 1 .. Len(q) : Keep(q, S)[k] = q[k]
    BY <1>2, <1>4, <1>6
  <1> HIDE DEF S
  <1>8. Keep(q, S) = q
    BY <1>5, <1>7
  <1> QED BY <1>8 DEF Without, S

LEMMA Pushed ==
  ASSUME NEW T, NEW q \in Seq(T), Distinct(q), NEW i \in T, i \notin Members(q)
  PROVE  /\ Append(q, i) \in Seq(T) /\ Distinct(Append(q, i))
         /\ Members(Append(q, i)) = Members(q) \cup {i}
  <1>1. Len(q) \in Nat /\ DOMAIN q = 1 .. Len(q)
    BY SeqFacts
  <1>2. /\ Append(q, i) \in Seq(T) /\ Len(Append(q, i)) = Len(q) + 1
        /\ DOMAIN Append(q, i) = 1 .. Len(q) + 1
        /\ \A k \in 1 .. Len(q) : Append(q, i)[k] = q[k]
        /\ Append(q, i)[Len(q) + 1] = i
    BY <1>1
  <1>3. \A k \in 1 .. Len(q) + 1 : k \in 1 .. Len(q) \/ k = Len(q) + 1
    BY <1>1
  <1>4. \A k \in 1 .. Len(q) : k \in 1 .. Len(q) + 1 /\ q[k] # i
    BY <1>1 DEF Members
  <1>5. Len(q) + 1 \in 1 .. Len(q) + 1
    BY <1>1
  <1>6. Distinct(Append(q, i))
    BY <1>1, <1>2, <1>3, <1>4 DEF Distinct
  <1>7. Members(Append(q, i)) = Members(q) \cup {i}
    BY <1>1, <1>2, <1>3, <1>4, <1>5 DEF Members
  <1> QED BY <1>2, <1>6, <1>7

LEMMA Unshifted ==
  ASSUME NEW T, NEW q \in Seq(T), Distinct(q), NEW i \in T, i \notin Members(q)
  PROVE  /\ <<i>> \o q \in Seq(T) /\ Distinct(<<i>> \o q)
         /\ Members(<<i>> \o q) = Members(q) \cup {i}
  <1> DEFINE r == <<i>> \o q
  <1>1. Len(q) \in Nat /\ DOMAIN q = 1 .. Len(q)
    BY SeqFacts
  <1>2. /\ r \in Seq(T) /\ DOMAIN r = 1 .. Len(q) + 1
        /\ r[1] = i /\ \A k \in 2 .. Len(q) + 1 : r[k] = q[k - 1]
    BY <1>1
  <1> HIDE DEF r
  <1>3. /\ \A k \in 1 .. Len(q) + 1 : k = 1 \/ k \in 2 .. Len(q) + 1
        /\ \A k \in 2 .. Len(q) + 1 : k - 1 \in 1 .. Len(q)
        /\ \A k \in 1 .. Len(q) : k + 1 \in 2 .. Len(q) + 1 /\ (k + 1) - 1 = k
        /\ \A j, k \in 2 .. Len(q) + 1 : j - 1 = k - 1 => j = k
        /\ 1 \in 1 .. Len(q) + 1 /\ \A k \in 2 .. Len(q) + 1 : k \in 1 .. Len(q) + 1
    BY <1>1
  <1>4. \A k \in 1 .. Len(q) : q[k] # i
    BY <1>1 DEF Members
  <1>5. Distinct(r)
    <2> SUFFICES ASSUME NEW j \in DOMAIN r, NEW k \in DOMAIN r, r[j] = r[k]
                 PROVE  j = k
      BY DEF Distinct
    <2>1. CASE j = 1 \/ k = 1
      BY <2>1, <1>2, <1>3, <1>4
    <2>2. CASE j # 1 /\ k # 1
      <3>1. j \in 2 .. Len(q) + 1 /\ k \in 2 .. Len(q) + 1
        BY <2>2, <1>2, <1>3
      <3>2. q[j - 1] = q[k - 1] /\ j - 1 \in DOMAIN q /\ k - 1 \in DOMAIN q
        BY <3>1, <1>1, <1>2, <1>3
      <3>3. j - 1 = k - 1
        BY <3>2 DEF Distinct
      <3> QED BY <3>1, <3>3, <1>3
    <2> QED BY <2>1, <2>2
  <1>6. \A k \in 1 .. Len(q) : q[k] \in Members(r)
    <2> SUFFICES ASSUME NEW k \in 1 .. Len(q) PROVE q[k] \in Members(r)
      OBVIOUS
    <2>1. r[k + 1] = q[k] /\ k + 1 \in DOMAIN r
      BY <1>2, <1>3
    <2> QED BY <2>1 DEF Members
  <1>7. Members(r) = Members(q) \cup {i}
    <2>1. \A k \in DOMAIN r : r[k] \in Members(q) \cup {i}
      <3> SUFFICES ASSUME NEW k \in DOMAIN r, k # 1 PROVE r[k] \in Members(q)
        BY <1>2
      <3>1. k \in 2 .. Len(q) + 1
        BY <1>2, <1>3
      <3> QED BY <3>1, <1>1, <1>2, <1>3 DEF Members
    <2>2. i \in Members(r)
      BY <1>2, <1>3 DEF Members
    <2>3. \A x \in Members(q) : x \in Members(r)
      BY <1>1, <1>6 DEF Members
    <2>4. \A x \in Members(r) : x \in Members(q) \cup {i}
      BY <2>1 DEF Members
    <2> QED BY <2>2, <2>3, <2>4
  <1> QED BY <1>2, <1>5, <1>7 DEF r

LEMMA Shifted ==
  ASSUME NEW T, NEW q \in Seq(T), Distinct(q), q # <<>>
  PROVE  /\ Head(q) \in Members(q)
         /\ Tail(q) \in Seq(T) /\ Distinct(Tail(q))
         /\ Members(Tail(q)) = Members(q) \ {Head(q)}
  <1>1. Len(q) \in Nat /\ DOMAIN q = 1 .. Len(q) /\ Len(q) # 0
    BY SeqFacts
  <1>2. /\ Head(q) = q[1] /\ Tail(q) \in Seq(T) /\ DOMAIN Tail(q) = 1 .. Len(q) - 1
        /\ \A k \in 1 .. Len(q) - 1 : Tail(q)[k] = q[k + 1]
    BY <1>1
  <1>3. /\ 1 \in 1 .. Len(q)
        /\ \A k \in 1 .. Len(q) - 1 : k + 1 \in 1 .. Len(q) /\ k + 1 # 1
        /\ \A j, k \in 1 .. Len(q) - 1 : j + 1 = k + 1 => j = k
        /\ \A k \in 1 .. Len(q) : k = 1 \/ (k - 1 \in 1 .. Len(q) - 1 /\ (k - 1) + 1 = k)
    BY <1>1
  <1>4. Distinct(Tail(q))
    BY <1>1, <1>2, <1>3 DEF Distinct
  <1>5. \A k \in 1 .. Len(q) : k = 1 \/ q[k] \in Members(Tail(q))
    <2> SUFFICES ASSUME NEW k \in 1 .. Len(q), k # 1 PROVE q[k] \in Members(Tail(q))
      OBVIOUS
    <2>1. k - 1 \in DOMAIN Tail(q) /\ Tail(q)[k - 1] = q[k]
      BY <1>2, <1>3
    <2> QED BY <2>1 DEF Members
  <1>6. \A k \in 1 .. Len(q) - 1 : Tail(q)[k] \in Members(q) /\ Tail(q)[k] # q[1]
    BY <1>1, <1>2, <1>3 DEF Members, Distinct
  <1>7. Members(Tail(q)) = Members(q) \ {Head(q)}
    BY <1>1, <1>2, <1>3, <1>5, <1>6 DEF Members
  <1>8. Head(q) \in Members(q)
    BY <1>1, <1>2, <1>3 DEF Members
  <1> QED BY <1>2, <1>4, <1>7, <1>8

LEMMA EmptyQueue ==
  ASSUME NEW T
  PROVE  <<>> \in Seq(T) /\ Distinct(<<>>) /\ Members(<<>>) = {}
  <1>1. <<>> \in Seq(T) /\ DOMAIN <<>> = {}
    OBVIOUS
  <1> QED BY <1>1 DEF Distinct, Members
=============================================================================
