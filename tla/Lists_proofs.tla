----------------------------- MODULE Lists_proofs -----------------------------
(***************************************************************************)
(* What the other proofs need to know of numbers and lists.  A recursive   *)
(* function exists, and has a property, because there is no least number   *)
(* for which it fails.                                                     *)
(***************************************************************************)
EXTENDS Lists, TLAPS, WellFoundedInduction, NaturalsInduction, SequenceTheorems

LEMMA LeastNumber ==
    ASSUME NEW S, S \subseteq Nat, S # {}
    PROVE  \E n \in S : \A m \in S : n <= m
<1>. DEFINE R == {p \in Nat \X Nat : p[1] < p[2]}
<1>1. IsWellFoundedOn(R, Nat)
  BY NatLessThanWellFounded DEF OpToRel
<1>. HIDE DEF R
<1>2. \E n \in S : \A m \in S : ~(<<m, n>> \in R)
  BY <1>1, WFMin
<1>3. \A m, n \in Nat : m < n => <<m, n>> \in R
  BY DEF R
<1>4. \A m, n \in Nat : ~(m < n) => n <= m
  OBVIOUS
<1>. QED BY <1>2, <1>3, <1>4

LEMMA MinIs ==
    ASSUME NEW S, S \subseteq Nat, S # {}
    PROVE  Min(S) \in S /\ \A m \in S : Min(S) <= m
BY LeastNumber DEF Min

LEMMA MaxIs ==
    ASSUME NEW n \in Nat, NEW S, S \subseteq 0..n, S # {}
    PROVE  Max(S) \in S /\ \A m \in S : m <= Max(S)
<1>. DEFINE T == {n - m : m \in S}
<1>1. T \subseteq Nat /\ T # {}
  <2>1. \A m \in 0..n : n - m \in Nat
    OBVIOUS
  <2>. QED BY <2>1
<1>2. PICK t \in T : \A u \in T : t <= u
  BY <1>1, LeastNumber
<1>3. PICK m \in S : t = n - m
  OBVIOUS
<1>4. ASSUME NEW k \in S PROVE k <= m
  <2>1. n - k \in T /\ k \in 0..n /\ m \in 0..n
    BY <1>3
  <2>2. t <= n - k
    BY <2>1, <1>2
  <2>. QED BY <2>1, <2>2, <1>3
<1>. QED BY <1>4 DEF Max

-----------------------------------------------------------------------------
LEMMA InsertAtIs ==
    ASSUME NEW S, NEW s \in Seq(S), NEW k \in 1..Len(s) + 1, NEW e \in S
    PROVE  /\ InsertAt(s, k, e) \in Seq(S)
           /\ Len(InsertAt(s, k, e)) = Len(s) + 1
           /\ \A i \in 1..Len(s) + 1 :
                 InsertAt(s, k, e)[i] = IF i < k THEN s[i] ELSE IF i = k THEN e ELSE s[i - 1]
<1>. DEFINE a == SubSeq(s, 1, k - 1)
            b == SubSeq(s, k, Len(s))
            c == a \o <<e>>
<1>1. /\ a \in Seq(S) /\ Len(a) = k - 1
      /\ \A i \in 1..k - 1 : a[i] = s[i]
  OBVIOUS
<1>2. /\ b \in Seq(S) /\ Len(b) = Len(s) - k + 1
      /\ \A i \in 1..Len(s) - k + 1 : b[i] = s[k + i - 1]
  OBVIOUS
<1>. HIDE DEF a, b
<1>3. /\ c \in Seq(S) /\ Len(c) = k
      /\ \A i \in 1..k - 1 : c[i] = s[i]
      /\ c[k] = e
  BY <1>1
<1>. HIDE DEF c
<1>4. /\ c \o b \in Seq(S) /\ Len(c \o b) = Len(s) + 1
      /\ \A i \in 1..k : (c \o b)[i] = c[i]
      /\ \A i \in k + 1..Len(s) + 1 : (c \o b)[i] = b[i - k]
  <2>0. c \in Seq(S) /\ b \in Seq(S)
    BY <1>2, <1>3
  <2>1. c \o b \in Seq(S) /\ Len(c \o b) = Len(c) + Len(b)
    BY <2>0, ConcatProperties
  <2>2. \A i \in 1..Len(c) + Len(b) :
           (c \o b)[i] = IF i <= Len(c) THEN c[i] ELSE b[i - Len(c)]
    BY <2>0, ConcatProperties
  <2>3. Len(s) \in Nat /\ k \in Nat /\ k <= Len(s) + 1 /\ Len(c) + Len(b) = Len(s) + 1
    BY <1>2, <1>3
  <2>4. ASSUME NEW i \in 1..k PROVE (c \o b)[i] = c[i]
    <3>1. i \in 1..Len(c) + Len(b) /\ i <= Len(c)
      BY <2>3, <1>3
    <3>. QED BY <3>1, <2>2
  <2>5. ASSUME NEW i \in k + 1..Len(s) + 1 PROVE (c \o b)[i] = b[i - k]
    <3>1. i \in 1..Len(c) + Len(b) /\ ~(i <= Len(c)) /\ Len(c) = k
      BY <2>3, <1>3
    <3>. QED BY <3>1, <2>2
  <2>. QED BY <2>1, <2>3, <2>4, <2>5
<1>5. InsertAt(s, k, e) = c \o b
  BY DEF InsertAt, a, b, c
<1>6. ASSUME NEW i \in 1..Len(s) + 1
      PROVE  (c \o b)[i] = IF i < k THEN s[i] ELSE IF i = k THEN e ELSE s[i - 1]
  <2>1. CASE i < k
    BY <2>1, <1>3, <1>4
  <2>2. CASE i = k
    BY <2>2, <1>3, <1>4
  <2>3. CASE i > k
    <3>1. i - k \in 1..Len(s) - k + 1 /\ k + (i - k) - 1 = i - 1
      BY <2>3
    <3>2. b[i - k] = s[i - 1]
      BY <3>1, <1>2
    <3>3. i \in k + 1..Len(s) + 1 /\ ~(i < k) /\ ~(i = k)
      BY <2>3
    <3>4. (c \o b)[i] = b[i - k]
      BY <3>3, <1>4
    <3>. QED BY <3>2, <3>3, <3>4
  <2>4. i < k \/ i = k \/ i > k
    <3>1. Len(s) \in Nat
      OBVIOUS
    <3>. QED BY <3>1
  <2>. QED BY <2>1, <2>2, <2>3, <2>4
<1>. QED BY <1>4, <1>5, <1>6

-----------------------------------------------------------------------------
(* Filtering a list.                                                       *)
Kept(s, S, k) ==
    k = [n \in 0..Len(s) |->
            IF n = 0 THEN <<>>
            ELSE IF s[n] \in S THEN k[n - 1] ELSE Append(k[n - 1], s[n])]

KeptUpTo(s, S, m, k) ==
    k = [n \in 0..m |->
            IF n = 0 THEN <<>>
            ELSE IF s[n] \in S THEN k[n - 1] ELSE Append(k[n - 1], s[n])]

LEMMA KeptExtends ==
    ASSUME NEW s, NEW S, NEW m \in Nat, NEW k, KeptUpTo(s, S, m, k)
    PROVE  \E l : KeptUpTo(s, S, m + 1, l)
<1>. DEFINE last == IF s[m + 1] \in S THEN k[m] ELSE Append(k[m], s[m + 1])
            l == [n \in 0..m + 1 |-> IF n = m + 1 THEN last ELSE k[n]]
<1>1. \A n \in 0..m : k[n] = IF n = 0 THEN <<>>
                             ELSE IF s[n] \in S THEN k[n - 1] ELSE Append(k[n - 1], s[n])
  BY DEF KeptUpTo
<1>2. \A n \in 0..m + 1 : n # 0 => n - 1 \in 0..m /\ l[n - 1] = k[n - 1]
  OBVIOUS
<1>3. \A n \in 0..m + 1 : l[n] = IF n = 0 THEN <<>>
                             ELSE IF s[n] \in S THEN l[n - 1] ELSE Append(l[n - 1], s[n])
  <2>. TAKE n \in 0..m + 1
  <2>1. CASE n = m + 1
    BY <2>1, <1>2
  <2>2. CASE n # m + 1
    <3>1. n \in 0..m /\ l[n] = k[n]
      BY <2>2
    <3>. QED BY <3>1, <1>1, <1>2
  <2>. QED BY <2>1, <2>2
<1>. HIDE DEF last
<1>4. l = [n \in 0..m + 1 |-> l[n]]
  OBVIOUS
<1>. HIDE DEF l
<1>. QED BY <1>3, <1>4 DEF KeptUpTo

LEMMA KeptExists ==
    ASSUME NEW s, NEW S, Len(s) \in Nat
    PROVE  \E k : Kept(s, S, k) /\ Without(s, S) = k[Len(s)]
<1>. DEFINE Bad == {m \in Nat : ~\E k : KeptUpTo(s, S, m, k)}
<1>1. \E k : KeptUpTo(s, S, 0, k)
  <2>. DEFINE k == [n \in 0..0 |-> <<>>]
  <2>1. KeptUpTo(s, S, 0, k)
    BY DEF KeptUpTo
  <2>. QED BY <2>1
<1>2. Bad = {}
  <2>. SUFFICES ASSUME Bad # {} PROVE FALSE
    OBVIOUS
  <2>1. PICK m \in Bad : \A n \in Bad : m <= n
    BY LeastNumber
  <2>2. m # 0 /\ m - 1 \in Nat /\ m - 1 \notin Bad
    BY <2>1, <1>1
  <2>3. PICK k : KeptUpTo(s, S, m - 1, k)
    BY <2>2
  <2>4. (m - 1) + 1 = m
    OBVIOUS
  <2>. QED BY <2>2, <2>3, <2>4, KeptExtends
<1>3. \E k : Kept(s, S, k)
  BY <1>2 DEF Kept, KeptUpTo
<1>. QED BY <1>3 DEF Kept, Without

LEMMA WithoutTyped ==
    ASSUME NEW T, NEW s \in Seq(T), NEW S
    PROVE  Without(s, S) \in Seq(T) /\ Without(s, S) \in Seq(T \ S)
<1>1. Len(s) \in Nat /\ \A n \in 1..Len(s) : s[n] \in T
  OBVIOUS
<1>2. PICK k : Kept(s, S, k) /\ Without(s, S) = k[Len(s)]
  BY <1>1, KeptExists
<1>3. \A n \in 0..Len(s) :
          k[n] = IF n = 0 THEN <<>>
                 ELSE IF s[n] \in S THEN k[n - 1] ELSE Append(k[n - 1], s[n])
  BY <1>2 DEF Kept
<1>. DEFINE Bad == {n \in 0..Len(s) : k[n] \notin Seq(T \ S)}
<1>4. Bad = {}
  <2>. SUFFICES ASSUME Bad # {} PROVE FALSE
    OBVIOUS
  <2>1. Bad \subseteq Nat
    BY <1>1
  <2>2. PICK n \in Bad : \A m \in Bad : n <= m
    BY <2>1, LeastNumber
  <2>3. n # 0 /\ n \in 1..Len(s)
    <3>1. <<>> \in Seq(T \ S)
      OBVIOUS
    <3>2. 0 \in 0..Len(s)
      BY <1>1
    <3>3. k[0] = <<>>
      BY <1>3, <3>2
    <3>4. n # 0
      BY <3>1, <3>3
    <3>. QED BY <1>1, <3>4
  <2>4. n - 1 \in 0..Len(s) /\ ~(n <= n - 1)
    BY <1>1, <2>3
  <2>5. k[n - 1] \in Seq(T \ S)
    BY <2>2, <2>4
  <2>6. k[n] \in Seq(T \ S)
    <3>1. k[n] = IF s[n] \in S THEN k[n - 1] ELSE Append(k[n - 1], s[n])
      BY <1>3, <2>3
    <3>2. s[n] \in S \/ s[n] \in T \ S
      BY <1>1, <2>3
    <3>. QED BY <2>5, <3>1, <3>2
  <2>. QED BY <2>2, <2>6
<1>5. Without(s, S) \in Seq(T \ S)
  BY <1>1, <1>2, <1>4
<1>6. \A q \in Seq(T \ S) : q \in Seq(T)
  OBVIOUS
<1>. QED BY <1>5, <1>6

LEMMA WithoutNone ==
    ASSUME NEW T, NEW s \in Seq(T), NEW S, \A i \in 1..Len(s) : s[i] \notin S
    PROVE  Without(s, S) = s
<1>1. Len(s) \in Nat /\ \A n \in 1..Len(s) : s[n] \in T
  OBVIOUS
<1>2. PICK k : Kept(s, S, k) /\ Without(s, S) = k[Len(s)]
  BY <1>1, KeptExists
<1>3. \A n \in 0..Len(s) : k[n] = IF n = 0 THEN <<>> ELSE Append(k[n - 1], s[n])
  <2>1. \A n \in 0..Len(s) :
            k[n] = IF n = 0 THEN <<>>
                   ELSE IF s[n] \in S THEN k[n - 1] ELSE Append(k[n - 1], s[n])
    BY <1>2 DEF Kept
  <2>2. \A n \in 0..Len(s) : n # 0 => s[n] \notin S
    BY <1>1
  <2>. QED BY <2>1, <2>2
<1>. DEFINE Same(n) == k[n] \in Seq(T) /\ Len(k[n]) = n /\ \A i \in 1..n : k[n][i] = s[i]
            Bad == {n \in 0..Len(s) : ~Same(n)}
<1>4. Bad = {}
  <2>. SUFFICES ASSUME Bad # {} PROVE FALSE
    OBVIOUS
  <2>1. Bad \subseteq Nat
    BY <1>1
  <2>2. PICK n \in Bad : \A m \in Bad : n <= m
    BY <2>1, LeastNumber
  <2>3. n # 0 /\ n \in 1..Len(s)
    <3>1. 0 \in 0..Len(s) /\ k[0] = <<>>
      BY <1>1, <1>3
    <3>2. Same(0)
      BY <3>1
    <3>. QED BY <1>1, <2>2, <3>2
  <2>4. n - 1 \in 0..Len(s) /\ ~(n <= n - 1) /\ n \in Nat
    BY <1>1, <2>3
  <2>5. Same(n - 1)
    BY <2>2, <2>4
  <2>6. k[n] = Append(k[n - 1], s[n]) /\ s[n] \in T
    BY <1>1, <1>3, <2>3
  <2>7. Same(n)
    BY <2>3, <2>4, <2>5, <2>6
  <2>. QED BY <2>2, <2>7
<1>5. Same(Len(s))
  BY <1>1, <1>4
<1>. QED BY <1>2, <1>5

-----------------------------------------------------------------------------
(* FoldLeft is a function on the sets of the list's indices; each is       *)
(* reduced by its greatest element.  step is what the fold repeats.        *)
LEMMA LastIndex ==
    ASSUME NEW m \in Nat, m # 0
    PROVE  Max(1..m) = m /\ (1..m) \ {m} = 1..m - 1
<1>1. 1..m \subseteq 0..m /\ 1..m # {}
  OBVIOUS
<1>2. Max(1..m) \in 1..m /\ \A i \in 1..m : i <= Max(1..m)
  BY <1>1, MaxIs
<1>3. m \in 1..m
  OBVIOUS
<1>4. m <= Max(1..m)
  BY <1>2, <1>3
<1>. QED BY <1>2, <1>4

Folds(f, step, base, seq, n) ==
    \A s \in SUBSET (1..n) :
        f[s] = IF s = {} THEN base ELSE step[<<f[s \ {Max(s)}], seq[Max(s)]>>]

LEMMA FoldExists ==
    ASSUME NEW S, NEW T, NEW n \in Nat, NEW seq, \A i \in 1..n : seq[i] \in T,
           NEW base \in S, NEW step \in [S \X T -> S]
    PROVE  \E f \in [SUBSET (1..n) -> S] : Folds(f, step, base, seq, n)
<1>. DEFINE Good(m) == \E f \in [SUBSET (1..m) -> S] : Folds(f, step, base, seq, m)
            Bad == {m \in 0..n : ~Good(m)}
<1>1. Good(0)
  <2>. DEFINE f == [s \in SUBSET (1..0) |-> base]
  <2>1. f \in [SUBSET (1..0) -> S] /\ \A s \in SUBSET (1..0) : s = {} /\ f[s] = base
    OBVIOUS
  <2>. QED BY <2>1 DEF Folds
<1>2. ASSUME NEW m \in 1..n, Good(m - 1) PROVE Good(m)
  <2>1. PICK g \in [SUBSET (1..m - 1) -> S] : Folds(g, step, base, seq, m - 1)
    BY <1>2
  <2>. DEFINE f == [s \in SUBSET (1..m) |->
                       IF m \in s THEN step[<<g[s \ {m}], seq[m]>>] ELSE g[s]]
  <2>2. ASSUME NEW s \in SUBSET (1..m)
        PROVE  /\ m \in s => s \ {m} \in SUBSET (1..m - 1)
               /\ m \notin s => s \in SUBSET (1..m - 1)
    <3>1. \A i \in 1..m : i = m \/ i \in 1..m - 1
      OBVIOUS
    <3>. QED BY <3>1
  <2>3. f \in [SUBSET (1..m) -> S]
    <3>1. ASSUME NEW s \in SUBSET (1..m) PROVE f[s] \in S
      <4>1. CASE m \in s
        <5>1. <<g[s \ {m}], seq[m]>> \in S \X T
          BY <4>1, <2>1, <2>2
        <5>. QED BY <5>1, <4>1
      <4>2. CASE m \notin s
        BY <4>2, <2>1, <2>2
      <4>. QED BY <4>1, <4>2
    <3>. QED BY <3>1
  <2>4. ASSUME NEW s \in SUBSET (1..m)
        PROVE  f[s] = IF s = {} THEN base ELSE step[<<f[s \ {Max(s)}], seq[Max(s)]>>]
    <3>1. CASE m \in s
      <4>1. s \subseteq 0..m /\ m \in Nat
        OBVIOUS
      <4>2. Max(s) \in s /\ \A i \in s : i <= Max(s)
        BY <4>1, <3>1, MaxIs
      <4>3. Max(s) = m
        <5>1. m <= Max(s)
          BY <4>2, <3>1
        <5>2. Max(s) \in 0..m
          BY <4>1, <4>2
        <5>. QED BY <5>1, <5>2
      <4>4. s \ {m} \in SUBSET (1..m) /\ m \notin s \ {m}
        OBVIOUS
      <4>5. f[s \ {m}] = g[s \ {m}]
        BY <4>4
      <4>. QED BY <4>3, <4>5, <3>1
    <3>2. CASE m \notin s /\ s # {}
      <4>1. s \in SUBSET (1..m - 1) /\ s \subseteq 0..m /\ m \in Nat
        BY <3>2, <2>2
      <4>2. Max(s) \in s
        BY <4>1, <3>2, MaxIs
      <4>3. s \ {Max(s)} \in SUBSET (1..m) /\ m \notin s \ {Max(s)}
        BY <3>2
      <4>4. f[s] = g[s] /\ f[s \ {Max(s)}] = g[s \ {Max(s)}]
        BY <4>3, <3>2
      <4>5. g[s] = step[<<g[s \ {Max(s)}], seq[Max(s)]>>]
        BY <4>1, <3>2, <2>1 DEF Folds
      <4>. QED BY <4>4, <4>5, <3>2
    <3>3. CASE s = {}
      <4>1. g[{}] = base
        BY <2>1 DEF Folds
      <4>. QED BY <4>1, <3>3
    <3>. QED BY <3>1, <3>2, <3>3
  <2>. HIDE DEF f
  <2>. QED BY <2>3, <2>4 DEF Folds
<1>. HIDE DEF Good
<1>3. Bad = {}
  <2>. SUFFICES ASSUME Bad # {} PROVE FALSE
    OBVIOUS
  <2>1. Bad \subseteq Nat
    OBVIOUS
  <2>2. PICK m \in Bad : \A k \in Bad : m <= k
    BY <2>1, LeastNumber
  <2>3. m \in 1..n
    BY <1>1
  <2>4. m - 1 \in 0..n /\ m - 1 \notin Bad
    <3>1. m - 1 \in 0..n /\ ~(m <= m - 1)
      BY <2>3
    <3>. QED BY <3>1, <2>2
  <2>5. Good(m)
    BY <2>3, <2>4, <1>2
  <2>. QED BY <2>2, <2>5
<1>4. Good(n)
  BY <1>3
<1>. QED BY <1>4 DEF Good

LEMMA FoldStays ==
    ASSUME NEW S, NEW n \in Nat, NEW f, f[{}] \in S,
           \A s \in SUBSET (1..n) : s # {} /\ f[s \ {Max(s)}] \in S => f[s] \in S
    PROVE  f[1..n] \in S
<1>. DEFINE Bad == {m \in 0..n : f[1..m] \notin S}
<1>1. Bad = {}
  <2>. SUFFICES ASSUME Bad # {} PROVE FALSE
    OBVIOUS
  <2>1. Bad \subseteq Nat
    OBVIOUS
  <2>2. PICK m \in Bad : \A k \in Bad : m <= k
    BY <2>1, LeastNumber
  <2>3. m # 0 /\ m \in 1..n
    <3>1. 1..0 = {}
      OBVIOUS
    <3>. QED BY <3>1
  <2>4. m - 1 \notin Bad /\ m - 1 \in 0..n
    BY <2>2, <2>3
  <2>5. Max(1..m) = m /\ (1..m) \ {m} = 1..m - 1
    BY <2>3, LastIndex
  <2>6. 1..m \in SUBSET (1..n) /\ 1..m # {}
    BY <2>3
  <2>7. f[1..m] \in S
    BY <2>4, <2>5, <2>6
  <2>. QED BY <2>2, <2>7
<1>. QED BY <1>1

LEMMA LastOf ==
    ASSUME NEW n \in Nat, NEW s \in SUBSET (1..n), s # {}
    PROVE  Max(s) \in 1..n /\ s \ {Max(s)} \in SUBSET (1..n)
<1>1. s \subseteq 0..n
  OBVIOUS
<1>2. Max(s) \in s
  BY <1>1, MaxIs
<1>. QED BY <1>2
=============================================================================
