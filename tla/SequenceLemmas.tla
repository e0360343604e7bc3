--------------------------- MODULE SequenceLemmas ---------------------------
(***************************************************************************)
(* Sequences: what Retain does to every one of them, what FlattenSeq makes *)
(* of a sequence of texts, and the fronts of a path.  Induction is over    *)
(* sets of numbers: a set that holds 0 and the successor of each of its    *)
(* members is Nat.                                                         *)
(***************************************************************************)
EXTENDS Retain, Integers, SequencesExt, TLAPS, FiniteSetTheorems, SequenceTheorems

-----------------------------------------------------------------------------
(* Induction.                                                              *)

\* A set of numbers has a least one.
LEMMA LeastNumber ==
    ASSUME NEW T \in SUBSET Nat, T # {}
    PROVE  \E m \in T : \A k \in T : m <= k
<1> DEFINE U == { 1 .. i : i \in T }
<1>1. U \subseteq FiniteSubsetsOf(Nat) /\ U # {}
  <2>1. \A i \in Nat : IsFiniteSet(1 .. i) /\ 1 .. i \subseteq Nat
    BY FS_Interval
  <2>2. FiniteSubsetsOf(Nat) = { V \in SUBSET Nat : IsFiniteSet(V) }
    BY DEF FiniteSubsetsOf
  <2> QED
    BY <2>1, <2>2
<1>2. PICK X \in U : \A Y \in U : << Y, X >> \notin StrictSubsetOrdering(Nat)
  BY <1>1, WFMin, FS_StrictSubsetOrderingWellFounded
<1>3. PICK m \in T : X = 1 .. m
  OBVIOUS
<1>4. ASSUME NEW k \in T PROVE m <= k
  <2> SUFFICES ASSUME k < m PROVE FALSE
    OBVIOUS
  <2>1. 1 .. k \subseteq 1 .. m /\ m \in 1 .. m /\ m \notin 1 .. k
    OBVIOUS
  <2>2. << 1 .. k, X >> \in StrictSubsetOrdering(Nat)
    BY <1>3, <2>1 DEF StrictSubsetOrdering
  <2> QED
    BY <1>2, <2>2
<1> QED
  BY <1>4

LEMMA NumbersInduction ==
    ASSUME NEW T \in SUBSET Nat, 0 \in T, \A n \in T : n + 1 \in T
    PROVE  T = Nat
<1> SUFFICES ASSUME Nat \ T # {} PROVE FALSE
  OBVIOUS
<1>1. PICK m \in Nat \ T : \A k \in Nat \ T : m <= k
  BY LeastNumber
<1>2. m # 0 /\ m - 1 \in Nat
  BY SMT
<1>3. m - 1 \in T
  BY <1>1, <1>2
<1> QED
  BY <1>2, <1>3

-----------------------------------------------------------------------------
(* Retain, one member at a time.                                           *)

\* What the recursive function of Retain is asked to be.
Fills(f, s, S, n) ==
    f = [i \in 0 .. n |->
            IF i = 0 THEN << >>
            ELSE IF s[i] \in S THEN Append(f[i - 1], s[i]) ELSE f[i - 1]]

LEMMA KeptExists ==
    ASSUME NEW s, NEW S, NEW n \in Nat
    PROVE  \E f : Fills(f, s, S, n)
<1> DEFINE T == { k \in Nat : \E f : Fills(f, s, S, k) }
<1>1. 0 \in T
  <2> DEFINE f == [i \in 0 .. 0 |-> << >>]
  <2>1. Fills(f, s, S, 0)
    BY DEF Fills
  <2> QED
    BY <2>1
<1>2. ASSUME NEW k \in T PROVE k + 1 \in T
  <2>1. PICK f : Fills(f, s, S, k)
    BY <1>2
  <2> DEFINE g == [i \in 0 .. k + 1 |->
                     IF i = 0 THEN << >>
                     ELSE IF s[i] \in S THEN Append(f[i - 1], s[i])
                     ELSE f[i - 1]]
  <2>2. ASSUME NEW i \in 0 .. k PROVE g[i] = f[i]
    <3>1. i \in 0 .. k + 1
      OBVIOUS
    <3>2. f[i] = IF i = 0 THEN << >>
                 ELSE IF s[i] \in S THEN Append(f[i - 1], s[i])
                 ELSE f[i - 1]
      BY <2>1, Zenon DEF Fills
    <3> QED
      BY <3>1, <3>2, Zenon
  <2>3. \A i \in 0 .. k + 1 : i # 0 => i - 1 \in 0 .. k
    OBVIOUS
  <2>4. Fills(g, s, S, k + 1)
    BY <2>2, <2>3, Zenon DEF Fills
  <2> QED
    BY <2>4
<1> QED
  BY <1>1, <1>2, NumbersInduction

\* From nothing to the whole of it.
Stepwise(f, s, S) ==
    /\ f[0] = << >>
    /\ \A i \in 1 .. Len(s) :
        f[i] = IF s[i] \in S THEN Append(f[i - 1], s[i]) ELSE f[i - 1]
    /\ Retain(s, S) = f[Len(s)]

LEMMA RetainSteps ==
    ASSUME NEW X, NEW s \in Seq(X), NEW S
    PROVE  \E f \in [0 .. Len(s) -> Seq(X)] : Stepwise(f, s, S)
<1> DEFINE f == CHOOSE g : Fills(g, s, S, Len(s))
<1>1. Fills(f, s, S, Len(s))
  BY KeptExists, SMTT(60)
<1>2. Retain(s, S) = f[Len(s)]
  BY DEF Retain, Fills
<1> HIDE DEF f
<1>3. DOMAIN f = 0 .. Len(s) /\ f[0] = << >>
  BY <1>1 DEF Fills
<1>4. ASSUME NEW i \in 1 .. Len(s)
      PROVE  f[i] = IF s[i] \in S THEN Append(f[i - 1], s[i]) ELSE f[i - 1]
  <2>1. i \in 0 .. Len(s) /\ i # 0
    OBVIOUS
  <2> QED
    BY <1>1, <2>1, Zenon DEF Fills
<1> DEFINE T == { k \in Nat : k <= Len(s) => f[k] \in Seq(X) }
<1>5. T = Nat
  <2>1. 0 \in T
    BY <1>3
  <2>2. ASSUME NEW k \in T, k + 1 <= Len(s) PROVE f[k + 1] \in Seq(X)
    <3>1. k + 1 \in 1 .. Len(s) /\ s[k + 1] \in X
      BY <2>2, ElementOfSeq, LenProperties
    <3>2. f[k] \in Seq(X) /\ (k + 1) - 1 = k
      BY <2>2, <3>1, LenProperties
    <3>3. f[k + 1] = IF s[k + 1] \in S THEN Append(f[k], s[k + 1]) ELSE f[k]
      BY <1>4, <3>1, <3>2, Zenon
    <3> QED
      BY <3>1, <3>2, <3>3, AppendProperties
  <2>3. \A k \in T : k + 1 \in T
    BY <2>2
  <2> HIDE DEF T
  <2>4. T \in SUBSET Nat
    BY DEF T
  <2> QED
    BY <2>1, <2>3, <2>4, NumbersInduction
<1>6. f \in [0 .. Len(s) -> Seq(X)]
  <2>1. \A k \in 0 .. Len(s) : f[k] \in Seq(X)
    BY <1>5
  <2>2. f = [k \in 0 .. Len(s) |-> f[k]]
    BY <1>1, <1>3, Zenon DEF Fills
  <2> QED
    BY <2>1, <2>2
<1> QED
  BY <1>2, <1>3, <1>4, <1>6 DEF Stepwise

-----------------------------------------------------------------------------
(* What the whole of it does.                                              *)

LEMMA AppendRange ==
    ASSUME NEW X, NEW t \in Seq(X), NEW x \in X
    PROVE  Range(Append(t, x)) = Range(t) \cup { x }
<1>1. /\ DOMAIN t = 1 .. Len(t) /\ Len(t) \in Nat
      /\ DOMAIN Append(t, x) = 1 .. Len(t) + 1
      /\ \A i \in 1 .. Len(t) : Append(t, x)[i] = t[i]
      /\ Append(t, x)[Len(t) + 1] = x
  BY AppendProperties, LenProperties
<1>2. 1 .. Len(t) + 1 = 1 .. Len(t) \cup { Len(t) + 1 }
  BY <1>1
<1> QED
  BY <1>1, <1>2, ZenonT(60) DEF Range

\* Retain keeps the members that are in the set and no other, and does not
\* double any.
LEMMA RetainMembers ==
    ASSUME NEW X, NEW s \in Seq(X), NEW S
    PROVE  /\ Retain(s, S) \in Seq(X)
           /\ Range(Retain(s, S)) = Range(s) \cap S
<1>1. PICK f \in [0 .. Len(s) -> Seq(X)] : Stepwise(f, s, S)
  BY RetainSteps
<1> PICK n : n = Len(s)
  OBVIOUS
<1>2. n \in Nat /\ f \in [0 .. n -> Seq(X)] /\ Retain(s, S) = f[n]
  BY <1>1 DEF Stepwise
<1> DEFINE Seen(k) == { s[i] : i \in 1 .. k }
           T == { k \in Nat : k <= n => Range(f[k]) = Seen(k) \cap S }
<1>3. 0 \in T
  BY <1>1 DEF Range, Stepwise
<1>4. ASSUME NEW k \in T, k + 1 <= n
      PROVE  Range(f[k + 1]) = Seen(k + 1) \cap S
  <2>1. k + 1 \in 1 .. n /\ k \in 0 .. n /\ (k + 1) - 1 = k
    BY <1>2, <1>4
  <2>2. f[k + 1] = IF s[k + 1] \in S THEN Append(f[k], s[k + 1]) ELSE f[k]
    BY <1>1, <2>1 DEF Stepwise
  <2>3. Range(f[k]) = Seen(k) \cap S /\ f[k] \in Seq(X)
    BY <1>2, <1>4, <2>1
  <2>4. Seen(k + 1) = Seen(k) \cup { s[k + 1] }
    OBVIOUS
  <2>6. s[k + 1] \in X
    BY <2>1
  <2> QED
    BY <2>2, <2>3, <2>4, <2>6, AppendRange
<1>5. T = Nat
  <2>1. ASSUME NEW k \in T PROVE k + 1 \in T
    <3> k + 1 \in Nat
      OBVIOUS
    <3>1. CASE k + 1 <= n
      BY <1>4, <3>1, Zenon
    <3>2. CASE ~(k + 1 <= n)
      BY <3>2
    <3> QED
      BY <3>1, <3>2
  <2> HIDE DEF T
  <2>2. T \in SUBSET Nat
    BY DEF T
  <2> QED
    BY <1>3, <2>1, <2>2, NumbersInduction
<1>6. Range(f[n]) = Seen(n) \cap S
  BY <1>2, <1>5
<1>7. Seen(n) = Range(s)
  BY <1>2 DEF Range
<1> QED
  BY <1>2, <1>6, <1>7

\* A sequence in which nothing is twice.
Distinct(s) == \A i, k \in 1 .. Len(s) : s[i] = s[k] => i = k

LEMMA AppendDistinct ==
    ASSUME NEW X, NEW t \in Seq(X), NEW x \in X, Distinct(t), x \notin Range(t)
    PROVE  Distinct(Append(t, x))
<1>1. /\ DOMAIN t = 1 .. Len(t) /\ Len(t) \in Nat
      /\ Len(Append(t, x)) = Len(t) + 1
      /\ \A i \in 1 .. Len(t) : Append(t, x)[i] = t[i]
      /\ Append(t, x)[Len(t) + 1] = x
  BY AppendProperties, LenProperties
<1>2. \A i \in 1 .. Len(t) : t[i] # x
  BY <1>1 DEF Range
<1> QED
  BY <1>1, <1>2 DEF Distinct

LEMMA RetainDistinct ==
    ASSUME NEW X, NEW s \in Seq(X), NEW S, Distinct(s)
    PROVE  Distinct(Retain(s, S))
<1>1. PICK f \in [0 .. Len(s) -> Seq(X)] : Stepwise(f, s, S)
  BY RetainSteps
<1> PICK n : n = Len(s)
  OBVIOUS
<1>2. n \in Nat /\ f \in [0 .. n -> Seq(X)] /\ Retain(s, S) = f[n]
  BY <1>1 DEF Stepwise
<1> DEFINE Seen(k) == { s[i] : i \in 1 .. k }
           T == { k \in Nat : k <= n => /\ Distinct(f[k])
                                        /\ Range(f[k]) \subseteq Seen(k) }
<1>3. 0 \in T
  BY <1>1 DEF Range, Stepwise, Distinct
<1>4. ASSUME NEW k \in T, k + 1 <= n
      PROVE  Distinct(f[k + 1]) /\ Range(f[k + 1]) \subseteq Seen(k + 1)
  <2>1. k + 1 \in 1 .. n /\ k \in 0 .. n /\ (k + 1) - 1 = k /\ k <= n
    BY <1>2, <1>4
  <2>2. f[k + 1] = IF s[k + 1] \in S THEN Append(f[k], s[k + 1]) ELSE f[k]
    BY <1>1, <2>1 DEF Stepwise
  <2>3. Distinct(f[k]) /\ Range(f[k]) \subseteq Seen(k) /\ f[k] \in Seq(X)
    <3>1. Distinct(f[k]) /\ Range(f[k]) \subseteq Seen(k)
      BY <2>1, Zenon
    <3> QED
      BY <1>2, <2>1, <3>1
  <2>4. Seen(k + 1) = Seen(k) \cup { s[k + 1] }
    OBVIOUS
  <2>5. s[k + 1] \in X
    BY <2>1
  <2>6. s[k + 1] \notin Seen(k)
    BY <2>1 DEF Distinct
  <2> HIDE DEF Seen
  <2>7. Range(Append(f[k], s[k + 1])) = Range(f[k]) \cup { s[k + 1] }
    BY <2>3, <2>5, AppendRange
  <2>8. Distinct(Append(f[k], s[k + 1]))
    BY <2>3, <2>5, <2>6, AppendDistinct
  <2> QED
    BY <2>2, <2>3, <2>4, <2>7, <2>8
<1>5. T = Nat
  <2>1. ASSUME NEW k \in T PROVE k + 1 \in T
    <3> k + 1 \in Nat
      OBVIOUS
    <3>1. CASE k + 1 <= n
      BY <1>4, <3>1, Zenon
    <3>2. CASE ~(k + 1 <= n)
      BY <3>2
    <3> QED
      BY <3>1, <3>2
  <2> HIDE DEF T
  <2>2. T \in SUBSET Nat
    BY DEF T
  <2> QED
    BY <1>3, <2>1, <2>2, NumbersInduction
<1> QED
  BY <1>2, <1>5

-----------------------------------------------------------------------------
(* How often a sequence has members of a set.                              *)

\* The places among the first n, and how many they are.
Places(s, M, n) == { i \in 1 .. n : s[i] \in M }
CountTo(s, M, n) == Cardinality(Places(s, M, n))
Count(s, M) == CountTo(s, M, Len(s))

\* One more member.
OneMore(x, M) == IF x \in M THEN 1 ELSE 0

LEMMA CountNone ==
    ASSUME NEW s, NEW M
    PROVE  CountTo(s, M, 0) = 0
<1>1. Places(s, M, 0) = {}
  BY DEF Places
<1> QED
  BY <1>1, FS_EmptySet DEF CountTo

LEMMA CountOne ==
    ASSUME NEW s, NEW M, NEW n \in Nat
    PROVE  /\ IsFiniteSet(Places(s, M, n)) /\ CountTo(s, M, n) \in Nat
           /\ CountTo(s, M, n + 1) = CountTo(s, M, n) + OneMore(s[n + 1], M)
<1>1. IsFiniteSet(1 .. n) /\ Places(s, M, n) \in SUBSET (1 .. n)
  BY FS_Interval DEF Places
<1>2. IsFiniteSet(Places(s, M, n))
  BY <1>1, FS_Subset
<1>3. CountTo(s, M, n) \in Nat
  BY <1>2, FS_CardinalityType DEF CountTo
<1>4. CASE s[n + 1] \in M
  <2>1. Places(s, M, n + 1) = Places(s, M, n) \cup { n + 1 }
    BY <1>4 DEF Places
  <2>2. n + 1 \notin Places(s, M, n)
    BY DEF Places
  <2>3. CountTo(s, M, n + 1) = CountTo(s, M, n) + 1
    BY <1>2, <2>1, <2>2, FS_AddElement DEF CountTo
  <2> QED
    BY <1>2, <1>3, <1>4, <2>3 DEF OneMore
<1>5. CASE s[n + 1] \notin M
  <2>1. Places(s, M, n + 1) = Places(s, M, n)
    BY <1>5 DEF Places
  <2> QED
    BY <1>2, <1>3, <1>5, <2>1 DEF CountTo, OneMore
<1> QED
  BY <1>4, <1>5

Splits(M, S, T) == S \cap T = {} /\ S \cup T = M

\* What a sequence has of two sets that share nothing.
LEMMA CountSplit ==
    ASSUME NEW s, NEW n \in Nat, NEW M, NEW S, NEW T, Splits(M, S, T)
    PROVE  CountTo(s, M, n) = CountTo(s, S, n) + CountTo(s, T, n)
<1> PICK A, B : A = Places(s, S, n) /\ B = Places(s, T, n)
  OBVIOUS
<1>1. A \cap B = {} /\ Places(s, M, n) = A \cup B
  BY DEF Places, Splits
<1>2. IsFiniteSet(A) /\ IsFiniteSet(B)
  BY CountOne
<1>3. Cardinality(A \cup B) = Cardinality(A) + Cardinality(B) - Cardinality(A \cap B)
  BY <1>2, FS_Union
<1>4. Cardinality(A) \in Nat /\ Cardinality(B) \in Nat /\ Cardinality({}) = 0
  BY <1>2, FS_CardinalityType, FS_EmptySet
<1>5. /\ CountTo(s, M, n) = Cardinality(A \cup B)
      /\ CountTo(s, S, n) = Cardinality(A)
      /\ CountTo(s, T, n) = Cardinality(B)
  BY <1>1, Zenon DEF CountTo
<1>6. Cardinality(A \cap B) = 0
  BY <1>1, <1>4, Zenon
<1>7. Cardinality(A \cup B) = Cardinality(A) + Cardinality(B)
  BY ONLY <1>3, <1>4, <1>6
<1> QED
  BY ONLY <1>5, <1>7, Zenon

\* Two sequences that have the same of it.
LEMMA CountSame ==
    ASSUME NEW s, NEW t, NEW M, NEW N, NEW n,
           \A i \in 1 .. n : s[i] \in M <=> t[i] \in N
    PROVE  CountTo(s, M, n) = CountTo(t, N, n)
<1>1. Places(s, M, n) = Places(t, N, n)
  BY DEF Places
<1> QED
  BY <1>1 DEF CountTo

\* One after the other.
LEMMA CountConcat ==
    ASSUME NEW X, NEW s \in Seq(X), NEW t \in Seq(X), NEW M
    PROVE  Count(s \o t, M) = Count(s, M) + Count(t, M)
<1> PICK u, n, m : u = s \o t /\ n = Len(s) /\ m = Len(t)
  OBVIOUS
<1>1. /\ n \in Nat /\ m \in Nat /\ Len(u) = n + m
      /\ \A i \in 1 .. n : u[i] = s[i]
      /\ \A i \in 1 .. m : u[n + i] = t[i]
  <2>1. /\ u \in Seq(X) /\ Len(u) = n + m /\ n \in Nat /\ m \in Nat
        /\ \A i \in 1 .. n + m : u[i] = IF i <= n THEN s[i] ELSE t[i - n]
    BY ConcatProperties, LenProperties
  <2>2. ASSUME NEW i \in 1 .. n PROVE u[i] = s[i]
    BY <2>1
  <2>3. ASSUME NEW i \in 1 .. m PROVE u[n + i] = t[i]
    <3>1. n + i \in 1 .. n + m /\ ~(n + i <= n) /\ (n + i) - n = i
      BY <2>1
    <3> QED
      BY <2>1, <3>1
  <2> QED
    BY <2>1, <2>2, <2>3
<1>2. CountTo(u, M, n) = CountTo(s, M, n)
  BY ONLY <1>1, CountSame
<1> DEFINE T == { k \in Nat : k <= m =>
                    CountTo(u, M, n + k) = CountTo(s, M, n) + CountTo(t, M, k) }
<1>3. T = Nat
  <2>1. 0 \in T
    <3>1. CountTo(t, M, 0) = 0 /\ n + 0 = n /\ CountTo(s, M, n) \in Nat
      BY ONLY <1>1, CountNone, CountOne
    <3> QED
      BY <1>2, <3>1
  <2>2. ASSUME NEW k \in T PROVE k + 1 \in T
    <3> k + 1 \in Nat
      OBVIOUS
    <3> SUFFICES ASSUME k + 1 <= m
                 PROVE  CountTo(u, M, n + (k + 1))
                          = CountTo(s, M, n) + CountTo(t, M, k + 1)
      OBVIOUS
    <3>1. /\ k \in Nat /\ n + k \in Nat /\ n + (k + 1) = (n + k) + 1
          /\ u[(n + k) + 1] = t[k + 1]
      BY <1>1
    <3>2. CountTo(u, M, n + k) = CountTo(s, M, n) + CountTo(t, M, k)
      BY <1>1, <3>1
    <3>3. CountTo(u, M, (n + k) + 1)
            = CountTo(u, M, n + k) + OneMore(t[k + 1], M)
      <4> PICK j : j = n + k
        OBVIOUS
      <4>1. j \in Nat /\ u[j + 1] = t[k + 1]
        BY <3>1
      <4>2. CountTo(u, M, j + 1) = CountTo(u, M, j) + OneMore(u[j + 1], M)
        BY <4>1, CountOne, Zenon
      <4> QED
        BY <4>1, <4>2, Zenon
    <3>4. /\ CountTo(t, M, k) \in Nat /\ CountTo(s, M, n) \in Nat
          /\ CountTo(t, M, k + 1)
               = CountTo(t, M, k) + OneMore(t[k + 1], M)
      BY ONLY <1>1, <3>1, CountOne
    <3>5. OneMore(t[k + 1], M) \in Nat
      BY DEF OneMore
    <3>6. CountTo(u, M, n + k) + OneMore(t[k + 1], M)
            = CountTo(s, M, n) + CountTo(t, M, k + 1)
      BY ONLY <3>2, <3>4, <3>5
    <3> QED
      BY <3>1, <3>3, <3>6, Zenon
  <2> HIDE DEF T
  <2>3. T \in SUBSET Nat
    BY DEF T
  <2> QED
    BY <2>1, <2>2, <2>3, NumbersInduction
<1>4. CountTo(u, M, n + m) = CountTo(s, M, n) + CountTo(t, M, m)
  <2>1. m \in T /\ m <= m
    <3> HIDE DEF T
    <3> QED
      BY <1>1, <1>3
  <2> QED
    BY <2>1
<1> QED
  BY <1>1, <1>4 DEF Count

\* Retain keeps as many as there are.
LEMMA RetainCount ==
    ASSUME NEW X, NEW s \in Seq(X), NEW S, NEW M
    PROVE  Count(Retain(s, S), M) = Count(s, M \cap S)
<1>1. PICK f \in [0 .. Len(s) -> Seq(X)] : Stepwise(f, s, S)
  BY RetainSteps
<1> PICK n : n = Len(s)
  OBVIOUS
<1>2. n \in Nat /\ f \in [0 .. n -> Seq(X)] /\ Retain(s, S) = f[n]
  BY <1>1 DEF Stepwise
<1> DEFINE T == { k \in Nat : k <= n => Count(f[k], M) = CountTo(s, M \cap S, k) }
<1>3. 0 \in T
  <2>1. f[0] = << >> /\ Len(<< >>) = 0
    BY <1>1 DEF Stepwise
  <2> QED
    BY <2>1, CountNone DEF Count
<1>4. ASSUME NEW k \in T, k + 1 <= n
      PROVE  Count(f[k + 1], M) = CountTo(s, M \cap S, k + 1)
  <2>1. k \in Nat /\ k + 1 \in 1 .. n /\ k \in 0 .. n /\ (k + 1) - 1 = k
    BY <1>2, <1>4
  <2>2. f[k + 1] = IF s[k + 1] \in S THEN Append(f[k], s[k + 1]) ELSE f[k]
    BY <1>1, <2>1 DEF Stepwise
  <2>3. Count(f[k], M) = CountTo(s, M \cap S, k) /\ f[k] \in Seq(X)
    BY <1>2, <1>4, <2>1
  <2>4. /\ CountTo(s, M \cap S, k) \in Nat
        /\ CountTo(s, M \cap S, k + 1)
             = CountTo(s, M \cap S, k) + OneMore(s[k + 1], M \cap S)
    <3> PICK N : N = M \cap S
      OBVIOUS
    <3>1. /\ CountTo(s, N, k) \in Nat
          /\ CountTo(s, N, k + 1)
               = CountTo(s, N, k) + OneMore(s[k + 1], N)
      BY <2>1, CountOne, Zenon
    <3> QED
      BY <3>1, Zenon
  <2>5. CASE s[k + 1] \in S
    <3> PICK t, x, l, v : t = f[k] /\ x = s[k + 1] /\ l = Len(f[k]) /\ v = Append(t, x)
      OBVIOUS
    <3>1. x \in X
      BY <2>1
    <3>2. /\ l \in Nat /\ Len(v) = l + 1 /\ v[l + 1] = x
          /\ \A i \in 1 .. l : v[i] = t[i]
      BY <2>3, <3>1, AppendProperties, LenProperties
    <3>3. CountTo(v, M, l) = CountTo(t, M, l)
      BY ONLY <3>2, CountSame
    <3>4. CountTo(v, M, l + 1) = CountTo(v, M, l) + OneMore(v[l + 1], M)
      BY ONLY <3>2, CountOne
    <3>5. Count(f[k + 1], M) = CountTo(t, M, l) + OneMore(x, M)
      BY <2>2, <2>5, <3>2, <3>3, <3>4, Zenon DEF Count
    <3>6. CountTo(t, M, l) = CountTo(s, M \cap S, k)
      BY <2>3, Zenon DEF Count
    <3>7. OneMore(x, M) = OneMore(s[k + 1], M \cap S)
      BY <2>5 DEF OneMore
    <3> QED
      BY <2>4, <3>5, <3>6, <3>7, Zenon
  <2>6. CASE s[k + 1] \notin S
    <3>1. OneMore(s[k + 1], M \cap S) = 0
      BY <2>6 DEF OneMore
    <3>2. CountTo(s, M \cap S, k + 1) = CountTo(s, M \cap S, k)
      BY ONLY <2>4, <3>1
    <3> QED
      BY <2>2, <2>3, <2>6, <3>2, Zenon
  <2> QED
    BY <2>5, <2>6
<1>5. T = Nat
  <2>1. ASSUME NEW k \in T PROVE k + 1 \in T
    <3> k + 1 \in Nat
      OBVIOUS
    <3>1. CASE k + 1 <= n
      BY <1>4, <3>1, Zenon
    <3>2. CASE ~(k + 1 <= n)
      BY <3>2
    <3> QED
      BY <3>1, <3>2
  <2> HIDE DEF T
  <2>2. T \in SUBSET Nat
    BY DEF T
  <2> QED
    BY <1>3, <2>1, <2>2, NumbersInduction
<1> QED
  BY <1>2, <1>5 DEF Count

-----------------------------------------------------------------------------
(* Concatenation.                                                          *)

\* A function on 1 .. n is a sequence.
LEMMA FunctionIsSeq ==
    ASSUME NEW S, NEW n \in Nat, NEW h \in [1 .. n -> S]
    PROVE  h \in Seq(S) /\ Len(h) = n /\ DOMAIN h = 1 .. n
<1>1. h \in UNION { [1 .. m -> S] : m \in Nat }
  OBVIOUS
<1>2. h \in Seq(S)
  BY <1>1, SeqDef, Zenon
<1>3. DOMAIN h = 1 .. n /\ DOMAIN h = 1 .. Len(h) /\ Len(h) \in Nat
  BY <1>2, LenProperties
<1> DEFINE m == Len(h)
<1>4. 1 .. n = 1 .. m /\ m \in Nat
  BY <1>3
<1> HIDE DEF m
<1>5. m = n
  BY ONLY <1>4, n \in Nat
<1> QED
  BY <1>2, <1>3, <1>5 DEF m

\* What a text and one behind it make.
LEMMA ConcatFacts ==
    ASSUME NEW X, NEW a \in Seq(X), NEW b \in Seq(X)
    PROVE  /\ a \o b \in Seq(X) /\ Len(a \o b) = Len(a) + Len(b)
           /\ Len(a) \in Nat /\ Len(b) \in Nat
           /\ \A p \in 1 .. Len(a) : (a \o b)[p] = a[p]
           /\ \A j \in 1 .. Len(b) : (a \o b)[Len(a) + j] = b[j]
<1> DEFINE c == a \o b
<1>1. /\ c \in Seq(X) /\ Len(c) = Len(a) + Len(b)
      /\ \A i \in 1 .. Len(a) + Len(b) :
            c[i] = IF i <= Len(a) THEN a[i] ELSE b[i - Len(a)]
  BY ConcatProperties, Zenon
<1>2. Len(a) \in Nat /\ Len(b) \in Nat
  BY LenProperties
<1> HIDE DEF c
<1>3. \A p \in 1 .. Len(a) : c[p] = a[p]
  BY ONLY <1>1, <1>2
<1>4. ASSUME NEW j \in 1 .. Len(b) PROVE c[Len(a) + j] = b[j]
  <2> DEFINE i == Len(a) + j
  <2>1. i \in 1 .. Len(a) + Len(b) /\ ~(i <= Len(a)) /\ i - Len(a) = j
    BY ONLY <1>2, j \in 1 .. Len(b)
  <2>2. c[i] = IF i <= Len(a) THEN a[i] ELSE b[i - Len(a)]
    BY <1>1, <2>1, Zenon
  <2> QED
    BY <2>1, <2>2, Zenon
<1> QED
  BY <1>1, <1>2, <1>3, <1>4, Zenon DEF c

\* A text between two symbols.
LEMMA Between ==
    ASSUME NEW X, NEW a \in Seq(X), NEW t \in Seq(X), NEW b \in Seq(X),
           Len(a) = 1, Len(b) = 1
    PROVE  /\ (a \o t) \o b \in Seq(X) /\ Len((a \o t) \o b) = Len(t) + 2
           /\ ((a \o t) \o b)[1] = a[1] /\ ((a \o t) \o b)[Len(t) + 2] = b[1]
           /\ \A i \in 1 .. Len(t) : ((a \o t) \o b)[i + 1] = t[i]
<1> DEFINE c == a \o t
           s == c \o b
           n == Len(t)
           m == Len(c)
<1>1. /\ a \o t \in Seq(X) /\ Len(a \o t) = Len(a) + Len(t) /\ Len(t) \in Nat
      /\ \A p \in 1 .. Len(a) : (a \o t)[p] = a[p]
      /\ \A j \in 1 .. Len(t) : (a \o t)[Len(a) + j] = t[j]
  BY ConcatFacts
<1>2. /\ c \in Seq(X) /\ m = 1 + n /\ n \in Nat
      /\ \A p \in 1 .. 1 : c[p] = a[p]
      /\ \A j \in 1 .. n : c[1 + j] = t[j]
  BY <1>1, Zenon
<1>20. c \in Seq(X)
  BY <1>2
<1> HIDE DEF c
<1>3. /\ c \o b \in Seq(X) /\ Len(c \o b) = Len(c) + Len(b)
      /\ \A p \in 1 .. Len(c) : (c \o b)[p] = c[p]
      /\ \A j \in 1 .. Len(b) : (c \o b)[Len(c) + j] = b[j]
  BY ONLY <1>20, b \in Seq(X), ConcatFacts
<1>4. /\ s \in Seq(X) /\ Len(s) = m + 1
      /\ \A p \in 1 .. m : s[p] = c[p]
      /\ \A j \in 1 .. 1 : s[m + j] = b[j]
  BY <1>3, Zenon
<1> HIDE DEF s, n, m
<1>5. /\ m + 1 = n + 2 /\ 1 \in 1 .. m /\ 1 \in 1 .. 1
      /\ \A i \in 1 .. n : i + 1 \in 1 .. m /\ 1 + i = i + 1
  BY ONLY <1>2
<1>6. Len(s) = n + 2 /\ s[n + 2] = b[1]
  BY <1>4, <1>5, Zenon
<1>7. s[1] = a[1]
  <2>1. s[1] = c[1]
    BY <1>4, <1>5, Zenon
  <2>2. c[1] = a[1]
    BY <1>2, <1>5, Zenon
  <2> QED
    BY <2>1, <2>2
<1>8. ASSUME NEW i \in 1 .. n PROVE s[i + 1] = t[i]
  <2>1. s[i + 1] = c[i + 1]
    BY <1>4, <1>5, Zenon
  <2>2. c[1 + i] = t[i]
    BY <1>2, Zenon
  <2> QED
    BY <1>5, <2>1, <2>2, Zenon
<1> QED
  BY <1>4, <1>6, <1>7, <1>8, Zenon DEF s, c, n

-----------------------------------------------------------------------------
(* A sequence of texts, and the text they make.                            *)

\* What the recursive function of FlattenSeq is asked to be.
Flattens(f, ss, n) ==
    f = [i \in 1 .. n |-> IF i = 1 THEN ss[i] ELSE f[i - 1] \o ss[i]]

\* There is such a function.
LEMMA FlattensExist ==
    ASSUME NEW ss, NEW n \in Nat
    PROVE  \E f : Flattens(f, ss, n)
<1> DEFINE T == { k \in Nat : \E f : Flattens(f, ss, k) }
<1>1. 0 \in T
  <2> DEFINE f == [i \in 1 .. 0 |-> << >>]
  <2>1. 1 .. 0 = {}
    OBVIOUS
  <2>2. Flattens(f, ss, 0)
    BY <2>1 DEF Flattens
  <2> QED
    BY <2>2
<1>2. ASSUME NEW k \in T PROVE k + 1 \in T
  <2>1. PICK f : Flattens(f, ss, k)
    BY <1>2
  <2> DEFINE g == [i \in 1 .. k + 1 |-> IF i = 1 THEN ss[i] ELSE f[i - 1] \o ss[i]]
  <2>2. ASSUME NEW i \in 1 .. k PROVE g[i] = f[i]
    <3>1. i \in 1 .. k + 1
      OBVIOUS
    <3>2. f[i] = IF i = 1 THEN ss[i] ELSE f[i - 1] \o ss[i]
      BY <2>1, Zenon DEF Flattens
    <3> QED
      BY <3>1, <3>2, Zenon
  <2>3. \A i \in 1 .. k + 1 : i # 1 => i - 1 \in 1 .. k
    OBVIOUS
  <2>4. Flattens(g, ss, k + 1)
    BY <2>2, <2>3, Zenon DEF Flattens
  <2> QED
    BY <2>4
<1> QED
  BY <1>1, <1>2, NumbersInduction

\* f[k]: the first k texts, one behind the other.
Joins(f, ss, X) ==
    /\ ss \in Seq(Seq(X)) /\ f \in [0 .. Len(ss) -> Seq(X)]
    /\ f[0] = << >>
    /\ \A i \in 1 .. Len(ss) : f[i] = f[i - 1] \o ss[i]

\* FlattenSeq is the last of the texts joined.
LEMMA FlattenJoins ==
    ASSUME NEW X, NEW ss \in Seq(Seq(X))
    PROVE  \E f : Joins(f, ss, X) /\ FlattenSeq(ss) = f[Len(ss)]
<1> PICK n : n = Len(ss)
  OBVIOUS
<1>0. n \in Nat /\ \A i \in 1 .. n : ss[i] \in Seq(X)
  BY ElementOfSeq, LenProperties
<1>1. CASE n = 0
  <2> DEFINE f == [i \in 0 .. 0 |-> << >>]
  <2>1. ss = << >> /\ FlattenSeq(ss) = ss
    BY <1>1, EmptySeq DEF FlattenSeq
  <2>2. << >> \in Seq(X)
    BY EmptySeq
  <2>3. Joins(f, ss, X) /\ f[0] = << >>
    BY <1>1, <2>2 DEF Joins
  <2> QED
    BY <1>1, <2>1, <2>3
<1>2. CASE n # 0
  <2> DEFINE h == CHOOSE g : Flattens(g, ss, n)
  <2>1. Flattens(h, ss, n)
    BY <1>0, FlattensExist
  <2>2. FlattenSeq(ss) = h[n]
    BY <1>2 DEF FlattenSeq, Flattens
  <2> HIDE DEF h
  <2> DEFINE f == [i \in 0 .. n |-> IF i = 0 THEN << >> ELSE h[i]]
  <2>3. f[0] = << >> /\ f[n] = h[n] /\ DOMAIN f = 0 .. n
    BY <1>0, <1>2
  <2>4. ASSUME NEW i \in 1 .. n
        PROVE  h[i] = IF i = 1 THEN ss[i] ELSE h[i - 1] \o ss[i]
    BY <2>1, Zenon DEF Flattens
  <2>5. ASSUME NEW i \in 1 .. n PROVE f[i] = f[i - 1] \o ss[i]
    <3>1. i \in 0 .. n /\ i - 1 \in 0 .. n /\ i # 0 /\ (i = 1 <=> i - 1 = 0)
      BY <1>0
    <3>2. f[i] = h[i] /\ f[i - 1] = IF i = 1 THEN << >> ELSE h[i - 1]
      BY <3>1
    <3>3. << >> \o ss[i] = ss[i]
      BY <1>0, ConcatEmptySeq
    <3> QED
      BY <2>4, <3>2, <3>3
  <2> HIDE DEF f
  <2> DEFINE T == { k \in Nat : k <= n => f[k] \in Seq(X) }
  <2>6. 0 \in T
    BY <2>3, EmptySeq
  <2>7. ASSUME NEW k \in T PROVE k + 1 \in T
    <3> k + 1 \in Nat
      OBVIOUS
    <3> SUFFICES ASSUME k + 1 <= n PROVE f[k + 1] \in Seq(X)
      OBVIOUS
    <3>1. k + 1 \in 1 .. n /\ (k + 1) - 1 = k /\ k <= n
      BY <1>0
    <3>2. f[k] \in Seq(X) /\ ss[k + 1] \in Seq(X) /\ f[k + 1] = f[k] \o ss[k + 1]
      BY <1>0, <2>5, <3>1
    <3> QED
      BY <3>2, ConcatProperties
  <2>8. T = Nat
    <3> HIDE DEF T
    <3>1. T \in SUBSET Nat
      BY DEF T
    <3> QED
      BY <2>6, <2>7, <3>1, NumbersInduction
  <2>9. ASSUME NEW k \in 0 .. n PROVE f[k] \in Seq(X)
    <3>1. k \in Nat /\ k <= n
      BY <1>0
    <3> QED
      BY <2>8, <3>1, Zenon
  <2>10. f \in [0 .. n -> Seq(X)]
    BY <2>3, <2>9 DEF f
  <2>11. Joins(f, ss, X)
    BY <2>3, <2>5, <2>10 DEF Joins
  <2> QED
    BY <2>2, <2>3, <2>11
<1> QED
  BY <1>1, <1>2

\* Where the texts stand in what they make.
StandsBehind(f, ss, X, k) ==
    /\ k - 1 \in 0 .. Len(ss) /\ k \in 0 .. Len(ss) /\ k \in Nat
    /\ f[k - 1] \in Seq(X) /\ f[k] \in Seq(X) /\ ss[k] \in Seq(X)
    /\ f[k] = f[k - 1] \o ss[k]
    /\ Len(f[k - 1]) \in Nat /\ Len(ss[k]) \in Nat
    /\ Len(f[k]) = Len(f[k - 1]) + Len(ss[k])
    /\ \A p \in 1 .. Len(f[k - 1]) : f[k][p] = f[k - 1][p]
    /\ \A j \in 1 .. Len(ss[k]) : f[k][Len(f[k - 1]) + j] = ss[k][j]

\* A text stands behind those before it.
LEMMA JoinsStep ==
    ASSUME NEW X, NEW ss, NEW f, Joins(f, ss, X), NEW k \in 1 .. Len(ss)
    PROVE  StandsBehind(f, ss, X, k)
<1>1. Len(ss) \in Nat /\ ss[k] \in Seq(X)
  BY ElementOfSeq, LenProperties DEF Joins
<1>2. k - 1 \in 0 .. Len(ss) /\ k \in 0 .. Len(ss) /\ k \in Nat
  BY <1>1
<1>3. f[k - 1] \in Seq(X) /\ f[k] = f[k - 1] \o ss[k]
  BY <1>2 DEF Joins
<1> DEFINE a == f[k - 1]
           b == ss[k]
           c == f[k]
<1>4. a \in Seq(X) /\ b \in Seq(X) /\ c = a \o b
  BY <1>1, <1>3
<1>5. k - 1 \in 0 .. Len(ss) /\ k \in 0 .. Len(ss) /\ k \in Nat
  BY <1>2
<1> SUFFICES /\ c \in Seq(X) /\ Len(a) \in Nat /\ Len(b) \in Nat
             /\ Len(c) = Len(a) + Len(b)
             /\ \A p \in 1 .. Len(a) : c[p] = a[p]
             /\ \A j \in 1 .. Len(b) : c[Len(a) + j] = b[j]
  BY <1>4, <1>5, Zenon DEF StandsBehind
<1> HIDE DEF a, b, c
<1>6. /\ a \o b \in Seq(X) /\ Len(a \o b) = Len(a) + Len(b)
      /\ Len(a) \in Nat /\ Len(b) \in Nat
      /\ \A p \in 1 .. Len(a) : (a \o b)[p] = a[p]
      /\ \A j \in 1 .. Len(b) : (a \o b)[Len(a) + j] = b[j]
  BY <1>4, ConcatFacts
<1> QED
  BY <1>4, <1>6, Zenon

\* What is joined stays the front of what is joined later.
LEMMA JoinsGrow ==
    ASSUME NEW X, NEW ss, NEW f, Joins(f, ss, X),
           NEW m \in 0 .. Len(ss), NEW k \in 0 .. m
    PROVE  /\ k \in 0 .. Len(ss) /\ f[k] \in Seq(X) /\ f[m] \in Seq(X)
           /\ Len(f[k]) \in Nat /\ Len(f[m]) \in Nat
           /\ Len(f[k]) <= Len(f[m])
           /\ \A p \in 1 .. Len(f[k]) : f[m][p] = f[k][p]
<1> PICK n : n = Len(ss)
  OBVIOUS
<1>1. n \in Nat /\ k \in 0 .. n /\ k \in Nat
  BY LenProperties DEF Joins
<1>2. \A i \in 0 .. n : f[i] \in Seq(X) /\ Len(f[i]) \in Nat
  <2>1. \A i \in 0 .. n : f[i] \in Seq(X)
    BY DEF Joins
  <2> QED
    BY <2>1, LenProperties
<1> DEFINE T == { d \in Nat : k + d <= n =>
                    /\ Len(f[k]) <= Len(f[k + d])
                    /\ \A p \in 1 .. Len(f[k]) : f[k + d][p] = f[k][p] }
<1>3. 0 \in T
  BY <1>1, <1>2
<1>4. ASSUME NEW d \in T PROVE d + 1 \in T
  <2> d + 1 \in Nat
    OBVIOUS
  <2> PICK i : i = k + (d + 1)
    OBVIOUS
  <2> SUFFICES ASSUME i <= n
               PROVE  /\ Len(f[k]) <= Len(f[i])
                      /\ \A p \in 1 .. Len(f[k]) : f[i][p] = f[k][p]
    OBVIOUS
  <2>1. i \in 1 .. n /\ i - 1 = k + d /\ k + d <= n
    BY <1>1
  <2>2. /\ Len(f[i]) = Len(f[i - 1]) + Len(ss[i]) /\ Len(ss[i]) \in Nat
        /\ Len(f[i - 1]) \in Nat
        /\ \A p \in 1 .. Len(f[i - 1]) : f[i][p] = f[i - 1][p]
    <3>1. i \in 1 .. Len(ss)
      BY <2>1
    <3>2. StandsBehind(f, ss, X, i)
      BY <3>1, JoinsStep
    <3> QED
      BY <3>2, Zenon DEF StandsBehind
  <2>3. /\ Len(f[k]) <= Len(f[i - 1])
        /\ \A p \in 1 .. Len(f[k]) : f[i - 1][p] = f[k][p]
    BY <2>1
  <2>4. Len(f[k]) \in Nat
    BY <1>1, <1>2
  <2>5. Len(f[k]) <= Len(f[i])
    <3> DEFINE a == Len(f[k])
               b == Len(f[i - 1])
               c == Len(ss[i])
               e == Len(f[i])
    <3>1. a \in Nat /\ b \in Nat /\ c \in Nat /\ a <= b /\ e = b + c
      BY <2>2, <2>3, <2>4, Zenon
    <3> SUFFICES a <= e
      OBVIOUS
    <3> HIDE DEF a, b, c, e
    <3> QED
      BY ONLY <3>1
  <2>6. ASSUME NEW p \in 1 .. Len(f[k]) PROVE f[i][p] = f[k][p]
    <3>1. p \in 1 .. Len(f[i - 1])
      BY ONLY <2>2, <2>3, <2>4, p \in 1 .. Len(f[k])
    <3>2. f[i - 1][p] = f[k][p] /\ f[i][p] = f[i - 1][p]
      BY <2>2, <2>3, <3>1, Zenon
    <3> QED
      BY <3>2, Zenon
  <2> QED
    BY <2>5, <2>6, Zenon
<1>5. T = Nat
  <2> HIDE DEF T
  <2>1. T \in SUBSET Nat
    BY DEF T
  <2> QED
    BY <1>3, <1>4, <2>1, NumbersInduction
<1>6. m - k \in Nat /\ k + (m - k) = m /\ m <= n /\ m \in 0 .. n
  BY <1>1
<1>7. m - k \in T
  BY <1>5, <1>6
<1> QED
  BY <1>1, <1>2, <1>6, <1>7

\* The same texts make the same text.
LEMMA JoinsSame ==
    ASSUME NEW X, NEW ss, NEW tt, NEW f, NEW g, Joins(f, ss, X), Joins(g, tt, X),
           NEW n \in Nat, n <= Len(ss), n <= Len(tt),
           \A i \in 1 .. n : ss[i] = tt[i]
    PROVE  f[n] = g[n]
<1> DEFINE T == { k \in Nat : k <= n => f[k] = g[k] }
<1>0. Len(ss) \in Nat /\ Len(tt) \in Nat
  BY LenProperties DEF Joins
<1>1. 0 \in T
  BY DEF Joins
<1>2. ASSUME NEW k \in T PROVE k + 1 \in T
  <2> k + 1 \in Nat
    OBVIOUS
  <2> SUFFICES ASSUME k + 1 <= n PROVE f[k + 1] = g[k + 1]
    OBVIOUS
  <2>1. /\ k + 1 \in 1 .. Len(ss) /\ k + 1 \in 1 .. Len(tt) /\ k + 1 \in 1 .. n
        /\ (k + 1) - 1 = k /\ k <= n
    BY <1>0
  <2>2. f[k + 1] = f[k] \o ss[k + 1] /\ g[k + 1] = g[k] \o tt[k + 1]
    BY <2>1, Zenon DEF Joins
  <2>3. f[k] = g[k] /\ ss[k + 1] = tt[k + 1]
    BY <2>1
  <2> QED
    BY <2>2, <2>3, Zenon
<1>3. T = Nat
  <2> HIDE DEF T
  <2>1. T \in SUBSET Nat
    BY DEF T
  <2> QED
    BY <1>1, <1>2, <2>1, NumbersInduction
<1> QED
  BY <1>3

\* FlattenSeq and a text more.
LEMMA FlattenAppend ==
    ASSUME NEW X, NEW ss \in Seq(Seq(X)), NEW t \in Seq(X)
    PROVE  /\ FlattenSeq(Append(ss, t)) = FlattenSeq(ss) \o t
           /\ FlattenSeq(ss) \in Seq(X)
<1> DEFINE tt == Append(ss, t)
           n == Len(ss)
<1>1. /\ tt \in Seq(Seq(X)) /\ Len(tt) = n + 1 /\ n \in Nat
      /\ \A i \in 1 .. n : tt[i] = ss[i]
      /\ tt[n + 1] = t
  BY AppendProperties, LenProperties
<1> HIDE DEF tt, n
<1>2. PICK f : Joins(f, ss, X) /\ FlattenSeq(ss) = f[n]
  BY FlattenJoins DEF n
<1>3. PICK g : Joins(g, tt, X) /\ FlattenSeq(tt) = g[n + 1]
  BY <1>1, FlattenJoins
<1>4. n <= Len(ss) /\ n <= Len(tt) /\ n + 1 \in 1 .. Len(tt) /\ (n + 1) - 1 = n
  BY <1>1 DEF n
<1>5. f[n] = g[n]
  BY <1>1, <1>2, <1>3, <1>4, JoinsSame
<1>6. g[n + 1] = g[n] \o tt[n + 1]
  BY <1>3, <1>4, Zenon DEF Joins
<1>7. FlattenSeq(tt) = FlattenSeq(ss) \o t
  BY <1>1, <1>2, <1>3, <1>5, <1>6, Zenon
<1>8. f[n] \in Seq(X)
  <2>1. n = Len(ss) /\ n \in 0 .. n
    BY <1>1 DEF n
  <2>2. f \in [0 .. n -> Seq(X)]
    BY <1>2, <2>1, Zenon DEF Joins
  <2> QED
    BY <2>1, <2>2
<1> QED
  BY <1>2, <1>7, <1>8, Zenon DEF tt

-----------------------------------------------------------------------------
(* The front of a sequence, and its last element.                          *)

\* The first n elements of p.
Cut(p, n) == SubSeq(p, 1, n)

\* What is in it.
LEMMA CutFacts ==
    ASSUME NEW X, NEW p \in Seq(X), NEW n \in 0 .. Len(p)
    PROVE  /\ Cut(p, n) \in Seq(X) /\ Len(Cut(p, n)) = n
           /\ \A i \in 1 .. n : Cut(p, n)[i] = p[i]
<1>1. Len(p) \in Nat /\ n \in Int /\ \A i \in 1 .. n : p[i] \in X
  BY ElementOfSeq, LenProperties
<1>2. /\ SubSeq(p, 1, n) \in Seq(X)
      /\ Len(SubSeq(p, 1, n)) = IF 1 <= n THEN n - 1 + 1 ELSE 0
      /\ \A i \in 1 .. n - 1 + 1 : SubSeq(p, 1, n)[i] = p[1 + i - 1]
  BY ONLY <1>1, 1 \in Int, SubSeqProperties
<1> QED
  BY <1>1, <1>2 DEF Cut

\* All of the elements.
LEMMA CutWhole ==
    ASSUME NEW X, NEW p \in Seq(X)
    PROVE  Cut(p, Len(p)) = p
<1>1. Len(p) \in 0 .. Len(p)
  BY LenProperties
<1> QED
  BY <1>1, CutFacts, SeqEqual

\* A front of a front.
LEMMA CutCut ==
    ASSUME NEW X, NEW p \in Seq(X), NEW m \in 0 .. Len(p), NEW n \in 0 .. m
    PROVE  Cut(Cut(p, m), n) = Cut(p, n)
<1> PICK q : q = Cut(p, m)
  OBVIOUS
<1>0. q \in Seq(X) /\ Len(q) = m /\ \A i \in 1 .. m : q[i] = p[i]
  BY CutFacts
<1>1. /\ q \in Seq(X) /\ Len(q) = m /\ \A i \in 1 .. m : q[i] = p[i]
      /\ n \in 0 .. Len(p) /\ n \in 0 .. Len(q)
  BY <1>0, LenProperties
<1>2. /\ Cut(q, n) \in Seq(X) /\ Len(Cut(q, n)) = n
      /\ \A i \in 1 .. n : Cut(q, n)[i] = q[i]
  BY <1>1, CutFacts
<1>3. /\ Cut(p, n) \in Seq(X) /\ Len(Cut(p, n)) = n
      /\ \A i \in 1 .. n : Cut(p, n)[i] = p[i]
  BY <1>1, CutFacts
<1>4. \A i \in 1 .. n : Cut(q, n)[i] = Cut(p, n)[i]
  BY <1>1, <1>2, <1>3, LenProperties
<1> QED
  BY <1>2, <1>3, <1>4, SeqEqual

\* A front does not see what is appended.
LEMMA CutAppend ==
    ASSUME NEW X, NEW p \in Seq(X), NEW x \in X, NEW n \in 0 .. Len(p)
    PROVE  Cut(Append(p, x), n) = Cut(p, n)
<1> PICK q : q = Append(p, x)
  OBVIOUS
<1>1. /\ q \in Seq(X) /\ n \in 0 .. Len(q) /\ \A i \in 1 .. n : q[i] = p[i]
  BY AppendProperties, LenProperties
<1>2. /\ Cut(q, n) \in Seq(X) /\ Len(Cut(q, n)) = n
      /\ \A i \in 1 .. n : Cut(q, n)[i] = q[i]
  BY <1>1, CutFacts
<1>3. /\ Cut(p, n) \in Seq(X) /\ Len(Cut(p, n)) = n
      /\ \A i \in 1 .. n : Cut(p, n)[i] = p[i]
  BY CutFacts
<1>4. \A i \in 1 .. n : Cut(q, n)[i] = Cut(p, n)[i]
  BY <1>1, <1>2, <1>3
<1> QED
  BY <1>2, <1>3, <1>4, SeqEqual

\* A front and one element more.
LEMMA CutNext ==
    ASSUME NEW X, NEW p \in Seq(X), NEW n \in 0 .. Len(p), n # Len(p)
    PROVE  /\ Cut(p, n + 1) = Append(Cut(p, n), p[n + 1])
           /\ Front(Cut(p, n + 1)) = Cut(p, n) /\ Cut(p, n + 1) # << >>
<1>1. /\ n \in Nat /\ n + 1 \in 0 .. Len(p) /\ n \in 0 .. n + 1
      /\ n + 1 \in 1 .. Len(p) /\ p[n + 1] \in X
  BY ElementOfSeq, LenProperties
<1> PICK q, r : q = Cut(p, n) /\ r = Cut(p, n + 1)
  OBVIOUS
<1>2. q \in Seq(X) /\ Len(q) = n /\ \A i \in 1 .. n : q[i] = p[i]
  BY CutFacts
<1>3. r \in Seq(X) /\ Len(r) = n + 1 /\ \A i \in 1 .. n + 1 : r[i] = p[i]
  BY <1>1, CutFacts
<1>4. /\ Append(q, p[n + 1]) \in Seq(X) /\ Len(Append(q, p[n + 1])) = n + 1
      /\ \A i \in 1 .. n : Append(q, p[n + 1])[i] = q[i]
      /\ Append(q, p[n + 1])[n + 1] = p[n + 1]
  BY <1>1, <1>2, AppendProperties
<1>5. \A i \in 1 .. n + 1 : r[i] = Append(q, p[n + 1])[i]
  BY <1>1, <1>2, <1>3, <1>4
<1>6. r = Append(q, p[n + 1])
  BY <1>3, <1>4, <1>5, SeqEqual
<1>7. Front(r) = Cut(r, n)
  BY <1>1, <1>3 DEF Front, Cut
<1>8. Cut(r, n) = q
  BY <1>1, CutCut
<1>9. r # << >>
  BY <1>1, <1>3
<1> QED
  BY <1>6, <1>7, <1>8, <1>9

\* A sequence is its front and its last element.
LEMMA FrontAndLast ==
    ASSUME NEW X, NEW s \in Seq(X), s # << >>
    PROVE  /\ Front(s) \in Seq(X) /\ Len(Front(s)) = Len(s) - 1
           /\ Len(s) \in Nat /\ Len(s) # 0
           /\ \A i \in 1 .. Len(s) - 1 : Front(s)[i] = s[i]
           /\ Last(s) = s[Len(s)] /\ Last(s) \in X
           /\ s = Front(s) \o << Last(s) >>
<1> DEFINE n == Len(s)
           m == n - 1
<1>1. n \in Nat /\ n # 0 /\ m \in 0 .. n /\ m + 1 = n /\ m # n /\ n \in 1 .. n
  BY LenProperties, EmptySeq
<1>2. Front(s) = Cut(s, m)
  BY DEF Front, Cut
<1>3. Last(s) = s[n] /\ s[n] \in X
  BY <1>1, ElementOfSeq DEF Last
<1>4. /\ Cut(s, m) \in Seq(X) /\ Len(Cut(s, m)) = m
      /\ \A i \in 1 .. m : Cut(s, m)[i] = s[i]
  BY <1>1, CutFacts
<1>5. Cut(s, m + 1) = Append(Cut(s, m), s[m + 1]) /\ Cut(s, n) = s
  BY <1>1, CutNext, CutWhole
<1>6. s = Append(Front(s), Last(s))
  BY <1>1, <1>2, <1>3, <1>5, Zenon
<1>7. Append(Front(s), Last(s)) = Front(s) \o << Last(s) >>
  BY <1>2, <1>3, <1>4, AppendIsConcat
<1> QED
  BY <1>1, <1>2, <1>3, <1>4, <1>6, <1>7

=============================================================================
