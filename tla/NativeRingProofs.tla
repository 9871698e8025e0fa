-------------------------- MODULE NativeRingProofs --------------------------
(* Proofs about NativeRing, for every value of its constants.              *)
EXTENDS NativeLife, SequenceTheorems, FunctionTheorems, FiniteSetTheorems,
        WellFoundedInduction, TLAPS

-----------------------------------------------------------------------------
(* Induction, through the least counterexample.                            *)

\* A set of natural numbers that is not empty has a least element.
LEMMA Least ==
    ASSUME NEW T \in SUBSET Nat, T # {}
    PROVE  \E x \in T : \A y \in T : x <= y
<1> DEFINE R == OpToRel(<, Nat)
<1>1. IsWellFoundedOn(R, Nat)
  BY NatLessThanWellFounded
<1>2. \A x, y \in Nat : y < x => <<y, x>> \in R
  BY DEF OpToRel
<1> HIDE DEF R
<1>3. PICK x \in T : \A y \in T : ~(<<y, x>> \in R)
  BY <1>1, WFMin
<1>4. \A y \in T : y \in Nat /\ x \in Nat /\ ~(y < x)
  BY <1>2, <1>3
<1> QED
  BY <1>4

\* A statement about numbers that holds of 0 and of n + 1 whenever it holds of n, given as
\* the set G of the numbers it holds of, holds of every number.
LEMMA Induct ==
    ASSUME NEW G, 0 \in G, \A n \in Nat : n \in G => n + 1 \in G
    PROVE  \A n \in Nat : n \in G
<1> DEFINE T == {n \in Nat : n \notin G}
<1> SUFFICES ASSUME T # {} PROVE FALSE
  OBVIOUS
<1>1. PICK x \in T : \A y \in T : x <= y
  BY Least
<1>2. x \in Nat /\ x # 0
  OBVIOUS
<1>3. x - 1 \in Nat /\ (x - 1) + 1 = x /\ ~(x <= x - 1)
  BY <1>2
<1>4. x - 1 \in G
  BY <1>1, <1>3
<1> QED
  BY <1>3, <1>4

-----------------------------------------------------------------------------
(* Sequences.                                                              *)

Step(l, T, f, i) == IF l[i] \in T THEN Append(f[i - 1], l[i]) ELSE f[i - 1]

\* The part of a selection up to the i-th element.
Parts(l, T, n, f) == f[0] = <<>> /\ \A i \in 1 .. n : f[i] = Step(l, T, f, i)

\* The function that defines a selection exists.
LEMMA PartsExist ==
    ASSUME NEW S, NEW l \in Seq(S), NEW T
    PROVE  \A n \in Nat : n <= Len(l) => \E f \in [0 .. n -> Seq(S)] : Parts(l, T, n, f)
<1> DEFINE G == {n \in Nat : n <= Len(l) => \E f \in [0 .. n -> Seq(S)] : Parts(l, T, n, f)}
<1>1. 0 \in G
  <2>1. [i \in 0 .. 0 |-> <<>>] \in [0 .. 0 -> Seq(S)]
    OBVIOUS
  <2>2. Parts(l, T, 0, [i \in 0 .. 0 |-> <<>>])
    BY DEF Parts
  <2> QED
    BY <2>1, <2>2
<1>2. ASSUME NEW n \in Nat, n \in G PROVE n + 1 \in G
  <2> SUFFICES ASSUME n + 1 <= Len(l)
               PROVE  \E f \in [0 .. n + 1 -> Seq(S)] : Parts(l, T, n + 1, f)
    OBVIOUS
  <2>1. PICK f \in [0 .. n -> Seq(S)] : Parts(l, T, n, f)
    BY <1>2
  <2> DEFINE e == Step(l, T, f, n + 1)
             g == [i \in 0 .. n + 1 |-> IF i = n + 1 THEN e ELSE f[i]]
  <2>2. e \in Seq(S)
    <3>1. l[n + 1] \in S /\ f[(n + 1) - 1] \in Seq(S)
      <4>1. n + 1 \in 1 .. Len(l) /\ (n + 1) - 1 \in 0 .. n
        OBVIOUS
      <4> QED
        BY <4>1
    <3> QED
      BY <3>1, AppendProperties DEF Step
  <2> HIDE DEF e
  <2>3. /\ g \in [0 .. n + 1 -> Seq(S)] /\ g[n + 1] = e
        /\ \A i \in 0 .. n : g[i] = f[i]
    <3>1. \A i \in 0 .. n + 1 : i = n + 1 \/ i \in 0 .. n
      OBVIOUS
    <3>2. \A i \in 0 .. n : i \in 0 .. n + 1 /\ i # n + 1
      OBVIOUS
    <3>3. n + 1 \in 0 .. n + 1
      OBVIOUS
    <3> QED
      BY <2>2, <3>1, <3>2, <3>3
  <2> HIDE DEF g
  <2>4. Parts(l, T, n + 1, g)
    <3>1. g[0] = <<>>
      <4>1. 0 \in 0 .. n
        OBVIOUS
      <4> QED
        BY <2>1, <2>3, <4>1 DEF Parts
    <3>2. ASSUME NEW i \in 1 .. n + 1 PROVE g[i] = Step(l, T, g, i)
      <4>1. i - 1 \in 0 .. n
        OBVIOUS
      <4>2. CASE i = n + 1
        BY <2>3, <4>1, <4>2 DEF e, Step
      <4>3. CASE i # n + 1
        <5>1. i \in 1 .. n /\ i \in 0 .. n
          BY <4>3
        <5> QED
          BY <2>1, <2>3, <4>1, <5>1 DEF Parts, Step
      <4> QED
        BY <4>2, <4>3
    <3> QED
      BY <3>1, <3>2 DEF Parts
  <2> QED
    BY <2>3, <2>4
<1> HIDE DEF G
<1>3. \A n \in Nat : n \in G
  BY <1>1, <1>2, Induct
<1> QED
  BY <1>3 DEF G

\* A selection is the last of its parts.
LEMMA SelectParts ==
    ASSUME NEW S, NEW l \in Seq(S), NEW T
    PROVE  \E f \in [0 .. Len(l) -> Seq(S)] : Parts(l, T, Len(l), f) /\ Select(l, T) = f[Len(l)]
<1> DEFINE Rec(f) == [i \in 0 .. Len(l) |->
                        IF i = 0 THEN <<>>
                        ELSE IF l[i] \in T THEN Append(f[i - 1], l[i]) ELSE f[i - 1]]
           F == CHOOSE f : f = Rec(f)
<1>1. Select(l, T) = F[Len(l)]
  BY DEF Select
<1>0. Len(l) \in Nat /\ Len(l) <= Len(l)
  OBVIOUS
<1>2. PICK f \in [0 .. Len(l) -> Seq(S)] : Parts(l, T, Len(l), f)
  BY <1>0, PartsExist
<1>3. f = Rec(f)
  <2>1. \A i \in 0 .. Len(l) : i = 0 \/ i \in 1 .. Len(l)
    OBVIOUS
  <2>2. \A i \in 0 .. Len(l) : f[i] = IF i = 0 THEN <<>>
                                      ELSE IF l[i] \in T THEN Append(f[i - 1], l[i]) ELSE f[i - 1]
    BY <1>2, <2>1 DEF Parts, Step
  <2> QED
    BY <2>2
<1>4. F = Rec(F)
  BY <1>3
<1> HIDE DEF F
<1>5. /\ F[0] = <<>> /\ F = [i \in 0 .. Len(l) |-> F[i]]
      /\ \A i \in 1 .. Len(l) : F[i] = Step(l, T, F, i)
  <2>1. \A i \in 1 .. Len(l) : i \in 0 .. Len(l) /\ i # 0
    OBVIOUS
  <2>2. 0 \in 0 .. Len(l)
    BY <1>0
  <2> QED
    BY <1>4, <2>1, <2>2 DEF Step
<1>6. \A n \in Nat : n <= Len(l) => F[n] \in Seq(S)
  <2> DEFINE G == {n \in Nat : n <= Len(l) => F[n] \in Seq(S)}
  <2>1. 0 \in G
    <3>1. <<>> \in Seq(S) /\ F[0] = <<>>
      BY <1>5
    <3> QED
      BY <3>1
  <2>2. ASSUME NEW n \in Nat, n \in G PROVE n + 1 \in G
    <3> SUFFICES ASSUME n + 1 <= Len(l) PROVE F[n + 1] \in Seq(S)
      OBVIOUS
    <3>1. n + 1 \in 1 .. Len(l) /\ (n + 1) - 1 = n /\ n <= Len(l)
      BY <1>0
    <3>2. l[n + 1] \in S /\ F[n] \in Seq(S)
      BY <2>2, <3>1
    <3>3. F[n + 1] = IF l[n + 1] \in T THEN Append(F[n], l[n + 1]) ELSE F[n]
      BY <1>5, <3>1 DEF Step
    <3>4. Append(F[n], l[n + 1]) \in Seq(S)
      BY <3>2, AppendProperties
    <3> QED
      BY <3>2, <3>3, <3>4
  <2> HIDE DEF G
  <2>3. \A n \in Nat : n \in G
    BY <2>1, <2>2, Induct
  <2> QED
    BY <2>3 DEF G
<1>7. F \in [0 .. Len(l) -> Seq(S)]
  <2>1. \A i \in 0 .. Len(l) : i \in Nat /\ i <= Len(l)
    BY <1>0
  <2> QED
    BY <1>5, <1>6, <2>1
<1> QED
  BY <1>1, <1>5, <1>7 DEF Parts

\* No element of s occurs twice; the elements of s grow.
Once(s)       == \A i, j \in 1 .. Len(s) : s[i] = s[j] => i = j
Increasing(s) == \A i, j \in 1 .. Len(s) : i < j => s[i] < s[j]

\* The elements of a sequence, by index.
LEMMA Elements ==
    ASSUME NEW S, NEW s \in Seq(S)
    PROVE  /\ ToSet(s) = {s[i] : i \in 1 .. Len(s)} /\ ToSet(s) \subseteq S
           /\ Len(s) \in Nat /\ \A i \in 1 .. Len(s) : s[i] \in S
           /\ ToSet(s) = {} <=> s = <<>>
<1>1. DOMAIN s = 1 .. Len(s) /\ Len(s) \in Nat /\ \A i \in 1 .. Len(s) : s[i] \in S
  BY LenProperties
<1>2. ToSet(s) = {s[i] : i \in 1 .. Len(s)}
  BY <1>1 DEF ToSet
<1>3. s # <<>> => 1 \in 1 .. Len(s)
  OBVIOUS
<1>4. s = <<>> => 1 .. Len(s) = {}
  OBVIOUS
<1> QED
  BY <1>1, <1>2, <1>3, <1>4

\* Appending an element.
LEMMA AppendElements ==
    ASSUME NEW S, NEW s \in Seq(S), NEW e \in S
    PROVE  /\ Append(s, e) \in Seq(S) /\ Len(Append(s, e)) = Len(s) + 1
           /\ Append(s, e)[Len(s) + 1] = e
           /\ \A i \in 1 .. Len(s) : Append(s, e)[i] = s[i]
           /\ ToSet(Append(s, e)) = ToSet(s) \cup {e}
           /\ Once(s) /\ e \notin ToSet(s) => Once(Append(s, e))
           /\ Increasing(s) /\ (\A x \in ToSet(s) : x < e) => Increasing(Append(s, e))
<1> DEFINE t == Append(s, e)
<1>1. /\ t \in Seq(S) /\ Len(t) = Len(s) + 1 /\ t[Len(s) + 1] = e
      /\ \A i \in 1 .. Len(s) : t[i] = s[i]
  BY AppendProperties
<1>2. Len(s) \in Nat
  OBVIOUS
<1> HIDE DEF t
<1>3. /\ \A i \in 1 .. Len(t) : i \in 1 .. Len(s) \/ i = Len(s) + 1
      /\ \A i \in 1 .. Len(s) : i \in 1 .. Len(t) /\ i # Len(s) + 1 /\ ~(Len(s) + 1 < i)
      /\ Len(s) + 1 \in 1 .. Len(t) /\ ~(Len(s) + 1 < Len(s) + 1)
  BY <1>1, <1>2
<1>4. /\ ToSet(s) = {s[i] : i \in 1 .. Len(s)}
      /\ ToSet(t) = {t[i] : i \in 1 .. Len(t)}
  BY <1>1, Elements
<1>5. ToSet(t) = ToSet(s) \cup {e}
  BY <1>1, <1>3, <1>4
<1>6. ASSUME Once(s), e \notin ToSet(s) PROVE Once(t)
  <2>1. \A i \in 1 .. Len(s) : s[i] # e
    BY <1>4, <1>6
  <2> QED
    BY <1>1, <1>3, <1>6, <2>1 DEF Once
<1>7. ASSUME Increasing(s), \A x \in ToSet(s) : x < e PROVE Increasing(t)
  <2>1. \A i \in 1 .. Len(s) : s[i] < e
    BY <1>4, <1>7
  <2> QED
    BY <1>1, <1>3, <1>7, <2>1 DEF Increasing
<1> QED
  BY <1>1, <1>5, <1>6, <1>7 DEF t

\* A selection keeps the elements in T, and their order.
LEMMA Selection ==
    ASSUME NEW S \in SUBSET Nat, NEW l \in Seq(S), NEW T
    PROVE  /\ Select(l, T) \in Seq(S)
           /\ ToSet(Select(l, T)) = ToSet(l) \cap T
           /\ Increasing(l) => Increasing(Select(l, T))
<1>1. PICK f \in [0 .. Len(l) -> Seq(S)] : Parts(l, T, Len(l), f) /\ Select(l, T) = f[Len(l)]
  BY SelectParts
<1>2. Len(l) \in Nat /\ \A i \in 1 .. Len(l) : l[i] \in S
  OBVIOUS
<1> DEFINE Upto(n) == {l[i] : i \in 1 .. n}
           Good(n) == /\ ToSet(f[n]) = Upto(n) \cap T
                      /\ Increasing(l) => Increasing(f[n])
           G == {n \in Nat : n <= Len(l) => Good(n)}
<1>3. 0 \in G
  <2>1. f[0] = <<>> /\ f[0] \in Seq(S)
    BY <1>1, <1>2 DEF Parts
  <2>2. ToSet(f[0]) = {} /\ Upto(0) = {}
    BY <2>1, Elements
  <2>3. Increasing(f[0])
    BY <2>1 DEF Increasing
  <2> QED
    BY <2>2, <2>3
<1>4. ASSUME NEW n \in Nat, n \in G PROVE n + 1 \in G
  <2> SUFFICES ASSUME n + 1 <= Len(l) PROVE Good(n + 1)
    OBVIOUS
  <2>1. /\ n + 1 \in 1 .. Len(l) /\ (n + 1) - 1 = n /\ n <= Len(l) /\ n \in 0 .. Len(l)
        /\ \A i \in 1 .. n : i \in 1 .. Len(l) /\ i < n + 1
    BY <1>2
  <2>2. f[n + 1] = IF l[n + 1] \in T THEN Append(f[n], l[n + 1]) ELSE f[n]
    BY <1>1, <2>1 DEF Parts, Step
  <2>3. Upto(n + 1) = Upto(n) \cup {l[n + 1]}
    <3>1. 1 .. n + 1 = 1 .. n \cup {n + 1}
      OBVIOUS
    <3> QED
      BY <3>1
  <2>4. Good(n)
    BY <1>4, <2>1
  <2>5. l[n + 1] \in S /\ f[n] \in Seq(S)
    BY <1>1, <1>2, <2>1
  <2>6. CASE l[n + 1] \in T
    <3>1. f[n + 1] = Append(f[n], l[n + 1])
      BY <2>2, <2>6
    <3>2. ToSet(f[n + 1]) = ToSet(f[n]) \cup {l[n + 1]}
      BY <2>5, <3>1, AppendElements
    <3>3. ASSUME Increasing(l) PROVE Increasing(f[n + 1])
      <4>1. \A i \in 1 .. n : l[i] < l[n + 1]
        BY <2>1, <3>3 DEF Increasing
      <4>2. \A x \in ToSet(f[n]) : x < l[n + 1]
        BY <2>4, <4>1
      <4> QED
        BY <2>4, <2>5, <3>1, <3>3, <4>2, AppendElements
    <3> QED
      BY <2>3, <2>4, <2>6, <3>2, <3>3
  <2>7. CASE l[n + 1] \notin T
    BY <2>2, <2>3, <2>4, <2>7
  <2> QED
    BY <2>6, <2>7
<1> HIDE DEF G
<1>5. \A n \in Nat : n \in G
  BY <1>3, <1>4, Induct
<1>6. Good(Len(l))
  <2>1. Len(l) \in Nat /\ Len(l) <= Len(l)
    BY <1>2
  <2>2. Len(l) \in G
    BY <1>5, <2>1
  <2> QED
    BY <2>1, <2>2 DEF G
<1>7. ToSet(l) = Upto(Len(l))
  BY Elements
<1>8. Len(l) \in 0 .. Len(l)
  BY <1>2
<1> QED
  BY <1>1, <1>6, <1>7, <1>8

\* Two growing sequences with the same elements: each has the other's elements in front.
LEMMA GrowingPrefix ==
    ASSUME NEW s \in Seq(Nat), NEW t \in Seq(Nat), Increasing(s), Increasing(t), ToSet(s) = ToSet(t)
    PROVE  \A i \in 1 .. Len(s) : i \in 1 .. Len(t) /\ t[i] = s[i]
<1> DEFINE D == {i \in 1 .. Len(s) : ~(i \in 1 .. Len(t) /\ t[i] = s[i])}
<1> SUFFICES ASSUME D # {} PROVE FALSE
  OBVIOUS
<1>0. /\ Len(s) \in Nat /\ Len(t) \in Nat
      /\ \A i \in 1 .. Len(s) : s[i] \in Nat
      /\ \A i \in 1 .. Len(t) : t[i] \in Nat
  OBVIOUS
<1>1. PICK i \in D : \A j \in D : i <= j
  <2>1. D \in SUBSET Nat
    BY <1>0
  <2> QED
    BY <2>1, Least
<1>2. \A j \in 1 .. Len(s) : j < i => j \in 1 .. Len(t) /\ t[j] = s[j]
  BY <1>0, <1>1
<1>3. i \in 1 .. Len(s) /\ ~(i \in 1 .. Len(t) /\ t[i] = s[i])
  OBVIOUS
<1> HIDE DEF D
<1>4. /\ \A j \in 1 .. Len(s) : \E p \in 1 .. Len(t) : s[j] = t[p]
      /\ \A p \in 1 .. Len(t) : \E j \in 1 .. Len(s) : t[p] = s[j]
  <2>1. ToSet(s) = {s[j] : j \in 1 .. Len(s)} /\ ToSet(t) = {t[p] : p \in 1 .. Len(t)}
    BY Elements
  <2> QED
    BY <2>1
<1>5. PICK p \in 1 .. Len(t) : s[i] = t[p]
  BY <1>3, <1>4
<1>6. ~(p < i)
  <2> SUFFICES ASSUME p < i PROVE FALSE
    OBVIOUS
  <2>1. p \in 1 .. Len(s)
    BY <1>0, <1>3
  <2>2. t[p] = s[p] /\ s[p] < s[i] /\ s[p] \in Nat /\ s[i] \in Nat
    BY <1>0, <1>2, <1>3, <2>1 DEF Increasing
  <2> QED
    BY <1>5, <2>2
<1>7. i \in 1 .. Len(t) /\ i # p /\ i < p
  <2>0. Len(t) \in Nat /\ i \in Nat /\ 1 <= i /\ p \in Nat /\ p <= Len(t)
    BY <1>0, <1>3
  <2>1. i \in 1 .. Len(t) /\ (i = p \/ i < p)
    BY <1>6, <2>0
  <2>2. i # p
    BY <1>3, <1>5, <2>1
  <2> QED
    BY <2>1, <2>2
<1>8. t[i] < s[i] /\ t[i] \in Nat /\ s[i] \in Nat
  BY <1>0, <1>3, <1>5, <1>7 DEF Increasing
<1>9. PICK j \in 1 .. Len(s) : t[i] = s[j]
  BY <1>4, <1>7
<1>10. CASE j < i
  <2>1. j \in 1 .. Len(t) /\ t[j] = s[j]
    BY <1>2, <1>10
  <2>2. t[j] < t[i] /\ t[j] \in Nat
    BY <1>0, <1>7, <1>10, <2>1 DEF Increasing
  <2> QED
    BY <1>8, <1>9, <2>1, <2>2
<1>11. CASE j = i
  BY <1>8, <1>9, <1>11
<1>12. CASE i < j
  <2>1. s[i] < s[j]
    BY <1>3, <1>12 DEF Increasing
  <2>2. s[j] \in Nat
    BY <1>0
  <2> QED
    BY <1>8, <1>9, <2>1, <2>2
<1>13. i \in Nat /\ j \in Nat
  BY <1>0, <1>3
<1> QED
  BY <1>10, <1>11, <1>12, <1>13

\* A growing sequence is determined by its elements.
LEMMA GrowingUnique ==
    ASSUME NEW s \in Seq(Nat), NEW t \in Seq(Nat), Increasing(s), Increasing(t), ToSet(s) = ToSet(t)
    PROVE  s = t
<1>1. \A i \in 1 .. Len(s) : i \in 1 .. Len(t) /\ t[i] = s[i]
  BY GrowingPrefix
<1>2. \A i \in 1 .. Len(t) : i \in 1 .. Len(s)
  BY GrowingPrefix
<1>3. Len(s) = Len(t)
  <2>1. Len(s) \in Nat /\ Len(t) \in Nat
    OBVIOUS
  <2>2. Len(s) # 0 => Len(s) \in 1 .. Len(s)
    BY <2>1
  <2>3. Len(t) # 0 => Len(t) \in 1 .. Len(t)
    BY <2>1
  <2>4. Len(s) <= Len(t)
    BY <1>1, <2>1, <2>2
  <2>5. Len(t) <= Len(s)
    BY <1>2, <2>1, <2>3
  <2> QED
    BY <2>1, <2>4, <2>5
<1> QED
  BY <1>1, <1>3, SeqEqual

\* A sequence without repetition is as long as the set of its elements is large.
LEMMA OnceLength ==
    ASSUME NEW S, NEW s \in Seq(S), Once(s)
    PROVE  IsFiniteSet(ToSet(s)) /\ Cardinality(ToSet(s)) = Len(s)
<1> DEFINE f == [i \in 1 .. Len(s) |-> s[i]]
<1>1. Len(s) \in Nat /\ ToSet(s) = {s[i] : i \in 1 .. Len(s)}
  BY Elements
<1>2. f \in Bijection(1 .. Len(s), ToSet(s))
  BY <1>1, Fun_IsBij DEF Once
<1>3. IsFiniteSet(1 .. Len(s)) /\ Cardinality(1 .. Len(s)) = Len(s)
  <2>1. /\ IsFiniteSet(1 .. Len(s))
        /\ Cardinality(1 .. Len(s)) = IF 1 > Len(s) THEN 0 ELSE Len(s) - 1 + 1
    BY <1>1, 1 \in Int, Len(s) \in Int, FS_Interval
  <2> QED
    BY <1>1, <2>1
<1>4. ExistsBijection(1 .. Len(s), ToSet(s))
  BY <1>2 DEF ExistsBijection
<1> QED
  BY <1>3, <1>4, FS_Bijection

\* A growing sequence repeats nothing.
LEMMA GrowingOnce ==
    ASSUME NEW s \in Seq(Nat), Increasing(s)
    PROVE  Once(s)
<1> SUFFICES ASSUME NEW i \in 1 .. Len(s), NEW j \in 1 .. Len(s), s[i] = s[j] PROVE i = j
  BY DEF Once
<1>1. i \in Nat /\ j \in Nat /\ s[i] \in Nat /\ s[j] \in Nat
  OBVIOUS
<1>2. CASE i < j
  <2>1. s[i] < s[j]
    BY <1>2 DEF Increasing
  <2> QED
    BY <1>1, <2>1
<1>3. CASE j < i
  <2>1. s[j] < s[i]
    BY <1>3 DEF Increasing
  <2> QED
    BY <1>1, <2>1
<1> QED
  BY <1>1, <1>2, <1>3

Firsts(s, k) == {s[i] : i \in 1 .. k}

\* The first k elements of a queue and the rest.
LEMMA Cut ==
    ASSUME NEW S, NEW s \in Seq(S), NEW k \in 0 .. Len(s)
    PROVE  /\ SubSeq(s, k + 1, Len(s)) \in Seq(S)
           /\ Len(SubSeq(s, k + 1, Len(s))) = Len(s) - k
           /\ Firsts(s, k) \subseteq S
           /\ ToSet(s) = Firsts(s, k) \cup ToSet(SubSeq(s, k + 1, Len(s)))
           /\ Once(s) => /\ Firsts(s, k) \cap ToSet(SubSeq(s, k + 1, Len(s))) = {}
                         /\ Once(SubSeq(s, k + 1, Len(s)))
           /\ Increasing(s) => Increasing(SubSeq(s, k + 1, Len(s)))
<1> DEFINE a == SubSeq(s, k + 1, Len(s))
           P == Firsts(s, k)
<1>P. P = {s[i] : i \in 1 .. k}
  BY DEF Firsts
<1> HIDE DEF P
<1>0. Len(s) \in Nat /\ k \in Nat /\ \A i \in 1 .. Len(s) : s[i] \in S
  OBVIOUS
<1>1. /\ a \in Seq(S) /\ Len(a) = Len(s) - k
      /\ \A i \in 1 .. Len(s) - k : a[i] = s[k + i]
  <2>1. k + 1 \in Int /\ Len(s) \in Int /\ \A i \in k + 1 .. Len(s) : s[i] \in S
    BY <1>0
  <2>2. /\ a \in Seq(S) /\ Len(a) = IF k + 1 <= Len(s) THEN Len(s) - (k + 1) + 1 ELSE 0
        /\ \A i \in 1 .. Len(s) - (k + 1) + 1 : a[i] = s[k + 1 + i - 1]
    BY <2>1, SubSeqProperties
  <2>3. Len(s) - (k + 1) + 1 = Len(s) - k /\ \A i \in 1 .. Len(s) - k : k + 1 + i - 1 = k + i
    BY <1>0
  <2> HIDE DEF a
  <2> QED
    BY <1>0, <2>2, <2>3
<1> HIDE DEF a
<1>2. /\ \A i \in 1 .. Len(a) : k + i \in 1 .. Len(s) /\ k + i \notin 1 .. k
      /\ \A i \in 1 .. k : i \in 1 .. Len(s)
      /\ \A i \in 1 .. Len(s) : i \in 1 .. k \/ (i - k \in 1 .. Len(a) /\ k + (i - k) = i)
      /\ \A i, j \in 1 .. Len(a) : /\ k + i = k + j => i = j
                                   /\ i < j => k + i < k + j
  BY <1>0, <1>1
<1>3. ToSet(s) = {s[i] : i \in 1 .. Len(s)} /\ ToSet(a) = {a[i] : i \in 1 .. Len(a)}
  BY <1>1, Elements
<1>4. \A i \in 1 .. Len(a) : a[i] = s[k + i]
  <2>1. 1 .. Len(a) = 1 .. Len(s) - k
    BY <1>1
  <2> QED
    BY <1>1, <2>1
<1>5. P \subseteq ToSet(s) /\ P \subseteq S
  <2> SUFFICES ASSUME NEW i \in 1 .. k PROVE s[i] \in ToSet(s) /\ s[i] \in S
    BY <1>P
  <2>1. i \in 1 .. Len(s)
    BY <1>2
  <2> QED
    BY <1>0, <1>3, <2>1
<1>6. ToSet(a) \subseteq ToSet(s)
  BY <1>2, <1>3, <1>4
<1>7. ToSet(s) \subseteq P \cup ToSet(a)
  <2> SUFFICES ASSUME NEW i \in 1 .. Len(s) PROVE s[i] \in P \cup ToSet(a)
    BY <1>3
  <2>1. CASE i \in 1 .. k
    BY <1>P, <2>1
  <2>2. CASE i - k \in 1 .. Len(a) /\ k + (i - k) = i
    BY <1>3, <1>4, <2>2
  <2> QED
    BY <1>2, <2>1, <2>2
<1>8. ASSUME Once(s) PROVE P \cap ToSet(a) = {} /\ Once(a)
  <2>1. \A i \in 1 .. k, j \in 1 .. Len(a) : s[i] # a[j]
    BY <1>2, <1>4, <1>8 DEF Once
  <2>2. \A i, j \in 1 .. Len(a) : a[i] = a[j] => i = j
    BY <1>2, <1>4, <1>8 DEF Once
  <2> QED
    BY <1>P, <1>3, <2>1, <2>2 DEF Once
<1>9. ASSUME Increasing(s) PROVE Increasing(a)
  BY <1>2, <1>4, <1>9 DEF Increasing
<1> QED
  BY <1>1, <1>5, <1>6, <1>7, <1>8, <1>9 DEF a, P

-----------------------------------------------------------------------------
(* The inductive invariant.  Where a request is: in the list l, and with   *)
(* the kernel in the queue s, in flight i or completed c.  Both list and   *)
(* queue are in the order of allocation.                                   *)

Places(l, s, i, c, m) ==
    /\ Increasing(l) /\ Increasing(s) /\ Once(c)
    /\ ToSet(l) = ToSet(s) \cup i \cup ToSet(c)
    /\ ToSet(s) \cap i = {} /\ ToSet(s) \cap ToSet(c) = {} /\ i \cap ToSet(c) = {}
    /\ ToSet(l) \subseteq 1 .. m

\* The state of a request tells where it is.
States(l, s, i, c, m, st) ==
    /\ \A r \in ToSet(s) : st[r] = "prepared"
    /\ \A r \in i \cup ToSet(c) : st[r] = "submitted"
    /\ \A r \in 1 .. m : r \in ToSet(l) \/ st[r] \in {"completed", "cancelled"}

Counts ==
    /\ pending = Len(list) /\ prepared = Len(sq) /\ broken = {}
    /\ ~initialized => list = <<>>

\* What an interrupted reap has completed is no longer in the list.
FrameOK(f, l, m) == f.got \subseteq 1 .. m /\ f.got \cap ToSet(l) = {} /\ (f.call = "submit" => f.got = {})

Frames(k, l, m) == \A i \in 1 .. Len(k) : FrameOK(k[i], l, m)

One(b)     == IF b THEN 1 ELSE 0
Held(k, r) == Cardinality({i \in 1 .. Len(k) : r \in k[i].got})

\* Who holds the references of a request.
References(l, k, m, rf, ur) ==
    \A r \in Requests : /\ rf[r] = ur[r] + One(r \in ToSet(l)) + Held(k, r)
                        /\ r \notin 1 .. m => ur[r] = 0

RingInv ==
    /\ TypeOK
    /\ Places(list, sq, inflight, cq, made)
    /\ States(list, sq, inflight, cq, made, state)
    /\ Counts
    /\ Frames(stack, list, made)
    /\ References(list, stack, made, refs, userRefs)

FrameRecords == [call : {"submit", "reap"}, generation : Nat, got : SUBSET Requests]

\* What the frames of a longer stack hold.
LEMMA HeldAppend ==
    ASSUME NEW k \in Seq(FrameRecords), NEW f \in FrameRecords, NEW r
    PROVE  /\ Held(k, r) \in Nat
           /\ Held(Append(k, f), r) = Held(k, r) + One(r \in f.got)
<1> DEFINE t == Append(k, f)
           A == {i \in 1 .. Len(k) : r \in k[i].got}
           B == {i \in 1 .. Len(t) : r \in t[i].got}
<1>1. /\ Len(k) \in Nat /\ Len(t) = Len(k) + 1 /\ t[Len(k) + 1] = f
      /\ \A i \in 1 .. Len(k) : t[i] = k[i]
  BY AppendElements
<1> HIDE DEF t
<1>2. /\ \A i \in 1 .. Len(t) : i \in 1 .. Len(k) \/ i = Len(k) + 1
      /\ \A i \in 1 .. Len(k) : i \in 1 .. Len(t) /\ i # Len(k) + 1
      /\ Len(k) + 1 \in 1 .. Len(t)
  BY <1>1
<1>3. IsFiniteSet(A) /\ Cardinality(A) \in Nat
  <2>1. IsFiniteSet(1 .. Len(k))
    BY <1>1, FS_Interval
  <2>2. IsFiniteSet(A)
    BY <2>1, FS_Subset
  <2> QED
    BY <2>2, FS_CardinalityType
<1>4. CASE r \in f.got
  <2>1. B = A \cup {Len(k) + 1} /\ Len(k) + 1 \notin A
    BY <1>1, <1>2, <1>4
  <2>2. Cardinality(A \cup {Len(k) + 1}) = Cardinality(A) + 1
    BY <1>3, <2>1, FS_AddElement
  <2> QED
    BY <1>3, <1>4, <2>1, <2>2 DEF Held, One, t
<1>5. CASE r \notin f.got
  <2>1. B = A
    BY <1>1, <1>2, <1>5
  <2>2. Held(k, r) = Cardinality(A) /\ Held(Append(k, f), r) = Cardinality(B)
    BY DEF Held, t
  <2>3. One(r \in f.got) = 0
    BY <1>5 DEF One
  <2> HIDE DEF A, B
  <2> QED
    BY <1>3, <2>1, <2>2, <2>3
<1> QED
  BY <1>4, <1>5

\* A non-empty stack is its top on what is below.
LEMMA StackTop ==
    ASSUME TypeOK, Interrupted
    PROVE  /\ Below \in Seq(FrameRecords) /\ Top \in FrameRecords /\ stack = Append(Below, Top)
           /\ Len(Below) \in Nat /\ Len(stack) = Len(Below) + 1
           /\ \A i \in 1 .. Len(Below) : i \in 1 .. Len(stack) /\ Below[i] = stack[i]
           /\ Len(stack) \in 1 .. Len(stack)
<1>1. stack \in Seq(FrameRecords) /\ stack # <<>>
  BY DEF TypeOK, Interrupted, FrameRecords
<1>2. Len(stack) \in Nat \ {0} /\ Len(stack) - 1 \in Nat
  BY <1>1
<1>3. Top \in FrameRecords
  BY <1>1, <1>2 DEF Top
<1>4. /\ Below \in Seq(FrameRecords) /\ Len(Below) = Len(stack) - 1
      /\ \A i \in 1 .. Len(stack) - 1 : Below[i] = stack[i]
  <2> DEFINE n == Len(stack) - 1
  <2>1. n \in 0 .. Len(stack)
    BY <1>2
  <2>2. Below = SubSeq(stack, 1, n)
    BY DEF Below
  <2> HIDE DEF n
  <2>3. /\ SubSeq(stack, 1, n) \in Seq(FrameRecords) /\ Len(SubSeq(stack, 1, n)) = n
        /\ \A i \in 1 .. n : SubSeq(stack, 1, n)[i] = stack[i]
    BY <1>1, <2>1, SubSeqProperties
  <2> QED
    BY <2>2, <2>3 DEF n
<1>5. /\ \A i \in 1 .. Len(Below) : i \in 1 .. Len(stack)
      /\ Len(stack) = Len(Below) + 1 /\ Len(Below) \in Nat /\ Len(stack) \in 1 .. Len(stack)
      /\ \A i \in 1 .. Len(stack) : i \in 1 .. Len(Below) \/ i = Len(Below) + 1
  BY <1>2, <1>4
<1> DEFINE t == Append(Below, Top)
<1>6. /\ t \in Seq(FrameRecords) /\ Len(t) = Len(Below) + 1 /\ t[Len(Below) + 1] = Top
      /\ \A i \in 1 .. Len(Below) : t[i] = Below[i]
  BY <1>3, <1>4, AppendElements
<1>7. Top = stack[Len(Below) + 1]
  BY <1>5 DEF Top
<1> HIDE DEF t
<1>8. \A i \in 1 .. Len(stack) : stack[i] = t[i]
  BY <1>4, <1>5, <1>6, <1>7
<1>9. stack = t
  BY <1>1, <1>5, <1>6, <1>8, SeqEqual
<1> QED
  BY <1>3, <1>4, <1>5, <1>9 DEF t

-----------------------------------------------------------------------------
(* Calls, with below interrupted under them and got reaped before.         *)

Under(below, got) ==
    /\ below \in Seq(FrameRecords) /\ Frames(below, list, made)
    /\ got \in SUBSET Requests /\ got \subseteq 1 .. made /\ got \cap ToSet(list) = {}
    /\ \A r \in Requests : /\ Held(below, r) \in Nat
                           /\ Held(stack, r) = Held(below, r) + One(r \in got)

\* The numbers of requests.
LEMMA RequestNumbers ==
    /\ Requests \in SUBSET Nat /\ MaxRequests \in Nat
    /\ \A s \in Seq(Requests) : s \in Seq(Nat)
<1>1. MaxRequests \in Nat
  BY RingAssumption
<1>2. Requests \subseteq Nat
  BY <1>1 DEF Requests
<1>3. ASSUME NEW s \in Seq(Requests) PROVE s \in Seq(Nat)
  <2>1. s \in [1 .. Len(s) -> Requests] /\ Len(s) \in Nat
    BY LenProperties
  <2>2. s \in [1 .. Len(s) -> Nat]
    BY <1>2, <2>1
  <2> QED
    BY <2>1, <2>2, SeqDef
<1> QED
  BY <1>1, <1>2, <1>3

\* What the walk or the unlinking leaves of a list.
LEMMA SelectRequests ==
    ASSUME NEW l \in Seq(Requests), Increasing(l), NEW T
    PROVE  /\ Select(l, T) \in Seq(Requests) /\ ToSet(Select(l, T)) = ToSet(l) \cap T
           /\ Increasing(Select(l, T))
BY Selection, RequestNumbers

\* A call that was not interrupted yet.
LEMMA UnderSelf ==
    ASSUME RingInv
    PROVE  Under(stack, {})
<1>1. stack \in Seq(FrameRecords) /\ Frames(stack, list, made)
  BY DEF RingInv, TypeOK, FrameRecords
<1>2. ASSUME NEW r \in Requests PROVE Held(stack, r) \in Nat /\ Held(stack, r) = Held(stack, r) + One(r \in {})
  <2> DEFINE f == [call |-> "submit", generation |-> 0, got |-> {}]
  <2>1. f \in FrameRecords
    BY DEF FrameRecords
  <2>2. Held(stack, r) \in Nat
    BY <1>1, <2>1, HeldAppend
  <2>3. One(r \in {}) = 0
    BY DEF One
  <2> QED
    BY <2>2, <2>3
<1> QED
  BY <1>1, <1>2 DEF Under

\* The innermost interrupted call.
LEMMA UnderTop ==
    ASSUME RingInv, Interrupted
    PROVE  Under(Below, Top.got) /\ Top \in FrameRecords /\ (Top.call = "submit" => Top.got = {})
<1>1. TypeOK /\ Frames(stack, list, made)
  BY DEF RingInv
<1>2. /\ Below \in Seq(FrameRecords) /\ Top \in FrameRecords /\ stack = Append(Below, Top)
      /\ \A i \in 1 .. Len(Below) : i \in 1 .. Len(stack) /\ Below[i] = stack[i]
      /\ Len(stack) \in 1 .. Len(stack)
  BY <1>1, StackTop
<1>3. FrameOK(Top, list, made)
  BY <1>1, <1>2 DEF Frames, Top
<1>4. Frames(Below, list, made)
  BY <1>1, <1>2 DEF Frames
<1>5. Top.got \in SUBSET Requests
  BY <1>2 DEF FrameRecords
<1>6. \A r \in Requests : /\ Held(Below, r) \in Nat
                          /\ Held(stack, r) = Held(Below, r) + One(r \in Top.got)
  BY <1>2, HeldAppend
<1> QED
  BY <1>2, <1>3, <1>4, <1>5, <1>6 DEF Under, FrameOK

\* The prepared requests of the list are the queue, in the same order.
LEMMA WalkFindsQueue ==
    ASSUME RingInv
    PROVE  PreparedInList(list) = sq
<1> DEFINE T == {r \in Requests : state[r] = "prepared"}
           p == Select(list, T)
<1>1. list \in Seq(Requests) /\ sq \in Seq(Requests)
  BY DEF RingInv, TypeOK
<1>2. /\ Increasing(list) /\ Increasing(sq) /\ ToSet(list) = ToSet(sq) \cup inflight \cup ToSet(cq)
  BY DEF RingInv, Places
<1>3. p \in Seq(Requests) /\ ToSet(p) = ToSet(list) \cap T /\ Increasing(p)
  BY <1>1, <1>2, SelectRequests
<1>4. ToSet(sq) \subseteq T
  BY <1>1, Elements DEF RingInv, States
<1>5. \A r \in inflight \cup ToSet(cq) : r \notin T
  BY DEF RingInv, States
<1>6. ToSet(p) = ToSet(sq)
  BY <1>2, <1>3, <1>4, <1>5
<1>7. p = sq
  BY <1>1, <1>2, <1>3, <1>6, GrowingUnique, RequestNumbers
<1> QED
  BY <1>7 DEF PreparedInList

\* Everything there is numbered.
LEMMA RequestSets ==
    ASSUME TypeOK
    PROVE  /\ ToSet(sq) \subseteq Requests /\ inflight \subseteq Requests /\ ToSet(cq) \subseteq Requests
           /\ 1 .. made \subseteq Requests /\ ToSet(list) \subseteq Requests /\ made \in Nat
<1>1. ToSet(sq) \subseteq Requests /\ ToSet(cq) \subseteq Requests /\ ToSet(list) \subseteq Requests
  BY Elements DEF TypeOK
<1>2. made \in Nat /\ made <= MaxRequests
  <2>1. MaxRequests \in Nat /\ made \in 0 .. MaxRequests
    BY RequestNumbers DEF TypeOK
  <2> QED
    BY <2>1
<1>3. \A r \in 1 .. made : r \in 1 .. MaxRequests
  BY <1>2, RequestNumbers
<1> QED
  BY <1>1, <1>2, <1>3 DEF TypeOK, Requests

\* Reassembling the invariant.
LEMMA RingAgain ==
    ASSUME TypeOK', Places(list', sq', inflight', cq', made'),
           States(list', sq', inflight', cq', made', state'), Counts',
           Frames(stack', list', made'), References(list', stack', made', refs', userRefs')
    PROVE  RingInv'
BY DEF RingInv

\* The frame of a call interrupted now.
LEMMA FrameType ==
    ASSUME TypeOK, NEW call \in {"submit", "reap"}, NEW got \in SUBSET Requests
    PROVE  /\ Frame(call, got) \in FrameRecords
           /\ Frame(call, got).call = call /\ Frame(call, got).got = got
BY DEF Frame, FrameRecords, TypeOK

\* One more frame on a stack of good frames.
LEMMA FramesAppend ==
    ASSUME NEW k \in Seq(FrameRecords), NEW f \in FrameRecords, NEW l, NEW m,
           Frames(k, l, m), FrameOK(f, l, m)
    PROVE  Append(k, f) \in Seq(FrameRecords) /\ Frames(Append(k, f), l, m)
<1> DEFINE t == Append(k, f)
<1>1. /\ t \in Seq(FrameRecords) /\ Len(t) = Len(k) + 1 /\ t[Len(k) + 1] = f /\ Len(k) \in Nat
      /\ \A i \in 1 .. Len(k) : t[i] = k[i]
  BY AppendElements
<1> HIDE DEF t
<1>2. \A i \in 1 .. Len(t) : i \in 1 .. Len(k) \/ i = Len(k) + 1
  BY <1>1
<1> QED
  BY <1>1, <1>2 DEF Frames, t

\* io_uring_submit moves the first k requests of the queue, and the walk marks them.
LEMMA SubmitMoves ==
    ASSUME RingInv, NEW k \in 0 .. Len(sq), MarkSubmitted(k),
           sq' = SubSeq(sq, k + 1, Len(sq)),
           inflight' = inflight \cup {sq[i] : i \in 1 .. k},
           UNCHANGED <<list, cq, made>>
    PROVE  /\ Places(list', sq', inflight', cq', made')
           /\ States(list', sq', inflight', cq', made', state')
           /\ state' \in [Requests -> {"none", "prepared", "submitted", "completed", "cancelled"}]
           /\ sq' \in Seq(Requests) /\ inflight' \subseteq Requests
           /\ prepared' = Len(sq') /\ prepared' \in Nat /\ broken' = {}
<1> DEFINE P == Firsts(sq, k)
           a == SubSeq(sq, k + 1, Len(sq))
<1>0. /\ TypeOK /\ sq \in Seq(Requests) /\ Len(sq) \in Nat /\ k \in Nat /\ k <= Len(sq)
      /\ prepared = Len(sq) /\ broken = {}
  BY DEF RingInv, TypeOK, Counts
<1>1. /\ Increasing(list) /\ Increasing(sq) /\ Once(cq)
      /\ ToSet(list) = ToSet(sq) \cup inflight \cup ToSet(cq)
      /\ ToSet(sq) \cap inflight = {} /\ ToSet(sq) \cap ToSet(cq) = {} /\ inflight \cap ToSet(cq) = {}
      /\ ToSet(list) \subseteq 1 .. made
  BY DEF RingInv, Places
<1>2. Once(sq)
  BY <1>0, <1>1, GrowingOnce, RequestNumbers
<1>3. /\ a \in Seq(Requests) /\ Len(a) = Len(sq) - k /\ P \subseteq Requests
      /\ ToSet(sq) = P \cup ToSet(a) /\ P \cap ToSet(a) = {} /\ Increasing(a)
  BY <1>0, <1>1, <1>2, Cut
<1>4. ToMark(k) = P /\ Len(PreparedInList(list)) = Len(sq)
  BY WalkFindsQueue DEF ToMark, Firsts
<1>5. /\ state' = [r \in Requests |-> IF r \in P THEN "submitted" ELSE state[r]]
      /\ prepared' = prepared - k /\ broken' = broken
  BY <1>0, <1>4 DEF MarkSubmitted
<1>6. sq' = a /\ inflight' = inflight \cup P /\ cq' = cq /\ list' = list /\ made' = made
  BY DEF Firsts
<1> HIDE DEF P, a
<1>7. Places(list', sq', inflight', cq', made')
  BY <1>1, <1>3, <1>6 DEF Places
<1>8. States(list', sq', inflight', cq', made', state')
  <2>1. /\ \A r \in ToSet(sq) : state[r] = "prepared"
        /\ \A r \in inflight \cup ToSet(cq) : state[r] = "submitted"
        /\ \A r \in 1 .. made : r \in ToSet(list) \/ state[r] \in {"completed", "cancelled"}
    BY DEF RingInv, States
  <2>2. ToSet(sq) \subseteq Requests /\ inflight \subseteq Requests /\ ToSet(cq) \subseteq Requests
        /\ 1 .. made \subseteq Requests
    BY <1>0, RequestSets
  <2>3. \A r \in ToSet(a) : state'[r] = "prepared"
    BY <1>3, <1>5, <2>1, <2>2
  <2>4. \A r \in (inflight \cup P) \cup ToSet(cq) : state'[r] = "submitted"
    BY <1>3, <1>5, <2>1, <2>2
  <2>5. \A r \in 1 .. made : r \in ToSet(list) \/ state'[r] \in {"completed", "cancelled"}
    <3>1. \A r \in P : r \in ToSet(list)
      BY <1>1, <1>3
    <3> QED
      BY <1>5, <2>1, <2>2, <3>1
  <2> QED
    BY <1>6, <2>3, <2>4, <2>5 DEF States
<1>9. state' \in [Requests -> {"none", "prepared", "submitted", "completed", "cancelled"}]
  BY <1>0, <1>5 DEF TypeOK
<1>10. prepared' = Len(sq') /\ prepared' \in Nat
  BY <1>0, <1>3, <1>5, <1>6
<1>11. sq' \in Seq(Requests) /\ inflight' \subseteq Requests
  BY <1>0, <1>3, <1>6 DEF TypeOK
<1> QED
  BY <1>0, <1>5, <1>7, <1>8, <1>9, <1>10, <1>11

\* The references when nothing but the stack changes, from stack to below and back.
LEMMA SameReferences ==
    ASSUME RingInv, NEW below, Under(below, {}), NEW k,
           \A r \in Requests : Held(k, r) = Held(below, r)
    PROVE  References(list, k, made, refs, userRefs)
<1> SUFFICES ASSUME NEW r \in Requests
             PROVE  /\ refs[r] = userRefs[r] + One(r \in ToSet(list)) + Held(k, r)
                    /\ r \notin 1 .. made => userRefs[r] = 0
  BY DEF References
<1>1. One(r \in {}) = 0
  BY DEF One
<1>2. Held(below, r) \in Nat /\ Held(stack, r) = Held(below, r) + 0
  BY <1>1 DEF Under
<1>3. Held(stack, r) = Held(k, r)
  BY <1>2
<1> QED
  BY <1>3 DEF RingInv, References

\* submit(), made or resumed, keeps the invariant.
LEMMA SubmitKeeps ==
    ASSUME RingInv, NEW below, Under(below, {}), initialized, SubmitOnce(below),
           UNCHANGED <<initialized, generation, list, pending, made, refs, userRefs, cq>>
    PROVE  RingInv'
<1>0. TypeOK /\ below \in Seq(FrameRecords) /\ Frames(below, list, made)
  BY DEF RingInv, Under
<1>u. /\ list' = list /\ made' = made /\ refs' = refs /\ userRefs' = userRefs /\ cq' = cq
      /\ initialized' = initialized /\ generation' = generation /\ pending' = pending
  OBVIOUS
<1>1. /\ stack' \in Seq(FrameRecords) /\ Frames(stack', list', made')
      /\ References(list', stack', made', refs', userRefs')
  <2>1. CASE stack' = below
    <3>1. References(list, below, made, refs, userRefs)
      BY SameReferences
    <3> QED
      BY <1>0, <1>u, <2>1, <3>1
  <2>2. CASE stack' = Append(below, Frame("submit", {}))
    <3> DEFINE f == Frame("submit", {})
    <3>1. f \in FrameRecords /\ f.got = {} /\ f.call = "submit"
      BY <1>0, FrameType
    <3> HIDE DEF f
    <3>2. FrameOK(f, list, made)
      BY <3>1 DEF FrameOK
    <3>3. Append(below, f) \in Seq(FrameRecords) /\ Frames(Append(below, f), list, made)
      BY <1>0, <3>1, <3>2, FramesAppend
    <3>4. ASSUME NEW r \in Requests PROVE Held(Append(below, f), r) = Held(below, r)
      <4>1. One(r \in f.got) = 0
        BY <3>1 DEF One
      <4>2. Held(below, r) \in Nat /\ Held(Append(below, f), r) = Held(below, r) + One(r \in f.got)
        BY <1>0, <3>1, HeldAppend
      <4> QED
        BY <4>1, <4>2
    <3>5. References(list, Append(below, f), made, refs, userRefs)
      BY <3>4, SameReferences
    <3>6. stack' = Append(below, f)
      BY <2>2 DEF f
    <3> QED
      BY <1>u, <3>3, <3>5, <3>6
  <2> QED
    BY <2>1, <2>2 DEF SubmitOnce
<1>2. /\ Places(list', sq', inflight', cq', made')
      /\ States(list', sq', inflight', cq', made', state')
      /\ state' \in [Requests -> {"none", "prepared", "submitted", "completed", "cancelled"}]
      /\ sq' \in Seq(Requests) /\ inflight' \subseteq Requests
      /\ prepared' = Len(sq') /\ prepared' \in Nat /\ broken' = {}
  <2>1. CASE \E k \in 0 .. Len(sq) :
             /\ MarkSubmitted(k)
             /\ sq' = SubSeq(sq, k + 1, Len(sq))
             /\ inflight' = inflight \cup {sq[i] : i \in 1 .. k}
    <3>1. PICK k \in 0 .. Len(sq) :
             /\ MarkSubmitted(k)
             /\ sq' = SubSeq(sq, k + 1, Len(sq))
             /\ inflight' = inflight \cup {sq[i] : i \in 1 .. k}
      BY <2>1
    <3>2. UNCHANGED <<list, cq, made>>
      OBVIOUS
    <3> QED
      BY <3>1, <3>2, SubmitMoves
  <2>2. CASE UNCHANGED <<state, prepared, broken, sq, inflight>>
    <3>1. /\ state' = state /\ prepared' = prepared /\ broken' = broken /\ sq' = sq
          /\ inflight' = inflight
      BY <2>2
    <3>2. Places(list', sq', inflight', cq', made')
      BY <1>u, <3>1 DEF RingInv
    <3>3. States(list', sq', inflight', cq', made', state')
      BY <1>u, <3>1 DEF RingInv
    <3>4. prepared' = Len(sq') /\ prepared' \in Nat /\ broken' = {}
      BY <1>0, <3>1 DEF RingInv, Counts, TypeOK
    <3> QED
      BY <1>0, <3>1, <3>2, <3>3, <3>4 DEF TypeOK
  <2> QED
    BY <2>1, <2>2 DEF SubmitOnce
<1>3. Counts'
  <2>1. pending' = Len(list') /\ (~initialized' => list' = <<>>)
    BY <1>u DEF RingInv, Counts
  <2> QED
    BY <1>2, <2>1 DEF Counts
<1>4. TypeOK'
  BY <1>0, <1>u, <1>1, <1>2 DEF TypeOK, FrameRecords
<1> QED
  BY <1>1, <1>2, <1>3, <1>4, RingAgain

\* reap takes the first m completions and unlinks their requests.
LEMMA ReapMoves ==
    ASSUME RingInv, NEW m \in 0 .. Len(cq), NEW new, new = Firsts(cq, m),
           cq' = SubSeq(cq, m + 1, Len(cq)), CompleteAll(new), UnlinkAll(new),
           UNCHANGED <<sq, inflight, made>>
    PROVE  /\ Places(list', sq', inflight', cq', made')
           /\ States(list', sq', inflight', cq', made', state')
           /\ state' \in [Requests -> {"none", "prepared", "submitted", "completed", "cancelled"}]
           /\ list' \in Seq(Requests) /\ cq' \in Seq(Requests) /\ new \subseteq Requests
           /\ pending' = Len(list') /\ pending' \in Nat
           /\ new \subseteq ToSet(list) /\ ToSet(list') = ToSet(list) \ new
           /\ \A r \in new : state[r] = "submitted"
           /\ ToSet(cq) = new \cup ToSet(cq') /\ new \cap ToSet(cq') = {}
<1>0. TypeOK /\ cq \in Seq(Requests) /\ list \in Seq(Requests) /\ pending = Len(list)
  BY DEF RingInv, TypeOK, Counts
<1>1. /\ Increasing(list) /\ Increasing(sq) /\ Once(cq)
      /\ ToSet(list) = ToSet(sq) \cup inflight \cup ToSet(cq)
      /\ ToSet(sq) \cap inflight = {} /\ ToSet(sq) \cap ToSet(cq) = {} /\ inflight \cap ToSet(cq) = {}
      /\ ToSet(list) \subseteq 1 .. made
  BY DEF RingInv, Places
<1>2. /\ cq' \in Seq(Requests) /\ new \subseteq Requests /\ Once(cq')
      /\ ToSet(cq) = new \cup ToSet(cq') /\ new \cap ToSet(cq') = {}
  BY <1>0, <1>1, Cut
<1>3. list' = Select(list, Requests \ new) /\ pending' = pending - Cardinality(new)
  BY DEF UnlinkAll
<1>4. /\ list' \in Seq(Requests) /\ ToSet(list') = ToSet(list) \cap (Requests \ new) /\ Increasing(list')
  <2> DEFINE T == Requests \ new
             p == Select(list, T)
  <2> HIDE DEF T
  <2>1. p \in Seq(Requests) /\ ToSet(p) = ToSet(list) \cap T /\ Increasing(p)
    BY <1>0, <1>1, SelectRequests
  <2>2. list' = p
    BY <1>3 DEF T
  <2> HIDE DEF p
  <2> QED
    BY <2>1, <2>2 DEF T
<1>5. ToSet(list) \subseteq Requests /\ 1 .. made \subseteq Requests
  BY <1>0, RequestSets
<1>6. ToSet(list') = ToSet(list) \ new /\ new \subseteq ToSet(list)
  BY <1>1, <1>2, <1>4, <1>5
<1>7. sq' = sq /\ inflight' = inflight /\ made' = made
  OBVIOUS
<1>8. Places(list', sq', inflight', cq', made')
  <2>1. ToSet(list') = ToSet(sq) \cup inflight \cup ToSet(cq')
    BY <1>1, <1>2, <1>6
  <2>2. ToSet(sq) \cap ToSet(cq') = {} /\ inflight \cap ToSet(cq') = {} /\ ToSet(list') \subseteq 1 .. made
    BY <1>1, <1>2, <1>6
  <2> QED
    BY <1>1, <1>2, <1>4, <1>7, <2>1, <2>2 DEF Places
<1>9. state' = [r \in Requests |-> IF r \in new THEN "completed" ELSE state[r]]
  BY DEF CompleteAll
<1>10. /\ \A r \in ToSet(sq) : state[r] = "prepared"
       /\ \A r \in inflight \cup ToSet(cq) : state[r] = "submitted"
       /\ \A r \in 1 .. made : r \in ToSet(list) \/ state[r] \in {"completed", "cancelled"}
  BY DEF RingInv, States
<1>11. States(list', sq', inflight', cq', made', state')
  <2>1. \A r \in ToSet(sq) : state'[r] = "prepared"
    BY <1>1, <1>2, <1>5, <1>9, <1>10
  <2>2. \A r \in inflight \cup ToSet(cq') : state'[r] = "submitted"
    BY <1>1, <1>2, <1>5, <1>9, <1>10
  <2>3. \A r \in 1 .. made : r \in ToSet(list') \/ state'[r] \in {"completed", "cancelled"}
    BY <1>5, <1>6, <1>9, <1>10
  <2> QED
    BY <1>7, <2>1, <2>2, <2>3 DEF States
<1>12. state' \in [Requests -> {"none", "prepared", "submitted", "completed", "cancelled"}]
  BY <1>0, <1>9 DEF TypeOK
<1>13. pending' = Len(list') /\ pending' \in Nat
  <2>1. Once(list) /\ Once(list')
    BY <1>0, <1>1, <1>4, GrowingOnce, RequestNumbers
  <2>2. /\ IsFiniteSet(ToSet(list)) /\ Cardinality(ToSet(list)) = Len(list)
        /\ Cardinality(ToSet(list')) = Len(list')
    BY <1>0, <1>4, <2>1, OnceLength
  <2>3. ToSet(list) \cap new = new
    BY <1>6
  <2>4. Cardinality(ToSet(list) \ new) = Cardinality(ToSet(list)) - Cardinality(ToSet(list) \cap new)
    BY <2>2, FS_Difference
  <2>5. Len(list') \in Nat
    BY <1>4
  <2> QED
    BY <1>0, <1>3, <1>6, <2>2, <2>3, <2>4, <2>5
<1>14. \A r \in new : state[r] = "submitted"
  BY <1>2, <1>10
<1> QED
  BY <1>2, <1>4, <1>6, <1>8, <1>11, <1>12, <1>13, <1>14

\* What is reaped leaves the list and goes to the caller, to the frame of the call, or away.
LEMMA ReapReferences ==
    ASSUME RingInv, NEW below, NEW got, Under(below, got), NEW new \in SUBSET ToSet(list),
           ToSet(list') = ToSet(list) \ new, made' = made,
           \/ stack' = below /\ GiveToCaller(got \cup new)
           \/ /\ stack' = Append(below, Frame("reap", got \cup new))
              /\ UNCHANGED <<refs, userRefs>>
           \/ stack' = below /\ DropCompleted(got \cup new)
    PROVE  /\ stack' \in Seq(FrameRecords) /\ Frames(stack', list', made')
           /\ refs' \in [Requests -> Nat] /\ userRefs' \in [Requests -> Nat]
           /\ References(list', stack', made', refs', userRefs')
<1> DEFINE all == got \cup new
           f   == Frame("reap", all)
<1>0. /\ TypeOK /\ below \in Seq(FrameRecords) /\ Frames(below, list, made)
      /\ got \in SUBSET Requests /\ got \subseteq 1 .. made /\ got \cap ToSet(list) = {}
      /\ \A r \in Requests : /\ Held(below, r) \in Nat
                             /\ Held(stack, r) = Held(below, r) + One(r \in got)
  BY DEF RingInv, Under
<1>1. /\ new \subseteq Requests /\ new \subseteq 1 .. made /\ new \cap got = {}
      /\ all \in SUBSET Requests /\ all \subseteq 1 .. made /\ all \cap ToSet(list') = {}
  <2>1. ToSet(list) \subseteq Requests /\ ToSet(list) \subseteq 1 .. made
    BY <1>0, RequestSets DEF RingInv, Places
  <2> QED
    BY <1>0, <2>1
<1>2. Frames(below, list', made')
  BY <1>0 DEF Frames, FrameOK
<1>3. f \in FrameRecords /\ f.got = all /\ f.call = "reap"
  BY <1>0, <1>1, FrameType
<1>4. FrameOK(f, list', made')
  BY <1>1, <1>3 DEF FrameOK
<1>5. Append(below, f) \in Seq(FrameRecords) /\ Frames(Append(below, f), list', made')
  BY <1>0, <1>2, <1>3, <1>4, FramesAppend
<1>6. \A r \in Requests : Held(Append(below, f), r) = Held(below, r) + One(r \in all)
  BY <1>0, <1>3, HeldAppend
<1>7. refs \in [Requests -> Nat] /\ userRefs \in [Requests -> Nat]
  BY <1>0 DEF TypeOK
<1>8. \A r \in Requests : /\ refs[r] = userRefs[r] + One(r \in ToSet(list)) + (Held(below, r) + One(r \in got))
                          /\ r \notin 1 .. made => userRefs[r] = 0
  BY <1>0 DEF RingInv, References
<1> HIDE DEF all, f
<1>9. \A r \in Requests : /\ One(r \in ToSet(list)) + One(r \in got) = One(r \in ToSet(list')) + One(r \in all)
                          /\ One(r \in ToSet(list)) \in Nat /\ One(r \in got) \in Nat
                          /\ One(r \in ToSet(list')) \in Nat /\ One(r \in all) \in Nat
  BY <1>0, <1>1 DEF One, all
<1>10. \A r \in Requests : refs[r] = userRefs[r] + One(r \in ToSet(list')) + Held(below, r) + One(r \in all)
  <2> SUFFICES ASSUME NEW r \in Requests
               PROVE  refs[r] = userRefs[r] + One(r \in ToSet(list')) + Held(below, r) + One(r \in all)
    OBVIOUS
  <2> DEFINE A == One(r \in ToSet(list))
             B == One(r \in got)
             C == One(r \in ToSet(list'))
             D == One(r \in all)
             H == Held(below, r)
             U == userRefs[r]
  <2>1. A \in Nat /\ B \in Nat /\ C \in Nat /\ D \in Nat /\ A + B = C + D
    BY <1>9
  <2>2. refs[r] = U + A + (H + B) /\ H \in Nat /\ U \in Nat
    BY <1>0, <1>7, <1>8
  <2> HIDE DEF A, B, C, D, H, U
  <2>3. refs[r] = U + C + H + D
    BY <2>1, <2>2
  <2> QED
    BY <2>3 DEF C, D, H, U
<1>11. CASE stack' = below /\ GiveToCaller(all)
  <2>1. /\ refs' = refs
        /\ userRefs' = [r \in Requests |-> IF r \in all THEN userRefs[r] + 1 ELSE userRefs[r]]
    BY <1>11 DEF GiveToCaller
  <2>2. \A r \in Requests : userRefs'[r] = userRefs[r] + One(r \in all) /\ userRefs'[r] \in Nat
    BY <1>7, <2>1 DEF One
  <2>3. userRefs' \in [Requests -> Nat]
    BY <2>1, <2>2
  <2>4. ASSUME NEW r \in Requests
        PROVE  /\ refs'[r] = userRefs'[r] + One(r \in ToSet(list')) + Held(below, r)
               /\ r \notin 1 .. made => userRefs'[r] = 0
    <3>1. refs'[r] = userRefs'[r] + One(r \in ToSet(list')) + Held(below, r)
      <4>1. /\ userRefs[r] \in Nat /\ One(r \in ToSet(list')) \in Nat /\ Held(below, r) \in Nat
            /\ One(r \in all) \in Nat /\ userRefs'[r] = userRefs[r] + One(r \in all)
            /\ refs'[r] = userRefs[r] + One(r \in ToSet(list')) + Held(below, r) + One(r \in all)
        BY <1>0, <1>7, <1>9, <1>10, <2>1, <2>2
      <4> QED
        BY <4>1
    <3>2. r \notin 1 .. made => userRefs'[r] = 0
      BY <1>1, <1>8, <2>1
    <3> QED
      BY <3>1, <3>2
  <2>5. References(list', below, made', refs', userRefs')
    BY <2>4 DEF References
  <2> QED
    BY <1>0, <1>2, <1>7, <1>11, <2>1, <2>3, <2>5
<1>12. CASE stack' = Append(below, f) /\ UNCHANGED <<refs, userRefs>>
  <2>1. refs' = refs /\ userRefs' = userRefs
    BY <1>12
  <2>2. ASSUME NEW r \in Requests
        PROVE  /\ refs[r] = userRefs[r] + One(r \in ToSet(list')) + Held(Append(below, f), r)
               /\ r \notin 1 .. made => userRefs[r] = 0
    <3>1. /\ userRefs[r] \in Nat /\ One(r \in ToSet(list')) \in Nat /\ Held(below, r) \in Nat
          /\ One(r \in all) \in Nat /\ Held(Append(below, f), r) = Held(below, r) + One(r \in all)
          /\ refs[r] = userRefs[r] + One(r \in ToSet(list')) + Held(below, r) + One(r \in all)
      BY <1>0, <1>6, <1>7, <1>9, <1>10
    <3>2. refs[r] = userRefs[r] + One(r \in ToSet(list')) + Held(Append(below, f), r)
      BY <3>1
    <3> QED
      BY <1>8, <3>2
  <2>3. References(list', Append(below, f), made', refs', userRefs')
    BY <2>1, <2>2 DEF References
  <2> QED
    BY <1>5, <1>7, <1>12, <2>1, <2>3
<1>13. CASE stack' = below /\ DropCompleted(all)
  <2>1. /\ userRefs' = userRefs
        /\ refs' = [r \in Requests |-> IF r \in all THEN refs[r] - 1 ELSE refs[r]]
    BY <1>13 DEF DropCompleted
  <2>2. ASSUME NEW r \in Requests
        PROVE  refs'[r] = userRefs[r] + One(r \in ToSet(list')) + Held(below, r) /\ refs'[r] \in Nat
    <3>1. /\ userRefs[r] \in Nat /\ One(r \in ToSet(list')) \in Nat /\ Held(below, r) \in Nat
          /\ refs[r] \in Nat
          /\ refs[r] = userRefs[r] + One(r \in ToSet(list')) + Held(below, r) + One(r \in all)
      BY <1>0, <1>7, <1>9, <1>10
    <3>2. CASE r \in all
      <4>1. One(r \in all) = 1 /\ refs'[r] = refs[r] - 1
        BY <2>1, <3>2 DEF One
      <4> QED
        BY <3>1, <4>1
    <3>3. CASE r \notin all
      <4>1. One(r \in all) = 0 /\ refs'[r] = refs[r]
        BY <2>1, <3>3 DEF One
      <4> QED
        BY <3>1, <4>1
    <3> QED
      BY <3>2, <3>3
  <2>3. refs' \in [Requests -> Nat]
    BY <2>1, <2>2
  <2>4. References(list', below, made', refs', userRefs')
    BY <1>8, <2>1, <2>2 DEF References
  <2> QED
    BY <1>0, <1>2, <1>7, <1>13, <2>1, <2>3, <2>4
<1> QED
  BY <1>11, <1>12, <1>13 DEF all, f

\* reap(), made or resumed, keeps the invariant.
LEMMA ReapKeeps ==
    ASSUME RingInv, NEW below, NEW got, Under(below, got), initialized, ReapLoop(below, got),
           UNCHANGED <<initialized, generation, prepared, made, sq, inflight>>
    PROVE  RingInv'
<1>0. TypeOK
  BY DEF RingInv
<1>1. PICK m \in 0 .. Len(cq) :
        LET new == {cq[i] : i \in 1 .. m}
        IN  /\ cq' = SubSeq(cq, m + 1, Len(cq)) /\ CompleteAll(new) /\ UnlinkAll(new)
            /\ broken' = IF \A r \in new : r \in ToSet(list) /\ state[r] = "submitted"
                         THEN broken ELSE broken \cup {"not a submitted request"}
            /\ \/ stack' = below /\ GiveToCaller(got \cup new)
               \/ /\ stack' = Append(below, Frame("reap", got \cup new))
                  /\ UNCHANGED <<refs, userRefs>>
               \/ stack' = below /\ DropCompleted(got \cup new)
  BY DEF ReapLoop
<1> DEFINE new == Firsts(cq, m)
<1>2. /\ cq' = SubSeq(cq, m + 1, Len(cq)) /\ CompleteAll(new) /\ UnlinkAll(new)
      /\ broken' = IF \A r \in new : r \in ToSet(list) /\ state[r] = "submitted"
                   THEN broken ELSE broken \cup {"not a submitted request"}
      /\ \/ stack' = below /\ GiveToCaller(got \cup new)
         \/ /\ stack' = Append(below, Frame("reap", got \cup new))
            /\ UNCHANGED <<refs, userRefs>>
         \/ stack' = below /\ DropCompleted(got \cup new)
  BY <1>1 DEF Firsts
<1> HIDE DEF new
<1>3. /\ Places(list', sq', inflight', cq', made')
      /\ States(list', sq', inflight', cq', made', state')
      /\ state' \in [Requests -> {"none", "prepared", "submitted", "completed", "cancelled"}]
      /\ list' \in Seq(Requests) /\ cq' \in Seq(Requests)
      /\ pending' = Len(list') /\ pending' \in Nat
      /\ new \subseteq ToSet(list) /\ ToSet(list') = ToSet(list) \ new
      /\ \A r \in new : state[r] = "submitted"
  <2>1. UNCHANGED <<sq, inflight, made>>
    OBVIOUS
  <2>2. new = Firsts(cq, m)
    BY DEF new
  <2> QED
    BY <1>2, <2>1, <2>2, ReapMoves
<1>4. /\ stack' \in Seq(FrameRecords) /\ Frames(stack', list', made')
      /\ refs' \in [Requests -> Nat] /\ userRefs' \in [Requests -> Nat]
      /\ References(list', stack', made', refs', userRefs')
  <2>1. new \in SUBSET ToSet(list) /\ made' = made
    BY <1>3
  <2> QED
    BY <1>2, <1>3, <2>1, ReapReferences
<1>5. broken' = {} /\ prepared' = Len(sq') /\ initialized' = initialized /\ initialized' = TRUE
  <2>1. broken' = broken
    BY <1>2, <1>3
  <2>2. broken = {} /\ prepared = Len(sq)
    BY DEF RingInv, Counts
  <2>3. initialized = TRUE
    BY <1>0 DEF TypeOK
  <2> QED
    BY <2>1, <2>2, <2>3
<1>6. Counts'
  BY <1>3, <1>5 DEF Counts
<1>7. TypeOK'
  BY <1>0, <1>3, <1>4, <1>5 DEF TypeOK, FrameRecords
<1> QED
  BY <1>3, <1>4, <1>6, <1>7, RingAgain

\* prepare_nop links a request, and the caller has a reference too.
LEMMA PrepareKeeps ==
    ASSUME RingInv, PrepareNop
    PROVE  RingInv'
<1> DEFINE r == made + 1
<1>0. TypeOK /\ made \in Nat /\ made < MaxRequests /\ initialized
  BY RequestSets DEF RingInv, PrepareNop
<1>1. r \in Requests /\ r \notin 1 .. made /\ 1 .. r = 1 .. made \cup {r} /\ r \in 0 .. MaxRequests
  BY <1>0, RequestNumbers DEF Requests
<1>2. /\ list' = Append(list, r) /\ pending' = pending + 1 /\ prepared' = prepared + 1
      /\ refs' = [refs EXCEPT ![r] = 2] /\ state' = [state EXCEPT ![r] = "prepared"]
      /\ userRefs' = [userRefs EXCEPT ![r] = 1] /\ sq' = Append(sq, r) /\ made' = r
      /\ initialized' = initialized /\ generation' = generation /\ stack' = stack
      /\ broken' = broken /\ inflight' = inflight /\ cq' = cq
  BY DEF PrepareNop, Link
<1>3. /\ Increasing(list) /\ Increasing(sq) /\ Once(cq)
      /\ ToSet(list) = ToSet(sq) \cup inflight \cup ToSet(cq)
      /\ ToSet(sq) \cap inflight = {} /\ ToSet(sq) \cap ToSet(cq) = {} /\ inflight \cap ToSet(cq) = {}
      /\ ToSet(list) \subseteq 1 .. made
  BY DEF RingInv, Places
<1>4. /\ ToSet(sq) \subseteq Requests /\ inflight \subseteq Requests /\ ToSet(cq) \subseteq Requests
      /\ 1 .. made \subseteq Requests
  BY <1>0, RequestSets
<1>5. /\ \A x \in ToSet(list) : x < r
      /\ \A x \in ToSet(sq) : x < r
  <2>1. \A x \in 1 .. made : x < r
    BY <1>0
  <2> QED
    BY <1>3, <2>1
<1> HIDE DEF r
<1>6. /\ list' \in Seq(Requests) /\ Len(list') = Len(list) + 1 /\ ToSet(list') = ToSet(list) \cup {r}
      /\ Increasing(list') /\ Len(list) \in Nat
  <2>0. list \in Seq(Requests)
    BY <1>0 DEF TypeOK
  <2>1. list \in Seq(Requests) /\ Len(list) \in Nat
    BY <2>0, Elements
  <2>2. /\ Append(list, r) \in Seq(Requests) /\ Len(Append(list, r)) = Len(list) + 1
        /\ ToSet(Append(list, r)) = ToSet(list) \cup {r} /\ Increasing(Append(list, r))
    BY <1>1, <1>3, <1>5, <2>1, AppendElements
  <2> QED
    BY <1>2, <2>1, <2>2
<1>7. /\ sq' \in Seq(Requests) /\ Len(sq') = Len(sq) + 1 /\ ToSet(sq') = ToSet(sq) \cup {r}
      /\ Increasing(sq') /\ Len(sq) \in Nat
  <2>0. sq \in Seq(Requests)
    BY <1>0 DEF TypeOK
  <2>1. sq \in Seq(Requests) /\ Len(sq) \in Nat
    BY <2>0, Elements
  <2>2. /\ Append(sq, r) \in Seq(Requests) /\ Len(Append(sq, r)) = Len(sq) + 1
        /\ ToSet(Append(sq, r)) = ToSet(sq) \cup {r} /\ Increasing(Append(sq, r))
    BY <1>1, <1>3, <1>5, <2>1, AppendElements
  <2> QED
    BY <1>2, <2>1, <2>2
<1>8. Places(list', sq', inflight', cq', made')
  <2>1. r \notin inflight /\ r \notin ToSet(cq)
    BY <1>1, <1>3
  <2> QED
    BY <1>1, <1>2, <1>3, <1>6, <1>7, <2>1 DEF Places
<1>9. States(list', sq', inflight', cq', made', state')
  <2>1. /\ \A x \in ToSet(sq) : state[x] = "prepared"
        /\ \A x \in inflight \cup ToSet(cq) : state[x] = "submitted"
        /\ \A x \in 1 .. made : x \in ToSet(list) \/ state[x] \in {"completed", "cancelled"}
    BY DEF RingInv, States
  <2>2. state'[r] = "prepared" /\ \A x \in Requests : x # r => state'[x] = state[x]
    BY <1>0, <1>1, <1>2 DEF TypeOK
  <2>3. \A x \in ToSet(sq) \cup {r} : state'[x] = "prepared"
    BY <1>4, <2>1, <2>2
  <2>4. \A x \in inflight \cup ToSet(cq) : state'[x] = "submitted"
    BY <1>1, <1>3, <1>4, <2>1, <2>2
  <2>5. \A x \in 1 .. made \cup {r} : x \in ToSet(list) \cup {r} \/ state'[x] \in {"completed", "cancelled"}
    BY <1>4, <2>1, <2>2
  <2> QED
    BY <1>1, <1>2, <1>6, <1>7, <2>3, <2>4, <2>5 DEF States
<1>10. Counts'
  <2>1. pending = Len(list) /\ prepared = Len(sq) /\ broken = {}
    BY DEF RingInv, Counts
  <2> QED
    BY <1>0, <1>2, <1>6, <1>7, <2>1 DEF Counts
<1>11. Under(stack, {})
  BY UnderSelf
<1>12. Frames(stack', list', made')
  <2>1. \A i \in 1 .. Len(stack) : FrameOK(stack[i], list, made)
    BY DEF RingInv, Frames
  <2>2. \A i \in 1 .. Len(stack) : FrameOK(stack[i], list', r)
    BY <1>1, <1>6, <2>1 DEF FrameOK
  <2> QED
    BY <1>2, <2>2 DEF Frames
<1>13. Held(stack, r) = 0
  <2>1. {i \in 1 .. Len(stack) : r \in stack[i].got} = {}
    BY <1>1 DEF RingInv, Frames, FrameOK
  <2> QED
    BY <2>1, FS_EmptySet DEF Held
<1>14. References(list', stack', made', refs', userRefs')
  <2> SUFFICES ASSUME NEW x \in Requests
               PROVE  /\ refs'[x] = userRefs'[x] + One(x \in ToSet(list')) + Held(stack, x)
                      /\ x \notin 1 .. r => userRefs'[x] = 0
    BY <1>2 DEF References
  <2>1. CASE x = r
    <3>1. refs'[x] = 2 /\ userRefs'[x] = 1 /\ One(x \in ToSet(list')) = 1 /\ Held(stack, x) = 0
      BY <1>0, <1>2, <1>6, <1>13, <2>1 DEF TypeOK, One
    <3> QED
      BY <1>1, <2>1, <3>1
  <2>2. CASE x # r
    <3>1. refs'[x] = refs[x] /\ userRefs'[x] = userRefs[x] /\ (x \in ToSet(list') <=> x \in ToSet(list))
      BY <1>0, <1>2, <1>6, <2>2 DEF TypeOK
    <3>2. One(x \in ToSet(list')) = One(x \in ToSet(list))
      BY <3>1 DEF One
    <3> QED
      BY <1>1, <2>2, <3>1, <3>2 DEF RingInv, References
  <2> QED
    BY <2>1, <2>2
<1>15. TypeOK'
  <2>1. pending' \in Nat /\ prepared' \in Nat
    <3>1. pending \in Nat /\ prepared \in Nat
      BY <1>0 DEF TypeOK
    <3> QED
      BY <1>2, <3>1
  <2>2. /\ refs' \in [Requests -> Nat] /\ userRefs' \in [Requests -> Nat]
        /\ state' \in [Requests -> {"none", "prepared", "submitted", "completed", "cancelled"}]
    BY <1>0, <1>2 DEF TypeOK
  <2> QED
    BY <1>0, <1>1, <1>2, <1>6, <1>7, <2>1, <2>2 DEF TypeOK
<1> QED
  BY <1>8, <1>9, <1>10, <1>12, <1>14, <1>15, RingAgain

\* Python code drops a reference that it has.
LEMMA DropKeeps ==
    ASSUME RingInv, NEW r \in Requests, DropReference(r)
    PROVE  RingInv'
<1>0. TypeOK /\ userRefs[r] > 0
  BY DEF RingInv, DropReference
<1>1. /\ userRefs' = [userRefs EXCEPT ![r] = userRefs[r] - 1]
      /\ refs' = [refs EXCEPT ![r] = refs[r] - 1]
      /\ initialized' = initialized /\ generation' = generation /\ list' = list
      /\ pending' = pending /\ prepared' = prepared /\ made' = made /\ state' = state
      /\ stack' = stack /\ broken' = broken /\ sq' = sq /\ inflight' = inflight /\ cq' = cq
  BY DEF DropReference
<1>2. refs \in [Requests -> Nat] /\ userRefs \in [Requests -> Nat]
  BY <1>0 DEF TypeOK
<1>3. \A x \in Requests : Held(stack, x) \in Nat
  BY UnderSelf DEF Under
<1>4. \A x \in Requests : /\ refs[x] = userRefs[x] + One(x \in ToSet(list)) + Held(stack, x)
                          /\ x \notin 1 .. made => userRefs[x] = 0
  BY DEF RingInv, References
<1>5. ASSUME NEW x \in Requests
      PROVE  /\ refs'[x] = userRefs'[x] + One(x \in ToSet(list)) + Held(stack, x)
             /\ x \notin 1 .. made => userRefs'[x] = 0
             /\ refs'[x] \in Nat /\ userRefs'[x] \in Nat
  <2>0. One(x \in ToSet(list)) \in Nat
    BY DEF One
  <2>1. CASE x = r
    <3>1. refs'[x] = refs[x] - 1 /\ userRefs'[x] = userRefs[x] - 1 /\ userRefs[x] > 0
      BY <1>0, <1>1, <1>2, <2>1
    <3>2. userRefs[x] \in Nat /\ refs[x] \in Nat /\ Held(stack, x) \in Nat
      BY <1>2, <1>3
    <3>3. x \in 1 .. made
      BY <1>4, <3>1, <3>2
    <3> QED
      BY <1>4, <2>0, <3>1, <3>2, <3>3
  <2>2. CASE x # r
    BY <1>1, <1>2, <1>4, <2>2
  <2> QED
    BY <2>1, <2>2
<1>6. References(list', stack', made', refs', userRefs')
  BY <1>1, <1>5 DEF References
<1>7. refs' \in [Requests -> Nat] /\ userRefs' \in [Requests -> Nat]
  <2>1. /\ refs' = [x \in Requests |-> refs'[x]] /\ userRefs' = [x \in Requests |-> userRefs'[x]]
    BY <1>1, <1>2
  <2> QED
    BY <1>5, <2>1
<1>8. TypeOK'
  BY <1>0, <1>1, <1>7 DEF TypeOK
<1>9. Places(list', sq', inflight', cq', made') /\ States(list', sq', inflight', cq', made', state')
  BY <1>1 DEF RingInv
<1>10. Counts' /\ Frames(stack', list', made')
  BY <1>1 DEF RingInv, Counts
<1> QED
  BY <1>6, <1>8, <1>9, <1>10, RingAgain

\* close() and a second __init__: every request of the list is cancelled and let go.
LEMMA ReleaseKeeps ==
    ASSUME RingInv, ReleaseRequests, initialized' \in BOOLEAN, generation' \in Nat,
           UNCHANGED <<made, userRefs, stack, broken>>
    PROVE  RingInv'
<1>0. TypeOK
  BY DEF RingInv
<1>1. /\ state' = [r \in Requests |-> IF r \in ToSet(list) THEN "cancelled" ELSE state[r]]
      /\ refs' = [r \in Requests |-> IF r \in ToSet(list) THEN refs[r] - 1 ELSE refs[r]]
      /\ list' = <<>> /\ pending' = 0 /\ prepared' = 0
      /\ sq' = <<>> /\ inflight' = {} /\ cq' = <<>>
      /\ made' = made /\ userRefs' = userRefs /\ stack' = stack /\ broken' = broken
  BY DEF ReleaseRequests
<1>2. /\ <<>> \in Seq(Requests) /\ ToSet(<<>>) = {} /\ Len(<<>>) = 0
      /\ Once(<<>>) /\ Increasing(<<>>)
  <2>1. <<>> \in Seq(Requests) /\ Len(<<>>) = 0
    OBVIOUS
  <2>2. ToSet(<<>>) = {}
    BY <2>1, Elements
  <2>3. Once(<<>>) /\ Increasing(<<>>)
    BY <2>1 DEF Once, Increasing
  <2> QED
    BY <2>1, <2>2, <2>3
<1>3. Places(list', sq', inflight', cq', made')
  BY <1>1, <1>2 DEF Places
<1>4. States(list', sq', inflight', cq', made', state')
  <2>1. \A r \in 1 .. made : r \in ToSet(list) \/ state[r] \in {"completed", "cancelled"}
    BY DEF RingInv, States
  <2>2. 1 .. made \subseteq Requests
    BY <1>0, RequestSets
  <2>3. \A r \in 1 .. made : state'[r] \in {"completed", "cancelled"}
    BY <1>1, <2>1, <2>2
  <2> QED
    BY <1>1, <1>2, <2>3 DEF States
<1>5. Counts'
  <2>1. broken = {}
    BY DEF RingInv, Counts
  <2> QED
    BY <1>1, <1>2, <2>1 DEF Counts
<1>6. Frames(stack', list', made')
  BY <1>1, <1>2 DEF RingInv, Frames, FrameOK
<1>7. ASSUME NEW r \in Requests
      PROVE  refs'[r] = userRefs[r] + 0 + Held(stack, r) /\ refs'[r] \in Nat
  <2>1. Held(stack, r) \in Nat
    BY UnderSelf DEF Under
  <2>2. refs[r] \in Nat /\ userRefs[r] \in Nat
    BY <1>0 DEF TypeOK
  <2>3. refs[r] = userRefs[r] + One(r \in ToSet(list)) + Held(stack, r)
    BY DEF RingInv, References
  <2>4. CASE r \in ToSet(list)
    <3>1. refs'[r] = refs[r] - 1 /\ One(r \in ToSet(list)) = 1
      BY <1>1, <2>4 DEF One
    <3> QED
      BY <2>1, <2>2, <2>3, <3>1
  <2>5. CASE r \notin ToSet(list)
    <3>1. refs'[r] = refs[r] /\ One(r \in ToSet(list)) = 0
      BY <1>1, <2>5 DEF One
    <3> QED
      BY <2>1, <2>2, <2>3, <3>1
  <2> QED
    BY <2>4, <2>5
<1>8. References(list', stack', made', refs', userRefs')
  <2>1. \A r \in Requests : One(r \in ToSet(list')) = 0
    BY <1>1, <1>2 DEF One
  <2>2. \A r \in Requests : r \notin 1 .. made => userRefs[r] = 0
    BY DEF RingInv, References
  <2> QED
    BY <1>1, <1>7, <2>1, <2>2 DEF References
<1>9. TypeOK'
  <2>1. refs' \in [Requests -> Nat]
    BY <1>1, <1>7
  <2>2. state' \in [Requests -> {"none", "prepared", "submitted", "completed", "cancelled"}]
    BY <1>0, <1>1 DEF TypeOK
  <2> QED
    BY <1>0, <1>1, <1>2, <2>1, <2>2 DEF TypeOK
<1> QED
  BY <1>3, <1>4, <1>5, <1>6, <1>8, <1>9, RingAgain

\* An interrupted call that raises gives up what it reaped.
LEMMA RaiseKeeps ==
    ASSUME RingInv, CallRaises
    PROVE  RingInv'
<1>0. TypeOK /\ Interrupted
  BY DEF RingInv, CallRaises
<1>1. /\ DropCompleted(Top.got) /\ stack' = Below
      /\ initialized' = initialized /\ generation' = generation /\ list' = list
      /\ pending' = pending /\ prepared' = prepared /\ made' = made /\ state' = state
      /\ broken' = broken /\ sq' = sq /\ inflight' = inflight /\ cq' = cq
  BY DEF CallRaises
<1>2. Under(Below, Top.got)
  BY <1>0, UnderTop
<1>3. /\ stack' \in Seq(FrameRecords) /\ Frames(stack', list', made')
      /\ refs' \in [Requests -> Nat] /\ userRefs' \in [Requests -> Nat]
      /\ References(list', stack', made', refs', userRefs')
  <2> DEFINE new == {}
             got == Top.got
             below == Below
  <2>1. got \cup new = got /\ new \in SUBSET ToSet(list) /\ ToSet(list') = ToSet(list) \ new
    BY <1>1
  <2>2. stack' = below /\ DropCompleted(got \cup new) /\ made' = made
    BY <1>1, <2>1
  <2>3. Under(below, got)
    BY <1>2
  <2> HIDE DEF new, got, below
  <2> QED
    BY <2>1, <2>2, <2>3, ReapReferences
<1>4. TypeOK'
  BY <1>0, <1>1, <1>3 DEF TypeOK, FrameRecords
<1>5. Places(list', sq', inflight', cq', made') /\ States(list', sq', inflight', cq', made', state')
  BY <1>1 DEF RingInv
<1>6. Counts'
  BY <1>1 DEF RingInv, Counts
<1> QED
  BY <1>3, <1>4, <1>5, <1>6, RingAgain

\* The kernel completes a request.
LEMMA CompleteKeeps ==
    ASSUME RingInv, KernelCompletes
    PROVE  RingInv'
<1>0. TypeOK
  BY DEF RingInv
<1>1. PICK r \in inflight : inflight' = inflight \ {r} /\ cq' = Append(cq, r)
  BY DEF KernelCompletes
<1>2. /\ initialized' = initialized /\ generation' = generation /\ list' = list
      /\ pending' = pending /\ prepared' = prepared /\ made' = made /\ state' = state
      /\ refs' = refs /\ userRefs' = userRefs /\ stack' = stack /\ broken' = broken /\ sq' = sq
  BY DEF KernelCompletes
<1>3. /\ Increasing(list) /\ Increasing(sq) /\ Once(cq)
      /\ ToSet(list) = ToSet(sq) \cup inflight \cup ToSet(cq)
      /\ ToSet(sq) \cap inflight = {} /\ ToSet(sq) \cap ToSet(cq) = {} /\ inflight \cap ToSet(cq) = {}
      /\ ToSet(list) \subseteq 1 .. made
  BY DEF RingInv, Places
<1>4. cq \in Seq(Requests) /\ r \in Requests
  BY <1>0, <1>1 DEF TypeOK
<1>5. cq' \in Seq(Requests) /\ ToSet(cq') = ToSet(cq) \cup {r} /\ Once(cq')
  <2>1. r \notin ToSet(cq)
    BY <1>1, <1>3
  <2>2. /\ Append(cq, r) \in Seq(Requests) /\ ToSet(Append(cq, r)) = ToSet(cq) \cup {r}
        /\ Once(Append(cq, r))
    BY <1>3, <1>4, <2>1, AppendElements
  <2> QED
    BY <1>1, <2>2
<1>6. Places(list', sq', inflight', cq', made')
  BY <1>1, <1>2, <1>3, <1>5 DEF Places
<1>7. States(list', sq', inflight', cq', made', state')
  BY <1>1, <1>2, <1>5 DEF RingInv, States
<1>8. TypeOK'
  BY <1>0, <1>1, <1>2, <1>5 DEF TypeOK
<1>9. Counts' /\ Frames(stack', list', made') /\ References(list', stack', made', refs', userRefs')
  BY <1>2 DEF RingInv, Counts
<1> QED
  BY <1>6, <1>7, <1>8, <1>9, RingAgain

\* A new ring.
LEMMA RingStarts ==
    ASSUME Init
    PROVE  RingInv
<1>1. /\ initialized = TRUE /\ generation = 1
      /\ list = <<>> /\ pending = 0 /\ prepared = 0 /\ made = 0
      /\ state = [r \in Requests |-> "none"]
      /\ refs = [r \in Requests |-> 0] /\ userRefs = [r \in Requests |-> 0]
      /\ stack = <<>> /\ broken = {} /\ sq = <<>> /\ inflight = {} /\ cq = <<>>
  BY DEF Init
<1>2. /\ <<>> \in Seq(Requests) /\ <<>> \in Seq(FrameRecords) /\ ToSet(<<>>) = {} /\ Len(<<>>) = 0
      /\ Once(<<>>) /\ Increasing(<<>>) /\ 1 .. 0 = {}
  <2>1. <<>> \in Seq(Requests) /\ <<>> \in Seq(FrameRecords) /\ Len(<<>>) = 0 /\ 1 .. 0 = {}
    OBVIOUS
  <2>2. ToSet(<<>>) = {}
    BY <2>1, Elements
  <2>3. Once(<<>>) /\ Increasing(<<>>)
    BY <2>1 DEF Once, Increasing
  <2> QED
    BY <2>1, <2>2, <2>3
<1>3. TypeOK
  <2>1. made \in 0 .. MaxRequests
    BY <1>1, RequestNumbers
  <2> QED
    BY <1>1, <1>2, <2>1 DEF TypeOK, FrameRecords
<1>4. Places(list, sq, inflight, cq, made)
  BY <1>1, <1>2 DEF Places
<1>5. States(list, sq, inflight, cq, made, state)
  BY <1>1, <1>2 DEF States
<1>6. Counts /\ Frames(stack, list, made)
  BY <1>1, <1>2 DEF Counts, Frames
<1>7. \A r \in Requests : Held(stack, r) = 0 /\ One(r \in ToSet(list)) = 0
  <2>1. \A r \in Requests : {i \in 1 .. Len(stack) : r \in stack[i].got} = {}
    BY <1>1, <1>2
  <2> QED
    BY <1>1, <1>2, <2>1, FS_EmptySet DEF Held, One
<1>8. References(list, stack, made, refs, userRefs)
  BY <1>1, <1>7 DEF References
<1> QED
  BY <1>3, <1>4, <1>5, <1>6, <1>8 DEF RingInv

\* Every step keeps the invariant.
LEMMA RingStep ==
    ASSUME RingInv, [Next]_vars
    PROVE  RingInv'
<1>1. CASE PrepareNop
  BY <1>1, PrepareKeeps
<1>2. CASE Submit
  BY <1>2, UnderSelf, SubmitKeeps DEF Submit
<1>3. CASE Reap
  BY <1>3, UnderSelf, ReapKeeps DEF Reap
<1>4. CASE Close
  <2>0. generation \in Nat
    BY DEF RingInv, TypeOK
  <2>1. generation' = IF initialized THEN generation + 1 ELSE generation
    BY <1>4 DEF Close
  <2>2. generation' \in Nat
    BY <2>0, <2>1
  <2>3. initialized' \in BOOLEAN
    BY <1>4 DEF Close
  <2> QED
    BY <1>4, <2>2, <2>3, ReleaseKeeps DEF Close
<1>5. CASE Reinit
  <2>0. generation \in Nat
    BY DEF RingInv, TypeOK
  <2>1. initialized' = TRUE /\ generation' = IF initialized THEN generation + 2 ELSE generation + 1
    BY <1>5 DEF Reinit
  <2>2. initialized' \in BOOLEAN /\ generation' \in Nat
    BY <2>0, <2>1
  <2> QED
    BY <1>5, <2>2, ReleaseKeeps DEF Reinit
<1>6. CASE \E r \in Requests : DropReference(r)
  BY <1>6, DropKeeps
<1>7. CASE ResumeSubmit
  <2>1. Interrupted /\ Top.call = "submit" /\ initialized /\ SubmitOnce(Below)
    BY <1>7 DEF ResumeSubmit, RingUnchanged
  <2>2. Under(Below, {})
    BY <2>1, UnderTop
  <2> QED
    BY <1>7, <2>1, <2>2, SubmitKeeps DEF ResumeSubmit
<1>8. CASE ResumeReap
  <2>1. Interrupted /\ initialized /\ ReapLoop(Below, Top.got)
    BY <1>8 DEF ResumeReap, RingUnchanged
  <2>2. Under(Below, Top.got)
    BY <2>1, UnderTop
  <2> QED
    BY <1>8, <2>1, <2>2, ReapKeeps DEF ResumeReap
<1>9. CASE CallRaises
  BY <1>9, RaiseKeeps
<1>10. CASE KernelCompletes
  BY <1>10, CompleteKeeps
<1>11. CASE UNCHANGED vars
  BY <1>11 DEF vars, RingInv, TypeOK, Counts
<1> QED
  BY <1>1, <1>2, <1>3, <1>4, <1>5, <1>6, <1>7, <1>8, <1>9, <1>10, <1>11 DEF Next

\* The invariant holds in every state.
LEMMA RingInvariant == Spec => []RingInv
<1>1. Init => RingInv
  BY RingStarts
<1>2. RingInv /\ [Next]_vars => RingInv'
  BY RingStep
<1> QED
  BY <1>1, <1>2, PTL DEF Spec

-----------------------------------------------------------------------------
(* The theorems.                                                           *)

\* The type invariant of the C extension's ring.
THEOREM RingTypes == Spec => []TypeOK
<1>1. RingInv => TypeOK
  BY DEF RingInv
<1> QED
  BY <1>1, RingInvariant, PTL

\* The list of ring_t holds exactly the requests whose address is in an SQE, in the kernel
\* or in a CQE, each once, whatever calls signal handlers nest.
THEOREM RingOwnsWhatKernelHas == Spec => []OwnsWhatKernelHas
<1>1. ASSUME RingInv PROVE OwnsWhatKernelHas
  <2>0. TypeOK /\ list \in Seq(Requests) /\ sq \in Seq(Requests) /\ cq \in Seq(Requests)
    BY <1>1 DEF RingInv, TypeOK
  <2>1. /\ Increasing(list) /\ Increasing(sq) /\ Once(cq)
        /\ ToSet(list) = ToSet(sq) \cup inflight \cup ToSet(cq)
        /\ ToSet(sq) \cap inflight = {} /\ ToSet(sq) \cap ToSet(cq) = {} /\ inflight \cap ToSet(cq) = {}
    BY <1>1 DEF RingInv, Places
  <2>2. Once(list) /\ Once(sq)
    BY <2>0, <2>1, GrowingOnce, RequestNumbers
  <2>3. /\ IsFiniteSet(ToSet(list)) /\ Cardinality(ToSet(list)) = Len(list)
        /\ IsFiniteSet(ToSet(sq)) /\ Cardinality(ToSet(sq)) = Len(sq)
        /\ IsFiniteSet(ToSet(cq)) /\ Cardinality(ToSet(cq)) = Len(cq)
    BY <2>0, <2>1, <2>2, OnceLength
  <2>4. IsFiniteSet(inflight)
    BY <2>1, <2>3, FS_Subset
  <2> DEFINE A == ToSet(sq)
             B == ToSet(cq)
             AI == A \cup inflight
  <2>5. /\ IsFiniteSet(AI)
        /\ Cardinality(AI) = Cardinality(A) + Cardinality(inflight) - Cardinality(A \cap inflight)
    BY <2>3, <2>4, FS_Union
  <2>6. AI \cap B = {} /\ A \cap inflight = {} /\ AI \cup B = ToSet(list)
    BY <2>1
  <2>7. Cardinality(A \cap inflight) = 0 /\ Cardinality(AI \cap B) = 0
    BY <2>6, FS_EmptySet
  <2> HIDE DEF AI, A, B
  <2>8. Cardinality(AI \cup B) = Cardinality(AI) + Cardinality(B) - Cardinality(AI \cap B)
    BY <2>3, <2>5, FS_Union DEF B
  <2>9. /\ Cardinality(inflight) \in Nat /\ Cardinality(A) \in Nat /\ Cardinality(B) \in Nat
    BY <2>3, <2>4, FS_CardinalityType DEF A, B
  <2>10. Len(list) = Len(sq) + Cardinality(inflight) + Len(cq)
    <3>1. Cardinality(AI) = Cardinality(A) + Cardinality(inflight)
      BY <2>5, <2>7, <2>9
    <3>2. Cardinality(AI \cup B) = Cardinality(A) + Cardinality(inflight) + Cardinality(B)
      BY <2>7, <2>8, <2>9, <3>1
    <3>3. Cardinality(A) = Len(sq) /\ Cardinality(B) = Len(cq) /\ Cardinality(AI \cup B) = Len(list)
      BY <2>3, <2>6 DEF A, B
    <3> QED
      BY <3>2, <3>3
  <2> QED
    BY <2>1, <2>3, <2>10 DEF OwnsWhatKernelHas, InKernel
<1> QED
  BY <1>1, RingInvariant, PTL

\* Reference counts add up: the list, an interrupted reap and Python code account for
\* every reference of a request.
THEOREM RingReferences == Spec => []ReferencesAddUp
<1>1. RingInv => ReferencesAddUp
  BY DEF RingInv, References, ReferencesAddUp, Held, One
<1> QED
  BY <1>1, RingInvariant, PTL

\* The walk of submit() meets the prepared requests in the order of the submission queue,
\* so it marks what io_uring_submit took; pending and prepared count the list.
THEOREM WalkIsRight == Spec => []WalkMarksTheRightOnes
<1>1. ASSUME RingInv PROVE WalkMarksTheRightOnes
  <2>1. PreparedInList(list) = sq
    BY <1>1, WalkFindsQueue
  <2>2. \A r \in inflight \cup ToSet(cq) : state[r] = "submitted"
    BY <1>1 DEF RingInv, States
  <2>3. pending = Len(list) /\ prepared = Len(sq)
    BY <1>1 DEF RingInv, Counts
  <2> QED
    BY <2>1, <2>2, <2>3 DEF WalkMarksTheRightOnes
<1> QED
  BY <1>1, RingInvariant, PTL

\* submit() and reap() raise no SystemError, and make no system call on a closed ring.
THEOREM RingNeverBroken == Spec => []NeverBroken
<1>1. RingInv => NeverBroken
  BY DEF RingInv, Counts, NeverBroken
<1> QED
  BY <1>1, RingInvariant, PTL

\* A closed ring leaves no request prepared or submitted.
THEOREM ClosedIsDone == Spec => []ClosedLeavesAllDone
<1>1. ASSUME RingInv, ~initialized PROVE \A r \in 1 .. made : Done(r)
  <2>1. list = <<>> /\ list \in Seq(Requests)
    BY <1>1 DEF RingInv, Counts, TypeOK
  <2>2. ToSet(list) = {}
    BY <2>1, Elements
  <2> QED
    BY <1>1, <2>2 DEF RingInv, States, Done
<1>2. RingInv => ClosedLeavesAllDone
  BY <1>1 DEF ClosedLeavesAllDone
<1> QED
  BY <1>2, RingInvariant, PTL

\* A step changes the state of requests in the list, or of a new one.
LEMMA StateChanges ==
    ASSUME RingInv, [Next]_vars, NEW r \in Requests
    PROVE  /\ \/ state'[r] = state[r]
              \/ r \in ToSet(list)
              \/ r = made + 1 /\ made' = made + 1
           /\ made' = made \/ made' = made + 1
<1>0. TypeOK /\ state \in [Requests -> {"none", "prepared", "submitted", "completed", "cancelled"}]
  BY DEF RingInv, TypeOK
<1>1. ToSet(sq) \subseteq ToSet(list) /\ ToSet(cq) \subseteq ToSet(list)
  BY DEF RingInv, Places
<1>2. CASE PrepareNop
  BY <1>0, <1>2 DEF PrepareNop
<1>3. ASSUME NEW below, initialized, SubmitOnce(below) PROVE state'[r] = state[r] \/ r \in ToSet(list)
  <2>1. CASE UNCHANGED state
    BY <2>1
  <2>2. CASE \E k \in 0 .. Len(sq) : MarkSubmitted(k)
    <3>1. PICK k \in 0 .. Len(sq) : MarkSubmitted(k)
      BY <2>2
    <3>2. PreparedInList(list) = sq
      BY WalkFindsQueue
    <3>0. sq \in Seq(Requests)
      BY <1>0 DEF TypeOK
    <3>3. sq \in Seq(Requests) /\ Len(sq) \in Nat /\ k <= Len(sq)
      BY <3>0, <3>1
    <3>4. state' = [x \in Requests |-> IF x \in ToMark(k) THEN "submitted" ELSE state[x]]
      BY <3>1, <3>2, <3>3 DEF MarkSubmitted
    <3>5. ToMark(k) = Firsts(sq, k)
      BY <3>2 DEF ToMark, Firsts
    <3>6. ToMark(k) \subseteq ToSet(sq)
      BY <3>1, <3>3, <3>5, Cut
    <3> QED
      BY <1>1, <3>4, <3>6
  <2> QED
    BY <1>3, <2>1, <2>2 DEF SubmitOnce
<1>4. ASSUME NEW below, NEW got, initialized, ReapLoop(below, got) PROVE state'[r] = state[r] \/ r \in ToSet(list)
  <2>1. PICK m \in 0 .. Len(cq) : CompleteAll({cq[i] : i \in 1 .. m})
    BY <1>4 DEF ReapLoop
  <2>2. CompleteAll(Firsts(cq, m))
    BY <2>1 DEF Firsts
  <2>3. cq \in Seq(Requests)
    BY <1>0 DEF TypeOK
  <2>4. Firsts(cq, m) \subseteq ToSet(cq)
    BY <2>3, Cut
  <2> QED
    BY <1>1, <2>2, <2>4 DEF CompleteAll
<1>5. CASE Submit
  BY <1>3, <1>5 DEF Submit
<1>6. CASE Reap
  BY <1>4, <1>6 DEF Reap
<1>7. CASE Close \/ Reinit
  BY <1>7 DEF Close, Reinit, ReleaseRequests
<1>8. CASE ResumeSubmit
  BY <1>3, <1>8 DEF ResumeSubmit, RingUnchanged
<1>9. CASE ResumeReap
  BY <1>4, <1>9 DEF ResumeReap, RingUnchanged
<1>10. CASE (\E x \in Requests : DropReference(x)) \/ CallRaises \/ KernelCompletes \/ UNCHANGED vars
  BY <1>10 DEF DropReference, CallRaises, KernelCompletes, vars
<1> QED
  BY <1>2, <1>5, <1>6, <1>7, <1>8, <1>9, <1>10 DEF Next

\* A request that was not allocated has no state yet.
Fresh == \A r \in Requests : r \notin 1 .. made => state[r] = "none"

\* Only prepare_nop gives a new request a state.
LEMMA FreshStays == Spec => []Fresh
<1>1. Init => Fresh
  BY DEF Init, Fresh
<1>2. ASSUME RingInv, Fresh, [Next]_vars PROVE Fresh'
  <2> SUFFICES ASSUME NEW r \in Requests, r \notin 1 .. made' PROVE state'[r] = "none"
    BY DEF Fresh
  <2>1. made \in Nat /\ ToSet(list) \subseteq 1 .. made
    BY <1>2, RequestSets DEF RingInv, Places
  <2>2. /\ state'[r] = state[r] \/ r \in ToSet(list) \/ (r = made + 1 /\ made' = made + 1)
        /\ made' = made \/ made' = made + 1
    BY <1>2, StateChanges
  <2>3. r \notin 1 .. made /\ ~(r = made + 1 /\ made' = made + 1)
    BY <2>1, <2>2
  <2> QED
    BY <1>2, <2>1, <2>2, <2>3 DEF Fresh
<1> QED
  BY <1>1, <1>2, RingInvariant, PTL DEF Spec

\* No step takes a request out of a terminal state: a late reap, a nested call or close()
\* changes nothing about a request that is done.
THEOREM TerminalStaysFinal == Spec => TerminalIsFinal
<1>1. ASSUME RingInv, Fresh, [Next]_vars PROVE [\A r \in Requests : Done(r) => state'[r] = state[r]]_vars
  <2> SUFFICES ASSUME NEW r \in Requests, Done(r) PROVE state'[r] = state[r]
    OBVIOUS
  <2>0. state[r] \in {"completed", "cancelled"}
    BY DEF Done
  <2>1. /\ \A x \in ToSet(sq) : state[x] = "prepared"
        /\ \A x \in inflight \cup ToSet(cq) : state[x] = "submitted"
        /\ ToSet(list) = ToSet(sq) \cup inflight \cup ToSet(cq)
    BY <1>1 DEF RingInv, States, Places
  <2>2. r \notin ToSet(list)
    BY <2>0, <2>1
  <2>3. made \in Nat
    BY <1>1, RequestSets DEF RingInv
  <2>4. r \in 1 .. made
    BY <1>1, <2>0 DEF Fresh
  <2>5. r # made + 1
    BY <2>3, <2>4
  <2> QED
    BY <1>1, <2>2, <2>5, StateChanges
<1> QED
  BY <1>1, RingInvariant, FreshStays, PTL DEF Spec, TerminalIsFinal

-----------------------------------------------------------------------------
(* The refinement.  Each call is one step of RequestLife or none.          *)

\* What a call may do, seen from RequestLife.
OwnerStep(new, sent, gone) ==
    /\ 1 .. made' = 1 .. made \cup new /\ new \cap (1 .. made) = {}
    /\ sent \subseteq ToSet(sq) /\ gone \subseteq ToSet(cq)
    /\ ToSet(sq') = (ToSet(sq) \ sent) \cup new
    /\ inflight' = inflight \cup sent
    /\ ToSet(cq') = ToSet(cq) \ gone
    /\ ToSet(list') = (ToSet(list) \ gone) \cup new

\* Such a step is one of the owner.
LEMMA OwnerSimulates ==
    ASSUME NEW new, NEW sent, NEW gone, OwnerStep(new, sent, gone)
    PROVE  Life!Next
<1>1. Life!Owner(new, sent, gone, gone)
  BY DEF OwnerStep, Life!Owner
<1>2. new \in SUBSET ((1 .. made') \ (1 .. made))
  BY DEF OwnerStep
<1>3. sent \in SUBSET ToSet(sq) /\ gone \in SUBSET ToSet(cq)
  BY DEF OwnerStep
<1> QED
  BY <1>1, <1>2, <1>3 DEF Life!Next

\* submit(), first made or resumed.
LEMMA SubmitSimulates ==
    ASSUME RingInv, NEW below, initialized, SubmitOnce(below), UNCHANGED <<list, made, cq>>
    PROVE  [Life!Next]_(Life!vars)
<1>0. sq \in Seq(Requests) /\ Increasing(sq)
  BY DEF RingInv, TypeOK, Places
<1>1. CASE UNCHANGED <<sq, inflight>>
  BY <1>1 DEF Life!vars
<1>2. CASE \E k \in 0 .. Len(sq) : /\ sq' = SubSeq(sq, k + 1, Len(sq))
                                   /\ inflight' = inflight \cup {sq[i] : i \in 1 .. k}
  <2>1. PICK k \in 0 .. Len(sq) : /\ sq' = SubSeq(sq, k + 1, Len(sq))
                                  /\ inflight' = inflight \cup {sq[i] : i \in 1 .. k}
    BY <1>2
  <2>2. inflight' = inflight \cup Firsts(sq, k)
    BY <2>1 DEF Firsts
  <2>3. Once(sq)
    BY <1>0, GrowingOnce, RequestNumbers
  <2>4. ToSet(sq) = Firsts(sq, k) \cup ToSet(sq') /\ Firsts(sq, k) \cap ToSet(sq') = {}
    BY <1>0, <2>1, <2>3, Cut
  <2>5. list' = list /\ made' = made /\ cq' = cq
    OBVIOUS
  <2>6. OwnerStep({}, Firsts(sq, k), {})
    BY <2>2, <2>4, <2>5 DEF OwnerStep
  <2> QED
    BY <2>6, OwnerSimulates
<1> QED
  BY <1>1, <1>2 DEF SubmitOnce

\* reap(), first made or resumed.
LEMMA ReapSimulates ==
    ASSUME RingInv, NEW below, NEW got, initialized, ReapLoop(below, got),
           UNCHANGED <<made, sq, inflight>>
    PROVE  [Life!Next]_(Life!vars)
<1>1. PICK m \in 0 .. Len(cq) :
        /\ cq' = SubSeq(cq, m + 1, Len(cq))
        /\ CompleteAll({cq[i] : i \in 1 .. m}) /\ UnlinkAll({cq[i] : i \in 1 .. m})
  BY DEF ReapLoop
<1> DEFINE new == Firsts(cq, m)
<1>2. CompleteAll(new) /\ UnlinkAll(new) /\ new = Firsts(cq, m)
  BY <1>1 DEF Firsts
<1> HIDE DEF new
<1>3. /\ new \subseteq ToSet(list) /\ ToSet(list') = ToSet(list) \ new
      /\ ToSet(cq) = new \cup ToSet(cq') /\ new \cap ToSet(cq') = {}
  BY <1>1, <1>2, ReapMoves
<1>4. made' = made /\ sq' = sq /\ inflight' = inflight
  OBVIOUS
<1>5. OwnerStep({}, {}, new)
  BY <1>3, <1>4 DEF OwnerStep
<1> QED
  BY <1>5, OwnerSimulates

\* prepare_nop draws a request and queues it.
LEMMA PrepareSimulates ==
    ASSUME RingInv, PrepareNop
    PROVE  [Life!Next]_(Life!vars)
<1> DEFINE r == made + 1
<1>0. TypeOK /\ made \in Nat /\ made < MaxRequests
  BY RequestSets DEF RingInv, PrepareNop
<1>1. r \in Requests /\ r \notin 1 .. made /\ 1 .. r = 1 .. made \cup {r}
  BY <1>0, RequestNumbers DEF Requests
<1>2. /\ list' = Append(list, r) /\ sq' = Append(sq, r) /\ made' = r
      /\ inflight' = inflight /\ cq' = cq
  BY DEF PrepareNop, Link
<1> HIDE DEF r
<1>3. list \in Seq(Requests) /\ sq \in Seq(Requests)
  BY <1>0 DEF TypeOK
<1>4. ToSet(Append(list, r)) = ToSet(list) \cup {r} /\ ToSet(Append(sq, r)) = ToSet(sq) \cup {r}
  BY <1>1, <1>3, AppendElements
<1>5. OwnerStep({r}, {}, {})
  BY <1>1, <1>2, <1>4 DEF OwnerStep
<1> QED
  BY <1>5, OwnerSimulates

\* The kernel's step, and the release of the ring.
LEMMA OthersSimulate ==
    ASSUME RingInv, KernelCompletes \/ Close \/ Reinit
    PROVE  [Life!Next]_(Life!vars)
<1>1. CASE KernelCompletes
  <2>1. PICK r \in inflight : inflight' = inflight \ {r} /\ cq' = Append(cq, r)
    BY <1>1 DEF KernelCompletes
  <2>2. list' = list /\ made' = made /\ sq' = sq
    BY <1>1 DEF KernelCompletes
  <2>3. cq \in Seq(Requests) /\ r \in Requests
    BY <2>1 DEF RingInv, TypeOK
  <2>4. ToSet(Append(cq, r)) = ToSet(cq) \cup {r}
    BY <2>3, AppendElements
  <2>5. Life!Kernel(r)
    BY <2>1, <2>2, <2>4 DEF Life!Kernel
  <2> QED
    BY <2>1, <2>5 DEF Life!Next
<1>2. CASE Close \/ Reinit
  <2>1. made' = made /\ list' = <<>> /\ sq' = <<>> /\ inflight' = {} /\ cq' = <<>>
    BY <1>2 DEF Close, Reinit, ReleaseRequests
  <2>2. ToSet(<<>>) = {}
    <3>1. <<>> \in Seq(Requests)
      OBVIOUS
    <3> QED
      BY <3>1, Elements
  <2>3. Life!GiveUp
    BY <2>1, <2>2 DEF Life!GiveUp
  <2> QED
    BY <2>3 DEF Life!Next
<1> QED
  BY <1>1, <1>2

\* The C extension implements RequestLife: interrupted, nested and resumed calls lose no
\* request, give none to the kernel twice, and let go of one only when its CQE is consumed
\* or the ring is closed.
THEOREM NativeImplements == Spec => ImplementsLife
<1>1. Init => Life!Init
  <2> SUFFICES ASSUME Init PROVE Life!Init
    OBVIOUS
  <2>1. <<>> \in Seq(Requests)
    OBVIOUS
  <2>2. ToSet(<<>>) = {}
    BY <2>1, Elements
  <2>3. 1 .. 0 = {}
    OBVIOUS
  <2> QED
    BY <2>2, <2>3 DEF Init, Life!Init
<1>2. ASSUME RingInv, [Next]_vars PROVE [Life!Next]_(Life!vars)
  <2>1. CASE PrepareNop
    BY <1>2, <2>1, PrepareSimulates
  <2>2. CASE Submit
    BY <1>2, <2>2, SubmitSimulates DEF Submit
  <2>3. CASE Reap
    BY <1>2, <2>3, ReapSimulates DEF Reap
  <2>4. CASE ResumeSubmit
    BY <1>2, <2>4, SubmitSimulates DEF ResumeSubmit, RingUnchanged
  <2>5. CASE ResumeReap
    BY <1>2, <2>5, ReapSimulates DEF ResumeReap, RingUnchanged
  <2>6. CASE KernelCompletes \/ Close \/ Reinit
    BY <1>2, <2>6, OthersSimulate
  <2>7. CASE (\E r \in Requests : DropReference(r)) \/ CallRaises \/ UNCHANGED vars
    <3>1. UNCHANGED <<made, sq, inflight, cq, list>>
      BY <2>7 DEF DropReference, CallRaises, vars
    <3> QED
      BY <3>1 DEF Life!vars
  <2> QED
    BY <1>2, <2>1, <2>2, <2>3, <2>4, <2>5, <2>6, <2>7 DEF Next
<1> QED
  BY <1>1, <1>2, RingInvariant, PTL DEF Spec, ImplementsLife, Life!Spec

=============================================================================
