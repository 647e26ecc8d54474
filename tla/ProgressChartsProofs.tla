------------------------ MODULE ProgressChartsProofs ------------------------
(***************************************************************************)
(* What the charts of a test show follows from its entries, however many   *)
(* there are and in whatever order they came (ChartsFollowEntries).        *)
(*                                                                         *)
(* A filter and a sort both take entries, each once (Takes): a filter in   *)
(* the order they have (KeptIs), a sort in that of their times (ByTimeIs); *)
(* both because each element of a finite set that is ordered has its own   *)
(* rank (RankCovers, InOrderIs).  So a chart has as many points of each    *)
(* value as there are entries with it (TakesCount), and it does not matter *)
(* whether the entries are filtered or sorted first (KeptByTime).          *)
(*                                                                         *)
(* A sum is a recursion over the subsets of a set, and what is said of     *)
(* sums is proved without induction: of the sets for which it would fail   *)
(* one contains no other (SmallestSet), and without one of its elements it *)
(* would be smaller.  The area under a chart of rates is a sum of          *)
(* differences, which is the difference of the last and the first counter  *)
(* (SumGrowth); a mean lies between its values (SumAverage).               *)
(***************************************************************************)
EXTENDS ProgressCharts, FiniteSetTheorems, SequenceTheorems, TLAPS

-----------------------------------------------------------------------------
(* Least elements and finite orders. *)

(* A set of naturals has a least element.                                  *)
LEMMA LeastExists ==
    ASSUME NEW S, S \subseteq Nat, S # {}
    PROVE  \E x \in S : \A y \in S : x <= y
<1>1. PICK x \in S : \A y \in S : <<y, x>> \notin OpToRel(<, Nat)
  BY NatLessThanWellFounded, WFMin
<1>2. \A y \in S : x <= y
  <2>1. ASSUME NEW y \in S, y < x PROVE FALSE
    <3>1. y \in Nat /\ x \in Nat
      OBVIOUS
    <3>2. <<y, x>> \in OpToRel(<, Nat)
      BY <2>1, <3>1 DEF OpToRel
    <3>3. QED
      BY <1>1, <3>2
  <2>2. QED
    BY <2>1
<1>3. QED
  BY <1>2

(* Among the subsets of a finite set there is one that contains no other.   *)
LEMMA SmallestSet ==
    ASSUME NEW S, IsFiniteSet(S), NEW B, B \subseteq SUBSET S, B # {}
    PROVE  \E T \in B : \A U \in B : U \subseteq T => U = T
<1> DEFINE sizes == {n \in Nat : \E T \in B : Cardinality(T) = n}
<1>1. \A T \in B : IsFiniteSet(T) /\ Cardinality(T) \in Nat
  <2> SUFFICES ASSUME NEW T \in B PROVE IsFiniteSet(T) /\ Cardinality(T) \in Nat
    OBVIOUS
  <2>1. T \in SUBSET S
    OBVIOUS
  <2>2. IsFiniteSet(T)
    BY <2>1, FS_Subset, Zenon
  <2>3. QED
    BY <2>2, FS_CardinalityType, Zenon
<1>2. sizes \subseteq Nat /\ sizes # {}
  BY <1>1
<1>3. PICK n \in sizes : \A m \in sizes : n <= m
  <2> HIDE DEF sizes
  <2>1. QED
    BY <1>2, LeastExists
<1>4. PICK T \in B : Cardinality(T) = n
  OBVIOUS
<1>5. ASSUME NEW U \in B, U \subseteq T PROVE U = T
  <2>1. IsFiniteSet(T) /\ U \in SUBSET T
    BY <1>1, <1>5
  <2>2. Cardinality(U) <= Cardinality(T) /\ (Cardinality(T) = Cardinality(U) => T = U)
    BY <2>1, FS_Subset, Zenon
  <2>3. Cardinality(U) \in sizes
    BY <1>1
  <2>4. QED
    BY <1>1, <1>3, <1>4, <2>2, <2>3
<1>6. QED
  BY <1>4, <1>5

Below(S, R, x) == {y \in S : <<y, x>> \in R}

(* R is a strict total order of S.                                         *)
Orders(R, S) ==
    /\ \A x \in S : <<x, x>> \notin R
    /\ \A x, y \in S : x # y => <<x, y>> \in R \/ <<y, x>> \in R
    /\ \A x, y, z \in S : <<x, y>> \in R /\ <<y, z>> \in R => <<x, z>> \in R

(* In a finite set with a strict total order R, there is an element with   *)
(* each number of elements before it.                                      *)
LEMMA RankCovers ==
    ASSUME NEW S, IsFiniteSet(S), NEW R, Orders(R, S)
    PROVE  /\ Cardinality(S) \in Nat
           /\ \A x \in S : Cardinality(Below(S, R, x)) \in 0..(Cardinality(S) - 1)
           /\ \A k \in 0..(Cardinality(S) - 1) : \E x \in S : Cardinality(Below(S, R, x)) = k
           /\ \A x, y \in S : <<x, y>> \in R =>
                 Cardinality(Below(S, R, x)) < Cardinality(Below(S, R, y))
<1> DEFINE N == Cardinality(S)
           f == [x \in S |-> Cardinality(Below(S, R, x))]
<1>1. N \in Nat
  BY FS_CardinalityType
<1>2. \A x \in S : IsFiniteSet(S \ {x}) /\ Cardinality(S \ {x}) = N - 1
  BY FS_RemoveElement
<1>3. ASSUME NEW x \in S PROVE IsFiniteSet(Below(S, R, x)) /\ Cardinality(Below(S, R, x)) \in 0..(N - 1)
  <2>1. Below(S, R, x) \in SUBSET (S \ {x})
    BY DEF Below, Orders
  <2>2. IsFiniteSet(S \ {x}) /\ Cardinality(S \ {x}) = N - 1
    BY <1>2
  <2> HIDE DEF N
  <2>5. IsFiniteSet(Below(S, R, x)) /\ Cardinality(Below(S, R, x)) <= Cardinality(S \ {x})
    BY <2>1, <2>2, FS_Subset, Zenon
  <2>3. Cardinality(Below(S, R, x)) \in Nat
    BY <2>5, FS_CardinalityType
  <2>4. QED
    BY <1>1, <2>2, <2>3, <2>5
<1>4. ASSUME NEW x \in S, NEW y \in S, <<x, y>> \in R
      PROVE  Cardinality(Below(S, R, x)) < Cardinality(Below(S, R, y))
  <2>1. Below(S, R, x) \in SUBSET (Below(S, R, y) \ {x}) /\ x \in Below(S, R, y)
    BY <1>4 DEF Below, Orders
  <2>2. /\ IsFiniteSet(Below(S, R, y) \ {x})
        /\ Cardinality(Below(S, R, y) \ {x}) = Cardinality(Below(S, R, y)) - 1
    BY <1>3, <2>1, FS_RemoveElement
  <2>3. Cardinality(Below(S, R, x)) <= Cardinality(Below(S, R, y)) - 1
    BY <2>1, <2>2, FS_Subset
  <2>4. QED
    BY <1>3, <2>3
<1> HIDE DEF N
<1>5. f \in Injection(S, 0..(N - 1))
  <2>1. f \in [S -> 0..(N - 1)]
    BY <1>3
  <2>2. \A x, y \in S : f[x] = f[y] => x = y
    <3> SUFFICES ASSUME NEW x \in S, NEW y \in S, x # y PROVE f[x] # f[y]
      OBVIOUS
    <3>1. f[x] < f[y] \/ f[y] < f[x]
      BY <1>4 DEF Orders
    <3>2. f[x] \in Nat /\ f[y] \in Nat
      BY <1>1, <1>3
    <3> HIDE DEF f
    <3>3. QED
      BY <3>1, <3>2
  <2> HIDE DEF f
  <2>3. QED
    BY <2>1, <2>2 DEF Injection, IsInjective
<1>6. IsFiniteSet(0..(N - 1)) /\ Cardinality(0..(N - 1)) = N
  BY <1>1, FS_Interval
<1> HIDE DEF f
<1>7. f \in Surjection(S, 0..(N - 1))
  BY <1>5, <1>6, FS_Injection DEF N
<1>8. \A k \in 0..(N - 1) : \E x \in S : f[x] = k
  BY <1>7 DEF Surjection
<1>9. QED
  BY <1>1, <1>3, <1>4, <1>8 DEF N, f

-----------------------------------------------------------------------------
(* What is put in order. *)

(* The elements come each once, one after the other.                       *)
LEMMA InOrderIs ==
    ASSUME NEW S, IsFiniteSet(S), NEW R, Orders(R, S)
    PROVE  /\ Cardinality(S) \in Nat
           /\ InOrder(S, R) \in [1..Cardinality(S) -> S]
           /\ \A k \in 1..Cardinality(S) : Cardinality(Below(S, R, InOrder(S, R)[k])) = k - 1
           /\ \A i, j \in 1..Cardinality(S) :
                 InOrder(S, R)[i] = InOrder(S, R)[j] => i = j
           /\ \A x \in S : \E k \in 1..Cardinality(S) : InOrder(S, R)[k] = x
           /\ \A i, j \in 1..Cardinality(S) :
                 i < j <=> <<InOrder(S, R)[i], InOrder(S, R)[j]>> \in R
<1> DEFINE N == Cardinality(S)
           rank(x) == Cardinality(Below(S, R, x))
           placed == {<<1 + rank(x), x>> : x \in S}
           at == [k \in 1..N |-> (CHOOSE p \in placed : p[1] = k)[2]]
<1>1. InOrder(S, R) = at
  BY DEF InOrder, Below
<1>2. /\ N \in Nat
      /\ \A x \in S : rank(x) \in 0..(N - 1)
      /\ \A k \in 0..(N - 1) : \E x \in S : rank(x) = k
      /\ \A x, y \in S : <<x, y>> \in R => rank(x) < rank(y)
  BY RankCovers
<1> HIDE DEF N, rank
<1>3. ASSUME NEW k \in 1..N PROVE at[k] \in S /\ rank(at[k]) = k - 1
  <2>1. k - 1 \in 0..(N - 1)
    BY <1>2
  <2>2. PICK x \in S : rank(x) = k - 1
    BY <1>2, <2>1
  <2>3. \E p \in placed : p[1] = k
    <3>1. <<1 + rank(x), x>> \in placed
      OBVIOUS
    <3>2. 1 + rank(x) = k
      BY <2>2
    <3>3. QED
      BY <3>1, <3>2
  <2>4. PICK p \in placed : p[1] = k /\ at[k] = p[2]
    <3> HIDE DEF placed
    <3>1. (CHOOSE p \in placed : p[1] = k) \in placed /\ (CHOOSE p \in placed : p[1] = k)[1] = k
      BY <2>3
    <3>2. QED
      BY <3>1
  <2>5. PICK y \in S : p = <<1 + rank(y), y>>
    OBVIOUS
  <2>6. QED
    BY <1>2, <2>4, <2>5
<1> HIDE DEF at, placed
<1>4. at \in [1..N -> S]
  BY <1>3 DEF at
<1>5. ASSUME NEW x \in S, NEW y \in S, rank(x) = rank(y) PROVE x = y
  <2>1. rank(x) \in Int
    BY <1>2
  <2>2. x # y => rank(x) < rank(y) \/ rank(y) < rank(x)
    BY <1>2 DEF Orders
  <2>3. QED
    BY <1>5, <2>1, <2>2
<1>6. \A i, j \in 1..N : at[i] = at[j] => i = j
  <2>1. \A i \in 1..N : rank(at[i]) = i - 1
    BY <1>3
  <2>2. QED
    BY <2>1
<1>7. \A x \in S : \E k \in 1..N : at[k] = x
  <2> SUFFICES ASSUME NEW x \in S PROVE \E k \in 1..N : at[k] = x
    OBVIOUS
  <2>1. 1 + rank(x) \in 1..N
    BY <1>2
  <2>2. at[1 + rank(x)] \in S /\ rank(at[1 + rank(x)]) = rank(x)
    BY <1>2, <1>3, <2>1
  <2>3. QED
    BY <1>5, <2>1, <2>2
<1>8. \A i, j \in 1..N : i < j <=> <<at[i], at[j]>> \in R
  <2> SUFFICES ASSUME NEW i \in 1..N, NEW j \in 1..N
               PROVE  i < j <=> <<at[i], at[j]>> \in R
    OBVIOUS
  <2>1. at[i] \in S /\ rank(at[i]) = i - 1 /\ at[j] \in S /\ rank(at[j]) = j - 1
    BY <1>3
  <2>2. <<at[i], at[j]>> \in R => i < j
    BY <1>2, <2>1
  <2>3. <<at[j], at[i]>> \in R => j < i
    BY <1>2, <2>1
  <2>4. at[i] = at[j] \/ <<at[i], at[j]>> \in R \/ <<at[j], at[i]>> \in R
    BY <2>1 DEF Orders
  <2>5. QED
    BY <1>6, <2>2, <2>3, <2>4
<1>9. QED
  BY <1>1, <1>2, <1>3, <1>4, <1>6, <1>7, <1>8 DEF N, rank

(* There is no other way to put them one after the other.                  *)
LEMMA InOrderOnly ==
    ASSUME NEW S, IsFiniteSet(S), NEW R, Orders(R, S), NEW N \in Nat, NEW f \in [1..N -> S],
           \A x \in S : \E k \in 1..N : f[k] = x,
           \A i, j \in 1..N : i < j => <<f[i], f[j]>> \in R
    PROVE  Cardinality(S) = N /\ f = InOrder(S, R)
<1>1. \A i, j \in 1..N : <<f[i], f[j]>> \in R => i < j
  <2> SUFFICES ASSUME NEW i \in 1..N, NEW j \in 1..N, <<f[i], f[j]>> \in R, ~ i < j
               PROVE  FALSE
    OBVIOUS
  <2>1. i = j \/ <<f[j], f[i]>> \in R
    OBVIOUS
  <2>2. QED
    BY <2>1 DEF Orders
<1>0. ASSUME NEW i \in 1..N, NEW j \in 1..N, f[i] = f[j] PROVE i = j
  <2>1. f[i] \in S /\ <<f[i], f[i]>> \notin R
    BY DEF Orders
  <2>2. ~ i < j /\ ~ j < i
    BY <1>0, <2>1
  <2>3. QED
    BY <2>2
<1>2. \A k \in 1..N : Cardinality(Below(S, R, f[k])) = k - 1
  <2> SUFFICES ASSUME NEW k \in 1..N PROVE Cardinality(Below(S, R, f[k])) = k - 1
    OBVIOUS
  <2> DEFINE B == Below(S, R, f[k])
             g == [i \in 1..(k - 1) |-> f[i]]
  <2>1. \A i \in 1..(k - 1) : i \in 1..N /\ f[i] \in B
    BY DEF Below
  <2>2. \A x \in B : \E i \in 1..(k - 1) : f[i] = x
    BY <1>1 DEF Below
  <2>3. \A i, j \in 1..(k - 1) : f[i] = f[j] => i = j
    BY <1>0, <2>1
  <2> HIDE DEF B
  <2>4. g \in Bijection(1..(k - 1), B)
    BY <2>1, <2>2, <2>3 DEF Bijection, Injection, IsInjective, Surjection
  <2>5. IsFiniteSet(1..(k - 1)) /\ Cardinality(1..(k - 1)) = k - 1
    BY FS_Interval
  <2>6. Cardinality(B) = Cardinality(1..(k - 1))
    BY <2>4, <2>5, FS_Bijection DEF ExistsBijection
  <2>7. QED
    BY <2>5, <2>6 DEF B
<1>3. f \in Bijection(1..N, S)
  <2>1. \A i, j \in 1..N : f[i] = f[j] => i = j
    BY <1>0
  <2>2. QED
    BY <2>1 DEF Bijection, Injection, IsInjective, Surjection
<1>4. Cardinality(S) = N
  <2>1. IsFiniteSet(1..N) /\ Cardinality(1..N) = N
    BY FS_Interval
  <2>2. QED
    BY <1>3, <2>1, FS_Bijection DEF ExistsBijection
<1>5. \A k \in 1..N : f[k] = InOrder(S, R)[k]
  <2> SUFFICES ASSUME NEW k \in 1..N PROVE f[k] = InOrder(S, R)[k]
    OBVIOUS
  <2>1. /\ Cardinality(Below(S, R, InOrder(S, R)[k])) = k - 1
        /\ InOrder(S, R)[k] \in S
    <3>1. k \in 1..Cardinality(S)
      BY <1>4
    <3>2. /\ InOrder(S, R) \in [1..Cardinality(S) -> S]
          /\ \A m \in 1..Cardinality(S) : Cardinality(Below(S, R, InOrder(S, R)[m])) = m - 1
      BY InOrderIs, Zenon
    <3>3. QED
      BY <3>1, <3>2
  <2>2. PICK j \in 1..N : f[j] = InOrder(S, R)[k]
    BY <2>1
  <2>3. j - 1 = k - 1
    BY <1>2, <2>1, <2>2
  <2>4. QED
    BY <2>2, <2>3
<1>6. QED
  BY <1>4, <1>5, InOrderIs

-----------------------------------------------------------------------------
(* Sums. *)

SumStep(d, S, f) ==
    [s \in SUBSET S |->
        IF s = {} THEN 0
        ELSE LET x == CHOOSE x \in s : TRUE IN d[x] + f[s \ {x}]]
Sums(d, S) == CHOOSE f : f = SumStep(d, S, f)

(* What SequencesExt folds is the sum that the recursion defines.          *)
LEMMA SumIs ==
    ASSUME NEW d, NEW S
    PROVE  SumFunctionOnSet(d, S) = Sums(d, S)[S]
BY DEF SumFunctionOnSet, FoldFunctionOnSet, MapThenFoldSet, Sums, SumStep

(* The recursion has a solution: one that is right for sets of up to n - 1  *)
(* elements makes one that is right for sets of up to n.                   *)
LEMMA SumsExist ==
    ASSUME NEW d, NEW S, IsFiniteSet(S)
    PROVE  Sums(d, S) = SumStep(d, S, Sums(d, S))
<1> DEFINE first(s) == CHOOSE x \in s : TRUE
           rest(s)  == s \ {first(s)}
           value(f, s) == IF s = {} THEN 0 ELSE d[first(s)] + f[rest(s)]
           Right(n) == \E f : \A s \in SUBSET S : Cardinality(s) <= n => f[s] = value(f, s)
           bad == {n \in Nat : ~Right(n)}
<1>1. \A s \in SUBSET S : IsFiniteSet(s) /\ Cardinality(s) \in Nat /\ Cardinality(s) <= Cardinality(S)
  <2> SUFFICES ASSUME NEW s \in SUBSET S
               PROVE  IsFiniteSet(s) /\ Cardinality(s) \in Nat /\ Cardinality(s) <= Cardinality(S)
    OBVIOUS
  <2>1. IsFiniteSet(s) /\ Cardinality(s) <= Cardinality(S)
    BY FS_Subset, Zenon
  <2>2. QED
    BY <2>1, FS_CardinalityType, Zenon
<1>2. \A s \in SUBSET S : s # {} =>
        first(s) \in s /\ rest(s) \in SUBSET S /\ Cardinality(rest(s)) = Cardinality(s) - 1
  <2> SUFFICES ASSUME NEW s \in SUBSET S, s # {}
               PROVE  first(s) \in s /\ rest(s) \in SUBSET S /\ Cardinality(rest(s)) = Cardinality(s) - 1
    OBVIOUS
  <2>1. first(s) \in s
    OBVIOUS
  <2>2. QED
    BY <1>1, <2>1, FS_RemoveElement
<1>3. \A s \in SUBSET S : Cardinality(s) = 0 <=> s = {}
  BY <1>1, FS_EmptySet
<1> HIDE DEF first, rest
<1>4. bad = {}
  <2> SUFFICES ASSUME bad # {} PROVE FALSE
    OBVIOUS
  <2>1. PICK n \in bad : \A m \in bad : n <= m
    <3>1. bad \subseteq Nat /\ bad # {}
      OBVIOUS
    <3> HIDE DEF bad
    <3>2. QED
      BY <3>1, LeastExists
  <2>2. n # 0
    <3>1. Right(0)
      <4> DEFINE zero == [s \in SUBSET S |-> 0]
      <4>1. \A s \in SUBSET S : Cardinality(s) <= 0 => zero[s] = value(zero, s)
        BY <1>1, <1>3
      <4> HIDE DEF zero
      <4>2. QED
        BY <4>1
    <3>2. QED
      BY <3>1
  <2>3. n - 1 \in Nat /\ Right(n - 1)
    BY <2>1, <2>2
  <2>4. PICK f : \A s \in SUBSET S : Cardinality(s) <= n - 1 => f[s] = value(f, s)
    BY <2>3
  <2> DEFINE g == [s \in SUBSET S |-> IF Cardinality(s) <= n - 1 THEN f[s] ELSE value(f, s)]
  <2>5. ASSUME NEW s \in SUBSET S, Cardinality(s) <= n PROVE g[s] = value(g, s)
    <3>1. g[s] = value(f, s)
      BY <2>4
    <3>2. s # {} => g[rest(s)] = f[rest(s)]
      BY <1>1, <1>2, <2>3, <2>5
    <3> HIDE DEF g
    <3>3. QED
      BY <3>1, <3>2
  <2> HIDE DEF g
  <2>6. Right(n)
    BY <2>5
  <2>7. QED
    BY <2>1, <2>6
<1>5. PICK f : \A s \in SUBSET S : f[s] = value(f, s)
  <2>1. Cardinality(S) \in Nat
    BY FS_CardinalityType
  <2>2. Right(Cardinality(S))
    BY <1>4, <2>1
  <2>3. QED
    BY <1>1, <2>2
<1> DEFINE h == [s \in SUBSET S |-> f[s]]
<1>6. h = SumStep(d, S, h)
  <2>1. \A s \in SUBSET S : h[s] = value(h, s)
    BY <1>2, <1>5
  <2> HIDE DEF value
  <2>2. h = [s \in SUBSET S |-> value(h, s)]
    BY <2>1
  <2> HIDE DEF h
  <2>3. QED
    BY <2>2 DEF SumStep, value, first, rest
<1> HIDE DEF h
<1>7. QED
  BY <1>6 DEF Sums

(* Two sums agree on the subsets they both know.                           *)
LEMMA SumsAgree ==
    ASSUME NEW d, NEW S, IsFiniteSet(S), NEW T \in SUBSET S, NEW s \in SUBSET T
    PROVE  Sums(d, T)[s] = Sums(d, S)[s]
<1> DEFINE bad == {u \in SUBSET T : Sums(d, T)[u] # Sums(d, S)[u]}
           first(u) == CHOOSE x \in u : TRUE
           rest(u)  == u \ {first(u)}
<1>1. IsFiniteSet(T)
  BY FS_Subset, Zenon
<1>2. \A u \in SUBSET T :
         /\ Sums(d, T)[u] = IF u = {} THEN 0 ELSE d[first(u)] + Sums(d, T)[rest(u)]
         /\ Sums(d, S)[u] = IF u = {} THEN 0 ELSE d[first(u)] + Sums(d, S)[rest(u)]
  <2> SUFFICES ASSUME NEW u \in SUBSET T
               PROVE  /\ Sums(d, T)[u] = IF u = {} THEN 0 ELSE d[first(u)] + Sums(d, T)[rest(u)]
                      /\ Sums(d, S)[u] = IF u = {} THEN 0 ELSE d[first(u)] + Sums(d, S)[rest(u)]
    OBVIOUS
  <2>1. u \in SUBSET T /\ u \in SUBSET S
    OBVIOUS
  <2>2. /\ Sums(d, T)[u] = SumStep(d, T, Sums(d, T))[u]
        /\ Sums(d, S)[u] = SumStep(d, S, Sums(d, S))[u]
    BY <1>1, SumsExist
  <2>3. QED
    BY <2>1, <2>2 DEF SumStep
<1>3. \A u \in SUBSET T : u # {} => first(u) \in u
  OBVIOUS
<1> HIDE DEF first
<1>4. bad = {}
  <2> SUFFICES ASSUME bad # {} PROVE FALSE
    OBVIOUS
  <2>1. PICK u \in bad : \A v \in bad : v \subseteq u => v = u
    <3>1. bad \subseteq SUBSET T /\ bad # {}
      OBVIOUS
    <3> HIDE DEF bad
    <3>2. QED
      BY <1>1, <3>1, SmallestSet
  <2>2. u # {}
    BY <1>2
  <2>3. rest(u) \in SUBSET T /\ rest(u) # u /\ rest(u) \subseteq u
    BY <1>3, <2>2
  <2>4. rest(u) \notin bad
    BY <2>1, <2>3
  <2> HIDE DEF rest
  <2>5. Sums(d, T)[rest(u)] = Sums(d, S)[rest(u)]
    BY <2>3, <2>4
  <2>6. QED
    BY <1>2, <2>2, <2>5
<1>5. QED
  BY <1>4

(* The sum of nothing is zero.                                             *)
LEMMA SumEmpty ==
    ASSUME NEW d
    PROVE  SumFunctionOnSet(d, {}) = 0
<1>1. IsFiniteSet({})
  BY FS_EmptySet
<1>2. Sums(d, {})[{}] = SumStep(d, {}, Sums(d, {}))[{}]
  BY <1>1, SumsExist
<1>3. QED
  BY <1>2, SumIs DEF SumStep

(* Some member comes first.                                                *)
LEMMA SumFirst ==
    ASSUME NEW d, NEW S, IsFiniteSet(S), S # {}
    PROVE  \E x \in S : SumFunctionOnSet(d, S) = d[x] + SumFunctionOnSet(d, S \ {x})
<1> DEFINE x == CHOOSE x \in S : TRUE
<1>1. x \in S
  OBVIOUS
<1>2. Sums(d, S)[S] = SumStep(d, S, Sums(d, S))[S]
  BY SumsExist
<1>3. SumStep(d, S, Sums(d, S))[S] = d[x] + Sums(d, S)[S \ {x}]
  BY DEF SumStep
<1> HIDE DEF x
<1>4. Sums(d, S \ {x})[S \ {x}] = Sums(d, S)[S \ {x}]
  <2> DEFINE T == S \ {x}
  <2>1. T \in SUBSET S /\ T \in SUBSET T
    OBVIOUS
  <2> HIDE DEF T
  <2>2. Sums(d, T)[T] = Sums(d, S)[T]
    BY <2>1, SumsAgree
  <2>3. QED
    BY <2>2 DEF T
<1>5. QED
  BY <1>1, <1>2, <1>3, <1>4, SumIs

(* A sum of integers is one.                                               *)
LEMMA SumType ==
    ASSUME NEW d, NEW S, IsFiniteSet(S), \A x \in S : d[x] \in Int
    PROVE  SumFunctionOnSet(d, S) \in Int
<1> DEFINE bad == {u \in SUBSET S : SumFunctionOnSet(d, u) \notin Int}
<1>1. bad = {}
  <2> SUFFICES ASSUME bad # {} PROVE FALSE
    OBVIOUS
  <2>1. PICK u \in bad : \A v \in bad : v \subseteq u => v = u
    <3>1. bad \subseteq SUBSET S /\ bad # {}
      OBVIOUS
    <3> HIDE DEF bad
    <3>2. QED
      BY <3>1, SmallestSet
  <2>2. u # {} /\ IsFiniteSet(u)
    <3>1. u \in SUBSET S
      OBVIOUS
    <3>2. IsFiniteSet(u)
      BY <3>1, FS_Subset, Zenon
    <3>3. u = {} => SumFunctionOnSet(d, u) = 0
      BY SumEmpty
    <3>4. QED
      BY <3>2, <3>3
  <2>3. PICK x \in u : SumFunctionOnSet(d, u) = d[x] + SumFunctionOnSet(d, u \ {x})
    BY <2>2, SumFirst
  <2>4. u \ {x} \in SUBSET S /\ u \ {x} \notin bad
    BY <2>1
  <2>5. SumFunctionOnSet(d, u \ {x}) \in Int /\ d[x] \in Int
    BY <2>4
  <2>6. QED
    BY <2>3, <2>5
<1>2. QED
  BY <1>1

(* Any element may be added up first.                                      *)
LEMMA SumRemove ==
    ASSUME NEW d, NEW S, IsFiniteSet(S), \A x \in S : d[x] \in Int, NEW y \in S
    PROVE  SumFunctionOnSet(d, S) = d[y] + SumFunctionOnSet(d, S \ {y})
<1> DEFINE sum(u) == SumFunctionOnSet(d, u)
           bad == {u \in SUBSET S : \E z \in u : sum(u) # d[z] + sum(u \ {z})}
<1>1. \A u \in SUBSET S : IsFiniteSet(u) /\ sum(u) \in Int
  <2> SUFFICES ASSUME NEW u \in SUBSET S PROVE IsFiniteSet(u) /\ sum(u) \in Int
    OBVIOUS
  <2>1. IsFiniteSet(u)
    BY FS_Subset, Zenon
  <2>2. QED
    BY <2>1, SumType
<1>2. \A u \in SUBSET S : u # {} => \E x \in u : sum(u) = d[x] + sum(u \ {x})
  BY <1>1, SumFirst
<1> HIDE DEF sum
<1>3. bad = {}
  <2> SUFFICES ASSUME bad # {} PROVE FALSE
    OBVIOUS
  <2>1. PICK u \in bad : \A v \in bad : v \subseteq u => v = u
    <3>1. bad \subseteq SUBSET S /\ bad # {}
      OBVIOUS
    <3> HIDE DEF bad
    <3>2. QED
      BY <3>1, SmallestSet
  <2>2. PICK z \in u : sum(u) # d[z] + sum(u \ {z})
    OBVIOUS
  <2>3. PICK x \in u : sum(u) = d[x] + sum(u \ {x})
    BY <1>2
  <2>4. x # z
    BY <2>2, <2>3
  <2>5. u \ {x} \in SUBSET S /\ u \ {z} \in SUBSET S /\ u \ {x} \notin bad /\ u \ {z} \notin bad
    BY <2>1
  <2>6. /\ sum(u \ {x}) = d[z] + sum((u \ {x}) \ {z})
        /\ sum(u \ {z}) = d[x] + sum((u \ {z}) \ {x})
    BY <2>4, <2>5
  <2>7. (u \ {x}) \ {z} = (u \ {z}) \ {x}
    OBVIOUS
  <2>8. /\ sum((u \ {z}) \ {x}) \in Int /\ d[x] \in Int /\ d[z] \in Int
        /\ sum(u \ {x}) \in Int /\ sum(u \ {z}) \in Int
    <3>1. (u \ {z}) \ {x} \in SUBSET S
      OBVIOUS
    <3>2. QED
      BY <1>1, <2>5, <3>1
  <2> DEFINE a == sum(u \ {x})
             b == sum(u \ {z})
             c == sum((u \ {z}) \ {x})
  <2>9. /\ sum(u) = d[x] + a /\ sum(u) # d[z] + b
        /\ a = d[z] + c /\ b = d[x] + c
    BY <2>2, <2>3, <2>6, <2>7
  <2>10. c \in Int /\ d[x] \in Int /\ d[z] \in Int
    BY <2>8
  <2> HIDE DEF a, b, c, bad
  <2>11. QED
    BY <2>9, <2>10
<1>4. sum(S) = d[y] + sum(S \ {y})
  BY <1>3
<1>5. QED
  BY <1>4 DEF sum

(* The same numbers, found elsewhere: f brings the places S to others.     *)
LEMMA SumMoved ==
    ASSUME NEW d, NEW e, NEW S, IsFiniteSet(S), NEW f,
           \A x, y \in S : f[x] = f[y] => x = y,
           \A x \in S : e[x] = d[f[x]] /\ e[x] \in Int
    PROVE  SumFunctionOnSet(e, S) = SumFunctionOnSet(d, {f[x] : x \in S})
<1> DEFINE image(u) == {f[x] : x \in u}
           bad == {u \in SUBSET S : SumFunctionOnSet(e, u) # SumFunctionOnSet(d, image(u))}
<1>1. bad = {}
  <2> SUFFICES ASSUME bad # {} PROVE FALSE
    OBVIOUS
  <2>1. PICK u \in bad : \A v \in bad : v \subseteq u => v = u
    <3>1. bad \subseteq SUBSET S /\ bad # {}
      OBVIOUS
    <3> HIDE DEF bad
    <3>2. QED
      BY <3>1, SmallestSet
  <2>2. u \in SUBSET S /\ IsFiniteSet(u)
    <3>1. u \in SUBSET S
      OBVIOUS
    <3>2. QED
      BY <3>1, FS_Subset, Zenon
  <2>3. u # {}
    <3>1. SumFunctionOnSet(e, {}) = 0 /\ SumFunctionOnSet(d, {}) = 0
      BY SumEmpty
    <3>2. u = {} => image(u) = {}
      OBVIOUS
    <3>3. QED
      BY <3>1, <3>2
  <2>4. PICK x \in u : TRUE
    BY <2>3
  <2> DEFINE r == u \ {x}
  <2>5. r \in SUBSET S /\ r \notin bad
    BY <2>1, <2>2, <2>4
  <2>6. SumFunctionOnSet(e, u) = e[x] + SumFunctionOnSet(e, r)
    BY <2>2, SumRemove
  <2>7. IsFiniteSet(image(u))
    <3> DEFINE g == [z \in u |-> f[z]]
    <3>1. g \in Surjection(u, image(u))
      BY DEF Surjection
    <3> HIDE DEF g, image
    <3>2. QED
      BY <2>2, <3>1, FS_Surjection
  <2>8. /\ f[x] \in image(u) /\ \A z \in image(u) : d[z] \in Int
        /\ image(u) \ {f[x]} = image(r)
    BY <2>2
  <2> HIDE DEF image
  <2>9. SumFunctionOnSet(d, image(u)) = d[f[x]] + SumFunctionOnSet(d, image(r))
    <3>1. SumFunctionOnSet(d, image(u)) = d[f[x]] + SumFunctionOnSet(d, image(u) \ {f[x]})
      BY <2>7, <2>8, SumRemove
    <3>2. QED
      BY <2>8, <3>1
  <2>10. SumFunctionOnSet(e, r) = SumFunctionOnSet(d, image(r))
    <3> HIDE DEF r
    <3>1. QED
      BY <2>5
  <2>11. e[x] = d[f[x]]
    BY <2>2
  <2>12. QED
    BY <2>6, <2>9, <2>10, <2>11
<1>2. S \notin bad
  BY <1>1
<1> HIDE DEF bad
<1>3. QED
  BY <1>2 DEF bad

(* The same numbers have the same sum.                                     *)
LEMMA SumSame ==
    ASSUME NEW d, NEW e, NEW S, IsFiniteSet(S), \A x \in S : e[x] = d[x] /\ e[x] \in Int
    PROVE  SumFunctionOnSet(e, S) = SumFunctionOnSet(d, S)
<1> DEFINE f == [x \in S |-> x]
<1>1. /\ \A x, y \in S : f[x] = f[y] => x = y
      /\ \A x \in S : e[x] = d[f[x]] /\ e[x] \in Int
      /\ {f[x] : x \in S} = S
  OBVIOUS
<1> HIDE DEF f
<1>2. SumFunctionOnSet(e, S) = SumFunctionOnSet(d, {f[x] : x \in S})
  BY <1>1, SumMoved
<1>3. QED
  BY <1>1, <1>2

(* The sum of the sums of two numbers each.                                *)
LEMMA SumPlus ==
    ASSUME NEW c, NEW d, NEW e, NEW S, IsFiniteSet(S),
           \A x \in S : d[x] \in Int /\ e[x] \in Int /\ c[x] = d[x] + e[x]
    PROVE  SumFunctionOnSet(c, S) = SumFunctionOnSet(d, S) + SumFunctionOnSet(e, S)
<1> DEFINE sum(g, u) == SumFunctionOnSet(g, u)
           bad == {u \in SUBSET S : sum(c, u) # sum(d, u) + sum(e, u)}
<1>1. bad = {}
  <2> SUFFICES ASSUME bad # {} PROVE FALSE
    OBVIOUS
  <2>1. PICK u \in bad : \A v \in bad : v \subseteq u => v = u
    <3>1. bad \subseteq SUBSET S /\ bad # {}
      OBVIOUS
    <3> HIDE DEF bad
    <3>2. QED
      BY <3>1, SmallestSet
  <2>2. u \in SUBSET S /\ IsFiniteSet(u)
    <3>1. u \in SUBSET S
      OBVIOUS
    <3>2. QED
      BY <3>1, FS_Subset, Zenon
  <2>3. u # {}
    <3>1. sum(c, {}) = 0 /\ sum(d, {}) = 0 /\ sum(e, {}) = 0
      BY SumEmpty
    <3> HIDE DEF sum
    <3>2. sum(c, {}) = sum(d, {}) + sum(e, {})
      BY <3>1
    <3>3. QED
      BY <3>2
  <2>4. PICK x \in u : TRUE
    BY <2>3
  <2> DEFINE r == u \ {x}
  <2>5. r \in SUBSET S /\ r \notin bad /\ IsFiniteSet(r)
    BY <2>1, <2>2, <2>4, FS_RemoveElement
  <2>6. \A y \in u : c[y] \in Int /\ d[y] \in Int /\ e[y] \in Int
    BY <2>2
  <2>7. /\ sum(c, u) = c[x] + sum(c, r) /\ sum(d, u) = d[x] + sum(d, r)
        /\ sum(e, u) = e[x] + sum(e, r)
    BY <2>2, <2>6, SumRemove
  <2>8. sum(d, r) \in Int /\ sum(e, r) \in Int
    BY <2>5, <2>6, SumType
  <2> HIDE DEF r, sum
  <2>9. sum(c, r) = sum(d, r) + sum(e, r)
    BY <2>5
  <2>10. c[x] = d[x] + e[x] /\ d[x] \in Int /\ e[x] \in Int
    BY <2>2
  <2>11. sum(c, u) = sum(d, u) + sum(e, u)
    BY <2>7, <2>8, <2>9, <2>10
  <2>12. QED
    BY <2>11
<1>2. S \notin bad
  BY <1>1
<1> HIDE DEF sum
<1>3. QED
  BY <1>2 DEF sum

(* The sum over two sets with nothing in common.                           *)
LEMMA SumUnion ==
    ASSUME NEW d, NEW S, IsFiniteSet(S), NEW T, IsFiniteSet(T), S \cap T = {},
           \A x \in S \cup T : d[x] \in Int
    PROVE  SumFunctionOnSet(d, S \cup T) = SumFunctionOnSet(d, S) + SumFunctionOnSet(d, T)
<1> DEFINE sum(u) == SumFunctionOnSet(d, u)
           bad == {u \in SUBSET T : sum(S \cup u) # sum(S) + sum(u)}
<1>1. bad = {}
  <2> SUFFICES ASSUME bad # {} PROVE FALSE
    OBVIOUS
  <2>1. PICK u \in bad : \A v \in bad : v \subseteq u => v = u
    <3>1. bad \subseteq SUBSET T /\ bad # {}
      OBVIOUS
    <3> HIDE DEF bad
    <3>2. QED
      BY <3>1, SmallestSet
  <2>2. u \in SUBSET T /\ IsFiniteSet(u)
    <3>1. u \in SUBSET T
      OBVIOUS
    <3>2. QED
      BY <3>1, FS_Subset, Zenon
  <2>3. u # {}
    <3>1. S \cup {} = S /\ sum({}) = 0 /\ sum(S) \in Int
      BY SumEmpty, SumType
    <3> HIDE DEF sum
    <3>2. sum(S \cup {}) = sum(S) + sum({})
      BY <3>1
    <3>3. QED
      BY <3>2
  <2>4. PICK x \in u : TRUE
    BY <2>3
  <2> DEFINE r == u \ {x}
             a == S \cup u
  <2>5. r \in SUBSET T /\ r \notin bad /\ IsFiniteSet(r) /\ IsFiniteSet(a)
    <3>1. IsFiniteSet(r)
      BY <2>2, FS_RemoveElement
    <3>2. IsFiniteSet(a)
      BY <2>2, FS_Union
    <3>3. QED
      BY <2>1, <2>2, <2>4, <3>1, <3>2
  <2>6. a \ {x} = S \cup r /\ x \in a /\ \A y \in a : d[y] \in Int
    BY <2>2
  <2> HIDE DEF a
  <2>7. sum(a) = d[x] + sum(a \ {x}) /\ sum(u) = d[x] + sum(r)
    BY <2>2, <2>5, <2>6, SumRemove
  <2>8. sum(r) \in Int /\ sum(S) \in Int /\ d[x] \in Int
    BY <2>2, <2>5, SumType
  <2> HIDE DEF r, sum
  <2>9. sum(a \ {x}) = sum(S) + sum(r)
    BY <2>5, <2>6
  <2>10. sum(a) = sum(S) + sum(u)
    BY <2>7, <2>8, <2>9
  <2>11. QED
    BY <2>10 DEF a
<1>2. T \notin bad
  BY <1>1
<1> HIDE DEF sum
<1>3. QED
  BY <1>2 DEF sum

(* Some number is not above the average, and some is not below it.         *)
LEMMA SumAverage ==
    ASSUME NEW d, NEW S, IsFiniteSet(S), S # {}, \A x \in S : d[x] \in Int
    PROVE  /\ \E x \in S : d[x] * Cardinality(S) <= SumFunctionOnSet(d, S)
           /\ \E x \in S : SumFunctionOnSet(d, S) <= d[x] * Cardinality(S)
<1> DEFINE sum(u) == SumFunctionOnSet(d, u)
           n(u) == Cardinality(u)
           Fine(u) == /\ \E x \in u : d[x] * n(u) <= sum(u)
                      /\ \E x \in u : sum(u) <= d[x] * n(u)
           bad == {u \in SUBSET S : u # {} /\ ~Fine(u)}
<1>1. bad = {}
  <2> SUFFICES ASSUME bad # {} PROVE FALSE
    OBVIOUS
  <2>1. PICK u \in bad : \A v \in bad : v \subseteq u => v = u
    <3>1. bad \subseteq SUBSET S /\ bad # {}
      OBVIOUS
    <3> HIDE DEF bad
    <3>2. QED
      BY <3>1, SmallestSet
  <2>2. u \in SUBSET S /\ IsFiniteSet(u)
    <3>1. u \in SUBSET S
      OBVIOUS
    <3>2. QED
      BY <3>1, FS_Subset, Zenon
  <2>3. u # {} /\ ~Fine(u)
    OBVIOUS
  <2>4. PICK x \in u : TRUE
    BY <2>3
  <2> DEFINE r == u \ {x}
  <2>5. IsFiniteSet(r) /\ n(u) = n(r) + 1 /\ n(r) \in Nat
    <3>1. IsFiniteSet(r) /\ n(r) = n(u) - 1
      BY <2>2, <2>4, FS_RemoveElement
    <3>2. n(r) \in Nat /\ n(u) \in Nat
      BY <2>2, <3>1, FS_CardinalityType
    <3> HIDE DEF n
    <3>3. QED
      BY <3>1, <3>2
  <2>6. \A y \in u : d[y] \in Int
    BY <2>2
  <2>7. sum(u) = d[x] + sum(r) /\ sum(r) \in Int
    <3>1. sum(u) = d[x] + sum(r)
      BY <2>2, <2>6, SumRemove
    <3>2. sum(r) \in Int
      BY <2>5, <2>6, SumType
    <3>3. QED
      BY <3>1, <3>2
  <2>8. r \in SUBSET S /\ r \subseteq u /\ r # u
    BY <2>2, <2>4
  <2>9. r = {} => sum(r) = 0 /\ n(r) = 0
    BY SumEmpty, FS_EmptySet
  <2>10. r = {} \/ Fine(r)
    BY <2>1, <2>8
  <2> HIDE DEF bad, sum, n, r
  <2>11. CASE r = {}
    <3>1. sum(u) = d[x] /\ n(u) = 1 /\ d[x] \in Int
      BY <2>5, <2>6, <2>7, <2>9, <2>11
    <3>2. d[x] * n(u) <= sum(u) /\ sum(u) <= d[x] * n(u)
      BY <3>1
    <3>3. QED
      BY <2>3, <3>2
  <2>12. CASE Fine(r)
    <3>1. PICK y \in r, z \in r : d[y] * n(r) <= sum(r) /\ sum(r) <= d[z] * n(r)
      BY <2>12
    <3>2. y \in u /\ z \in u
      BY <2>8
    <3> DEFINE a == d[x]
               b == d[y]
               c == d[z]
               m == n(r)
               s == sum(r)
    <3>3. a \in Int /\ b \in Int /\ c \in Int /\ m \in Nat /\ s \in Int /\ b * m <= s /\ s <= c * m
      BY <2>5, <2>6, <2>7, <3>1, <3>2
    <3>4. sum(u) = a + s /\ n(u) = m + 1
      BY <2>5, <2>7
    <3> HIDE DEF a, b, c, m, s
    <3>5. a * (m + 1) = a * m + a /\ b * (m + 1) = b * m + b /\ c * (m + 1) = c * m + c
      BY <3>3
    <3>6. a * m \in Int /\ b * m \in Int /\ c * m \in Int
      BY <3>3
    <3>7. /\ a <= b => a * m <= b * m
          /\ a >= c => a * m >= c * m
      BY <3>3
    <3>8. a * (m + 1) <= a + s \/ b * (m + 1) <= a + s
      BY <3>3, <3>5, <3>6, <3>7
    <3>9. a + s <= a * (m + 1) \/ a + s <= c * (m + 1)
      BY <3>3, <3>5, <3>6, <3>7
    <3>10. \E v \in u : d[v] * n(u) <= sum(u)
      BY <3>2, <3>4, <3>8 DEF a, b
    <3>11. \E v \in u : sum(u) <= d[v] * n(u)
      BY <3>2, <3>4, <3>9 DEF a, c
    <3>12. QED
      BY <2>3, <3>10, <3>11
  <2>13. QED
    BY <2>10, <2>11, <2>12
<1>2. S \notin bad
  BY <1>1
<1> HIDE DEF sum, n
<1>3. Fine(S)
  BY <1>2
<1>4. QED
  BY <1>3 DEF sum, n

(* The growth from one to the next adds up to the growth from the first to *)
(* the last.                                                               *)
LEMMA SumGrowth ==
    ASSUME NEW c, NEW d, NEW n \in Nat \ {0}, \A k \in 1..n : c[k] \in Int,
           \A k \in 2..n : d[k] = c[k] - c[k - 1]
    PROVE  SumFunctionOnSet(d, 2..n) = c[n] - c[1]
<1> DEFINE sum(m) == SumFunctionOnSet(d, 2..m)
           bad == {m \in Nat : m \in 1..n /\ sum(m) # c[m] - c[1]}
<1>1. bad = {}
  <2> SUFFICES ASSUME bad # {} PROVE FALSE
    OBVIOUS
  <2>1. PICK m \in bad : \A l \in bad : m <= l
    <3>1. bad \subseteq Nat /\ bad # {}
      OBVIOUS
    <3> HIDE DEF bad
    <3>2. QED
      BY <3>1, LeastExists
  <2>2. m \in Nat /\ m \in 1..n /\ sum(m) # c[m] - c[1]
    OBVIOUS
  <2>3. m # 1
    <3>1. 2..1 = {}
      OBVIOUS
    <3>2. sum(1) = 0
      BY <3>1, SumEmpty
    <3>3. c[1] - c[1] = 0
      BY <2>2
    <3>4. QED
      BY <2>2, <3>2, <3>3
  <2>4. m - 1 \in Nat /\ m - 1 \in 1..n /\ m - 1 \notin bad
    BY <2>1, <2>2, <2>3
  <2>5. sum(m - 1) = c[m - 1] - c[1]
    BY <2>4
  <2> DEFINE M == 2..m
  <2>6. IsFiniteSet(M) /\ m \in M /\ M \ {m} = 2..(m - 1)
    <3> HIDE DEF bad
    <3>1. IsFiniteSet(M)
      BY <2>2, FS_Interval
    <3>2. \A k \in Nat : k <= m => k = m \/ k <= m - 1
      BY <2>2
    <3>3. m \in M /\ M \ {m} = 2..(m - 1)
      BY <2>2, <2>3, <3>2
    <3>4. QED
      BY <3>1, <3>3
  <2>7. \A k \in M : d[k] \in Int
    <3> SUFFICES ASSUME NEW k \in M PROVE d[k] \in Int
      OBVIOUS
    <3> HIDE DEF bad
    <3>1. k \in 2..n /\ k \in 1..n /\ k - 1 \in 1..n
      BY <2>2
    <3>2. QED
      BY <3>1
  <2>8. sum(m) = d[m] + sum(m - 1)
    <3> HIDE DEF M, bad
    <3>0. IsFiniteSet(M) /\ m \in M
      BY <2>6
    <3>1. SumFunctionOnSet(d, M) = d[m] + SumFunctionOnSet(d, M \ {m})
      BY <3>0, <2>7, SumRemove
    <3>2. QED
      BY <2>6, <3>1 DEF M
  <2>9. d[m] = c[m] - c[m - 1] /\ c[m] \in Int /\ c[m - 1] \in Int /\ c[1] \in Int
    BY <2>2, <2>3
  <2> HIDE DEF sum
  <2>10. QED
    BY <2>2, <2>5, <2>8, <2>9
<1>2. QED
  BY <1>1

-----------------------------------------------------------------------------
(* Entries, filtered and sorted. *)

(* u has the entries of es at the places S, each once: u[k] is es[f[k]].   *)
Takes(u, es, S, f) ==
    /\ IsFiniteSet(S) /\ DOMAIN u = 1..Cardinality(S)
    /\ f \in [DOMAIN u -> S]
    /\ \A i, j \in DOMAIN u : f[i] = f[j] => i = j
    /\ \A n \in S : \E k \in DOMAIN u : f[k] = n
    /\ \A k \in DOMAIN u : u[k] = es[f[k]]

(* The numbers of a finite set come each once, the smaller ones first.     *)
LEMMA AscendingIs ==
    ASSUME NEW S, S \subseteq Int, IsFiniteSet(S)
    PROVE  /\ Cardinality(S) \in Nat
           /\ Ascending(S) \in [1..Cardinality(S) -> S]
           /\ \A i, j \in 1..Cardinality(S) : Ascending(S)[i] = Ascending(S)[j] => i = j
           /\ \A x \in S : \E k \in 1..Cardinality(S) : Ascending(S)[k] = x
           /\ \A i, j \in 1..Cardinality(S) : i < j <=> Ascending(S)[i] < Ascending(S)[j]
<1> DEFINE R == {p \in S \X S : p[1] < p[2]}
<1>1. \A x, y \in S : <<x, y>> \in R <=> x < y
  OBVIOUS
<1> HIDE DEF R
<1>2. Orders(R, S)
  BY <1>1 DEF Orders
<1>3. Ascending(S) = InOrder(S, R)
  BY DEF Ascending, R
<1>4. /\ Cardinality(S) \in Nat
      /\ Ascending(S) \in [1..Cardinality(S) -> S]
      /\ \A i, j \in 1..Cardinality(S) : Ascending(S)[i] = Ascending(S)[j] => i = j
      /\ \A x \in S : \E k \in 1..Cardinality(S) : Ascending(S)[k] = x
      /\ \A i, j \in 1..Cardinality(S) :
            i < j <=> <<Ascending(S)[i], Ascending(S)[j]>> \in R
  BY <1>2, <1>3, InOrderIs
<1>5. QED
  BY <1>1, <1>4

(* A filter takes the entries at its places, in their order.               *)
LEMMA KeptIs ==
    ASSUME NEW E, NEW es \in Seq(E), NEW S, S \subseteq DOMAIN es
    PROVE  /\ Kept(es, S) \in Seq(E) /\ Len(Kept(es, S)) = Cardinality(S)
           /\ Takes(Kept(es, S), es, S, Ascending(S))
           /\ \A i, j \in DOMAIN Kept(es, S) : i < j <=> Ascending(S)[i] < Ascending(S)[j]
<1> DEFINE N == Cardinality(S)
           at == Ascending(S)
           u == Kept(es, S)
<1>1. S \in SUBSET (1..Len(es)) /\ S \subseteq Int
  OBVIOUS
<1>2. IsFiniteSet(S)
  <2>1. IsFiniteSet(1..Len(es))
    BY FS_Interval
  <2>2. QED
    BY <1>1, <2>1, FS_Subset, Zenon
<1>3. /\ N \in Nat /\ at \in [1..N -> S]
      /\ \A i, j \in 1..N : at[i] = at[j] => i = j
      /\ \A x \in S : \E k \in 1..N : at[k] = x
      /\ \A i, j \in 1..N : i < j <=> at[i] < at[j]
  BY <1>1, <1>2, AscendingIs
<1>4. u = [k \in 1..N |-> es[at[k]]]
  <2>1. u = [k \in DOMAIN at |-> es[at[k]]]
    BY DEF Kept
  <2> HIDE DEF at, u
  <2>2. QED
    BY <1>3, <2>1
<1> HIDE DEF N, at, u
<1>5. u \in [1..N -> E] /\ DOMAIN u = 1..N
  BY <1>1, <1>3, <1>4
<1>6. u \in Seq(E) /\ Len(u) = N
  BY <1>3, <1>5, SeqDef, LenProperties
<1>7. Takes(u, es, S, at)
  BY <1>2, <1>3, <1>4, <1>5 DEF Takes, N
<1>8. QED
  BY <1>3, <1>5, <1>6, <1>7 DEF N, at, u

(* The order that sort uses is strict and total: entries of the same time  *)
(* keep their places.                                                      *)
LEMMA SoonerOrders ==
    ASSUME NEW E, NEW es \in Seq(E), \A e \in E : e.t \in Int
    PROVE  /\ \A i, j \in DOMAIN es :
                 <<i, j>> \in Sooner(es) <=>
                    es[i].t < es[j].t \/ (es[i].t = es[j].t /\ i < j)
           /\ Orders(Sooner(es), DOMAIN es)
           /\ IsFiniteSet(DOMAIN es) /\ Cardinality(DOMAIN es) = Len(es)
<1>1. \A i, j \in DOMAIN es :
         <<i, j>> \in Sooner(es) <=> es[i].t < es[j].t \/ (es[i].t = es[j].t /\ i < j)
  BY DEF Sooner
<1>2. DOMAIN es = 1..Len(es) /\ Len(es) \in Nat /\ \A n \in DOMAIN es : es[n].t \in Int
  OBVIOUS
<1>3. Orders(Sooner(es), DOMAIN es)
  BY <1>1, <1>2 DEF Orders
<1>4. IsFiniteSet(1..Len(es)) /\ Cardinality(1..Len(es)) = Len(es)
  <2> DEFINE N == Len(es)
  <2>1. N \in Nat
    BY <1>2
  <2> HIDE DEF N
  <2>2. IsFiniteSet(1..N) /\ Cardinality(1..N) = N
    BY <2>1, FS_Interval
  <2>3. QED
    BY <2>2 DEF N
<1>5. QED
  BY <1>1, <1>2, <1>3, <1>4

(* What was sorted, and how.                                               *)
ByTimeAt(es) == InOrder(DOMAIN es, Sooner(es))

(* Sorting takes every entry once; their times do not fall.                *)
LEMMA ByTimeIs ==
    ASSUME NEW E, NEW es \in Seq(E), \A e \in E : e.t \in Int
    PROVE  /\ ByTime(es) \in Seq(E) /\ Len(ByTime(es)) = Len(es)
           /\ Takes(ByTime(es), es, DOMAIN es, ByTimeAt(es))
           /\ \A i, j \in DOMAIN ByTime(es) :
                 i < j => <<ByTimeAt(es)[i], ByTimeAt(es)[j]>> \in Sooner(es)
           /\ Ordered(ByTime(es))
<1> DEFINE N == Len(es)
           D == DOMAIN es
           at == ByTimeAt(es)
           u == ByTime(es)
<1>1. N \in Nat /\ D = 1..N /\ \A n \in D : es[n] \in E /\ es[n].t \in Int
  OBVIOUS
<1>2. Orders(Sooner(es), D) /\ IsFiniteSet(D) /\ Cardinality(D) = N
  BY SoonerOrders
<1>3. u = [k \in D |-> es[at[k]]]
  BY DEF ByTime, ByTimeAt
<1> HIDE DEF N, D, u
<1>4. /\ at \in [1..N -> D]
      /\ \A i, j \in 1..N : at[i] = at[j] => i = j
      /\ \A x \in D : \E k \in 1..N : at[k] = x
      /\ \A i, j \in 1..N : i < j <=> <<at[i], at[j]>> \in Sooner(es)
  <2>1. at = InOrder(D, Sooner(es))
    BY DEF ByTimeAt, D
  <2> HIDE DEF at
  <2>2. QED
    BY <1>2, <2>1, InOrderIs
<1> HIDE DEF at
<1>5. DOMAIN u = 1..N /\ u \in [1..N -> E]
  BY <1>1, <1>3, <1>4
<1>6. u \in Seq(E) /\ Len(u) = N
  BY <1>1, <1>5, SeqDef, LenProperties
<1>7. Takes(u, es, D, at)
  BY <1>1, <1>2, <1>3, <1>4, <1>5 DEF Takes
<1>8. Ordered(u)
  <2> SUFFICES ASSUME NEW i \in 1..N, NEW j \in 1..N, i < j PROVE u[i].t <= u[j].t
    BY <1>5 DEF Ordered
  <2>1. <<at[i], at[j]>> \in Sooner(es) /\ at[i] \in D /\ at[j] \in D
    BY <1>4
  <2>2. es[at[i]].t < es[at[j]].t \/ es[at[i]].t = es[at[j]].t
    BY <2>1, SoonerOrders DEF D
  <2>3. QED
    BY <1>1, <1>3, <2>1, <2>2
<1>9. QED
  BY <1>4, <1>5, <1>6, <1>7, <1>8 DEF N, D, at, u

(* There is one way to sort entries so that the equal ones stay.           *)
LEMMA ByTimeOnly ==
    ASSUME NEW E, NEW es \in Seq(E), \A e \in E : e.t \in Int,
           NEW N \in Nat, NEW f \in [1..N -> DOMAIN es],
           \A n \in DOMAIN es : \E k \in 1..N : f[k] = n,
           \A i, j \in 1..N : i < j => <<f[i], f[j]>> \in Sooner(es)
    PROVE  N = Len(es) /\ \A k \in 1..N : ByTime(es)[k] = es[f[k]]
<1>1. Orders(Sooner(es), DOMAIN es) /\ IsFiniteSet(DOMAIN es) /\ Cardinality(DOMAIN es) = Len(es)
  BY SoonerOrders
<1>2. Cardinality(DOMAIN es) = N /\ f = InOrder(DOMAIN es, Sooner(es))
  <2> DEFINE D == DOMAIN es
             R == Sooner(es)
  <2>1. /\ Orders(R, D) /\ IsFiniteSet(D) /\ f \in [1..N -> D]
        /\ \A n \in D : \E k \in 1..N : f[k] = n
        /\ \A i, j \in 1..N : i < j => <<f[i], f[j]>> \in R
    BY <1>1
  <2> HIDE DEF D, R
  <2>2. Cardinality(D) = N /\ f = InOrder(D, R)
    BY <2>1, InOrderOnly
  <2>3. QED
    BY <2>2 DEF D, R
<1>3. QED
  BY <1>1, <1>2 DEF ByTime

(* Sorting what is sorted changes nothing.                                 *)
LEMMA SortedStays ==
    ASSUME NEW E, \A e \in E : e.t \in Int, NEW u \in Seq(E), Ordered(u)
    PROVE  ByTime(u) = u
<1> DEFINE N == Len(u)
           f == [k \in 1..N |-> k]
<1>1. u \in Seq(E) /\ Ordered(u)
  OBVIOUS
<1>2. N \in Nat /\ DOMAIN u = 1..N /\ \A n \in 1..N : u[n].t \in Int
  BY <1>1
<1>3. \A i, j \in 1..N : i < j => <<f[i], f[j]>> \in Sooner(u)
  <2> SUFFICES ASSUME NEW i \in 1..N, NEW j \in 1..N, i < j PROVE <<f[i], f[j]>> \in Sooner(u)
    OBVIOUS
  <2>1. u[i].t <= u[j].t
    BY <1>1, <1>2 DEF Ordered
  <2>2. <<i, j>> \in Sooner(u)
    <3>1. \A k, l \in DOMAIN u :
            <<k, l>> \in Sooner(u) <=> u[k].t < u[l].t \/ (u[k].t = u[l].t /\ k < l)
      BY <1>1, SoonerOrders, Zenon
    <3>2. QED
      BY <1>2, <2>1, <3>1
  <2>3. QED
    BY <2>2
<1>4. f \in [1..N -> DOMAIN u] /\ \A n \in DOMAIN u : \E k \in 1..N : f[k] = n
  BY <1>2
<1> HIDE DEF f, N
<1>5. \A k \in 1..N : ByTime(u)[k] = u[f[k]]
  <2>1. u \in Seq(E) /\ N \in Nat
    BY <1>1, <1>2
  <2>2. QED
    BY <2>1, <1>3, <1>4, ByTimeOnly
<1>6. ByTime(u) = u
  <2>1. ByTime(u) \in Seq(E) /\ Len(ByTime(u)) = Len(u)
    BY <1>1, ByTimeIs
  <2>2. \A k \in 1..N : ByTime(u)[k] = u[k]
    BY <1>5 DEF f
  <2>3. QED
    BY <1>1, <2>1, <2>2, SeqEqual DEF N
<1>7. QED
  BY <1>6

(* Sorting twice is sorting once.                                          *)
LEMMA ByTimeTwice ==
    ASSUME NEW E, NEW es \in Seq(E), \A e \in E : e.t \in Int
    PROVE  ByTime(ByTime(es)) = ByTime(es)
<1>1. ByTime(es) \in Seq(E) /\ Ordered(ByTime(es))
  BY ByTimeIs
<1>2. QED
  BY <1>1, SortedStays

(* How often the values g of the places S are v.                           *)
Count(g, S, v) == Cardinality({k \in S : g[k] = v})

(* As many of each value as there are entries with it.                     *)
LEMMA TakesCount ==
    ASSUME NEW u, NEW es, NEW S, NEW f, Takes(u, es, S, f), NEW g, NEW h,
           \A k \in DOMAIN u : g[k] = h[f[k]]
    PROVE  \A v : Count(g, DOMAIN u, v) = Count(h, S, v)
<1> SUFFICES ASSUME NEW v PROVE Count(g, DOMAIN u, v) = Count(h, S, v)
  OBVIOUS
<1> DEFINE A == {k \in DOMAIN u : g[k] = v}
           B == {n \in S : h[n] = v}
           b == [k \in A |-> f[k]]
<1>1. b \in [A -> B] /\ (\A i, j \in A : b[i] = b[j] => i = j) /\ \A n \in B : \E k \in A : b[k] = n
  BY DEF Takes
<1>2. IsFiniteSet(B)
  <2>1. B \in SUBSET S /\ IsFiniteSet(S)
    BY DEF Takes
  <2>2. QED
    BY <2>1, FS_Subset, Zenon
<1> HIDE DEF A, B, b
<1>3. b \in Bijection(A, B)
  BY <1>1 DEF Bijection, Injection, IsInjective, Surjection
<1>4. b \in Injection(A, B) /\ b \in Surjection(A, B)
  BY <1>3 DEF Bijection
<1>5. Cardinality(A) = Cardinality(B)
  BY <1>2, <1>4, FS_Injection
<1>6. QED
  BY <1>5 DEF A, B, Count

(* Sorting what was filtered is the same as filtering what was sorted.      *)
LEMMA KeptByTime ==
    ASSUME NEW E, NEW es \in Seq(E), \A e \in E : e.t \in Int,
           NEW M, M \subseteq DOMAIN es, NEW K,
           K = {k \in DOMAIN ByTime(es) : ByTimeAt(es)[k] \in M}
    PROVE  ByTime(Kept(es, M)) = Kept(ByTime(es), K)
<1> DEFINE u == ByTime(es)
           m == Kept(es, M)
           w == Kept(u, K)
           a == Ascending(M)
           b == Ascending(K)
           f == ByTimeAt(es)
           h == [k \in DOMAIN w |-> CHOOSE j \in DOMAIN m : a[j] = f[b[k]]]
<1>1. /\ m \in Seq(E) /\ Takes(m, es, M, a)
      /\ \A i, j \in DOMAIN m : i < j <=> a[i] < a[j]
  BY KeptIs
<1>2. /\ u \in Seq(E) /\ Takes(u, es, DOMAIN es, f)
      /\ \A i, j \in DOMAIN u : i < j => <<f[i], f[j]>> \in Sooner(es)
  BY ByTimeIs
<1>0. \A k : k \in K <=> k \in DOMAIN u /\ f[k] \in M
  OBVIOUS
<1> HIDE DEF u
<1>3. /\ w \in Seq(E) /\ Takes(w, u, K, b) /\ DOMAIN w = 1..Len(w) /\ Len(w) \in Nat
      /\ \A i, j \in DOMAIN w : i < j <=> b[i] < b[j]
  <2>1. K \subseteq DOMAIN u
    BY <1>0
  <2>2. w \in Seq(E) /\ Takes(w, u, K, b) /\ \A i, j \in DOMAIN w : i < j <=> b[i] < b[j]
    BY <1>2, <2>1, KeptIs
  <2>3. QED
    BY <2>2
<1> HIDE DEF m, w, a, b, f
<1>4. ASSUME NEW k \in DOMAIN w
      PROVE  /\ b[k] \in DOMAIN u /\ f[b[k]] \in M
             /\ h[k] \in DOMAIN m /\ a[h[k]] = f[b[k]]
             /\ w[k] = m[h[k]] /\ m[h[k]] = es[f[b[k]]]
  <2>1. b[k] \in K /\ w[k] = u[b[k]]
    BY <1>3 DEF Takes
  <2>2. b[k] \in DOMAIN u /\ f[b[k]] \in DOMAIN es /\ u[b[k]] = es[f[b[k]]]
    BY <1>0, <1>2, <2>1 DEF Takes
  <2>3. f[b[k]] \in M
    BY <1>0, <2>1
  <2>4. \E j \in DOMAIN m : a[j] = f[b[k]]
    BY <1>1, <2>3 DEF Takes
  <2>5. h[k] \in DOMAIN m /\ a[h[k]] = f[b[k]]
    BY <2>4
  <2>6. m[h[k]] = es[a[h[k]]]
    BY <1>1, <2>5 DEF Takes
  <2>7. QED
    BY <2>1, <2>2, <2>3, <2>5, <2>6
<1>5. \A j \in DOMAIN m : \E k \in DOMAIN w : h[k] = j
  <2> SUFFICES ASSUME NEW j \in DOMAIN m PROVE \E k \in DOMAIN w : h[k] = j
    OBVIOUS
  <2>1. a[j] \in M
    BY <1>1 DEF Takes
  <2>2. PICK l \in DOMAIN u : f[l] = a[j]
    BY <1>2, <2>1 DEF Takes
  <2>3. l \in K
    BY <1>0, <2>1, <2>2
  <2>4. PICK k \in DOMAIN w : b[k] = l
    BY <1>3, <2>3 DEF Takes
  <2>5. h[k] \in DOMAIN m /\ a[h[k]] = a[j]
    BY <1>4, <2>2, <2>4
  <2> HIDE DEF h
  <2>6. h[k] = j
    BY <1>1, <2>5 DEF Takes
  <2>7. QED
    BY <2>6
<1> HIDE DEF h
<1>6. \A i, j \in DOMAIN w : i < j => <<h[i], h[j]>> \in Sooner(m)
  <2> SUFFICES ASSUME NEW i \in DOMAIN w, NEW j \in DOMAIN w, i < j
               PROVE  <<h[i], h[j]>> \in Sooner(m)
    OBVIOUS
  <2>1. b[i] < b[j] /\ b[i] \in DOMAIN u /\ b[j] \in DOMAIN u
    BY <1>3, <1>4
  <2>2. <<f[b[i]], f[b[j]]>> \in Sooner(es)
    BY <1>2, <2>1
  <2>3. f[b[i]] \in DOMAIN es /\ f[b[j]] \in DOMAIN es
    BY <1>4
  <2>4. \/ es[f[b[i]]].t < es[f[b[j]]].t
        \/ es[f[b[i]]].t = es[f[b[j]]].t /\ f[b[i]] < f[b[j]]
    BY <2>2, <2>3, SoonerOrders
  <2>5. /\ h[i] \in DOMAIN m /\ a[h[i]] = f[b[i]] /\ m[h[i]] = es[f[b[i]]]
        /\ h[j] \in DOMAIN m /\ a[h[j]] = f[b[j]] /\ m[h[j]] = es[f[b[j]]]
    BY <1>4
  <2>6. m[h[i]].t < m[h[j]].t \/ (m[h[i]].t = m[h[j]].t /\ h[i] < h[j])
    BY <1>1, <2>4, <2>5
  <2>7. QED
    BY <1>1, <2>5, <2>6, SoonerOrders
<1>7. Len(w) = Len(m) /\ \A k \in 1..Len(w) : ByTime(m)[k] = m[h[k]]
  <2> DEFINE N == Len(w)
  <2>0. N \in Nat /\ DOMAIN w = 1..N /\ m \in Seq(E)
    BY <1>1, <1>3
  <2>1. /\ N \in Nat /\ h \in [1..N -> DOMAIN m]
        /\ \A n \in DOMAIN m : \E k \in 1..N : h[k] = n
        /\ \A i, j \in 1..N : i < j => <<h[i], h[j]>> \in Sooner(m)
    BY <2>0, <1>4, <1>5, <1>6 DEF h
  <2> HIDE DEF N
  <2>2. N = Len(m) /\ \A k \in 1..N : ByTime(m)[k] = m[h[k]]
    BY <2>0, <2>1, ByTimeOnly
  <2>3. QED
    BY <2>2 DEF N
<1>8. ByTime(m) = w
  <2>1. ByTime(m) \in Seq(E) /\ Len(ByTime(m)) = Len(w)
    BY <1>1, <1>7, ByTimeIs
  <2>2. \A k \in 1..Len(w) : ByTime(m)[k] = w[k]
    BY <1>3, <1>4, <1>7
  <2>3. QED
    BY <1>3, <2>1, <2>2, SeqEqual
<1>9. QED
  BY <1>8 DEF m, w, u

(* It is all the same whether entries without metrics are filtered out     *)
(* before the sort or after it.                                            *)
LEMMA MeteredByTime ==
    ASSUME NEW E, NEW es \in Seq(E), \A e \in E : e.t \in Int
    PROVE  ByTime(Metered(es)) = Metered(ByTime(es))
<1> DEFINE u == ByTime(es)
           M == {n \in DOMAIN es : es[n].docker # NoMetrics}
           K == {k \in DOMAIN u : u[k].docker # NoMetrics}
<1>1. Takes(u, es, DOMAIN es, ByTimeAt(es))
  BY ByTimeIs
<1>2. M \subseteq DOMAIN es /\ K = {k \in DOMAIN u : ByTimeAt(es)[k] \in M}
  BY <1>1 DEF Takes
<1>3. Metered(es) = Kept(es, M) /\ Metered(u) = Kept(u, K)
  BY DEF Metered
<1> HIDE DEF M, K
<1>4. ByTime(Kept(es, M)) = Kept(u, K)
  BY <1>2, KeptByTime
<1>5. QED
  BY <1>3, <1>4

(* So it is for entries without a block.                                   *)
LEMMA SyncedByTime ==
    ASSUME NEW E, NEW es \in Seq(E), \A e \in E : e.t \in Int
    PROVE  ByTime(Synced(es)) = Synced(ByTime(es))
<1> DEFINE u == ByTime(es)
           M == {n \in DOMAIN es : es[n].b > 0}
           K == {k \in DOMAIN u : u[k].b > 0}
<1>1. Takes(u, es, DOMAIN es, ByTimeAt(es))
  BY ByTimeIs
<1>2. M \subseteq DOMAIN es /\ K = {k \in DOMAIN u : ByTimeAt(es)[k] \in M}
  BY <1>1 DEF Takes
<1>3. Synced(es) = Kept(es, M) /\ Synced(u) = Kept(u, K)
  BY DEF Synced
<1> HIDE DEF M, K
<1>4. ByTime(Kept(es, M)) = Kept(u, K)
  BY <1>2, KeptByTime
<1>5. QED
  BY <1>3, <1>4

(* The charts are the same if the entries were sorted before.              *)
LEMMA ChartsOfSorted ==
    ASSUME NEW E, NEW es \in Seq(E), \A e \in E : e.t \in Int
    PROVE  ProgressCharts(ByTime(es)) = ProgressCharts(es)
<1> DEFINE u == ByTime(es)
<1>1. u \in Seq(E) /\ Len(u) = Len(es) /\ ByTime(u) = u
  BY ByTimeIs, ByTimeTwice
<1>2. Metered(es) \in Seq(E)
  <2>1. {n \in DOMAIN es : es[n].docker # NoMetrics} \subseteq DOMAIN es
    OBVIOUS
  <2>2. QED
    BY <2>1, KeptIs DEF Metered
<1>3. ByTime(Metered(es)) = Metered(u)
  BY MeteredByTime
<1>4. /\ ByTime(Metered(u)) = ByTime(Metered(es))
      /\ Metered(u) \in Seq(E) /\ Len(Metered(u)) = Len(Metered(es))
  BY <1>2, <1>3, ByTimeTwice, ByTimeIs
<1>5. (u = <<>>) = (es = <<>>) /\ (Metered(u) = <<>>) = (Metered(es) = <<>>)
  BY <1>1, <1>2, <1>4, EmptySeq
<1> HIDE DEF u
<1>6. /\ BlockProgressChart(u) = BlockProgressChart(es)
      /\ SlotProgressChart(u) = SlotProgressChart(es)
      /\ DiskUsageChart(u) = DiskUsageChart(es)
      /\ PeerCountChart(u) = PeerCountChart(es)
  BY <1>1 DEF BlockProgressChart, SlotProgressChart, DiskUsageChart, PeerCountChart, u
<1>7. /\ CPUUsageChart(u) = CPUUsageChart(es)
      /\ MemoryUsageChart(u) = MemoryUsageChart(es)
      /\ BlockIOReadChart(u) = BlockIOReadChart(es)
      /\ BlockIOWriteChart(u) = BlockIOWriteChart(es)
  BY <1>4 DEF CPUUsageChart, MemoryUsageChart, BlockIOReadChart, BlockIOWriteChart, Rates
<1>8. QED
  BY <1>5, <1>6, <1>7 DEF ProgressCharts, u

-----------------------------------------------------------------------------
(* Numbers. *)

(* Rounding does not go beyond an integer that the quotient does not       *)
(* go beyond.                                                              *)
LEMMA RoundedIs ==
    ASSUME NEW n \in Int, NEW d \in Nat \ {0}
    PROVE  /\ Rounded(n, d) \in Int
           /\ \A k \in Int : k * d <= n => k <= Rounded(n, d)
           /\ \A k \in Int : n <= k * d => Rounded(n, d) <= k
<1> DEFINE a == 2 * n + d
           e == 2 * d
           q == Rounded(n, d)
<1>1. a \in Int /\ e \in Nat \ {0}
  OBVIOUS
<1>2. q = a \div e
  BY DEF Rounded
<1> HIDE DEF a, e, q
<1>3. a = e * q + (a % e) /\ a % e \in 0..(e - 1) /\ q \in Int
  BY <1>1, <1>2
<1>4. e * q \in Int /\ d * q \in Int /\ e * q = 2 * (d * q)
  BY <1>3 DEF e
<1>5. 2 * (d * q) <= 2 * n + d /\ 2 * n + d < 2 * (d * q) + 2 * d
  BY <1>1, <1>3, <1>4 DEF a, e
<1>6. ASSUME NEW k \in Int, k * d <= n PROVE k <= q
  <2> SUFFICES ASSUME q + 1 <= k PROVE FALSE
    BY <1>3
  <2>1. d * (q + 1) <= d * k
    BY <1>3
  <2>2. d * (q + 1) = d * q + d /\ d * k = k * d /\ k * d \in Int
    BY <1>3
  <2>3. QED
    BY <1>4, <1>5, <1>6, <2>1, <2>2
<1>7. ASSUME NEW k \in Int, n <= k * d PROVE q <= k
  <2> SUFFICES ASSUME k + 1 <= q PROVE FALSE
    BY <1>3
  <2>1. d * (k + 1) <= d * q
    BY <1>3
  <2>2. d * (k + 1) = k * d + d /\ k * d \in Int
    OBVIOUS
  <2>3. QED
    BY <1>4, <1>5, <1>7, <2>1, <2>2
<1>8. QED
  BY <1>3, <1>6, <1>7 DEF q

(* The right axis has 0 % at the first point, 0 % or 100 % at the last.    *)
LEMMA TicksAre ==
    ASSUME NEW first \in Int, NEW last \in Int
    PROVE  /\ PercentageTick(first, last, first) = 0
           /\ PercentageTick(first, last, last) \in {0, 100}
<1>1. \A d \in Nat \ {0} : Rounded(100 * d, d) = 100 /\ Rounded(100 * 0, d) = 0
  <2> SUFFICES ASSUME NEW d \in Nat \ {0}
               PROVE  Rounded(100 * d, d) = 100 /\ Rounded(100 * 0, d) = 0
    OBVIOUS
  <2>1. /\ Rounded(100 * d, d) \in Int /\ 100 <= Rounded(100 * d, d)
        /\ Rounded(100 * d, d) <= 100
    BY RoundedIs
  <2>2. /\ Rounded(0, d) \in Int /\ 0 <= Rounded(0, d) /\ Rounded(0, d) <= 0
    BY RoundedIs
  <2>3. QED
    BY <2>1, <2>2
<1>2. CASE last = first
  BY <1>2 DEF PercentageTick
<1>3. CASE last > first
  <2>1. /\ PercentageTick(first, last, first) = Rounded(100 * 0, last - first)
        /\ PercentageTick(first, last, last) = Rounded(100 * (last - first), last - first)
    BY <1>3 DEF PercentageTick
  <2>2. last - first \in Nat \ {0}
    BY <1>3
  <2>3. QED
    BY <1>1, <2>1, <2>2
<1>4. CASE last < first
  <2>1. /\ PercentageTick(first, last, first) = Rounded(100 * 0, first - last)
        /\ PercentageTick(first, last, last) = Rounded(100 * (first - last), first - last)
    BY <1>4 DEF PercentageTick
  <2>2. first - last \in Nat \ {0}
    BY <1>4
  <2>3. QED
    BY <1>1, <2>1, <2>2
<1>5. QED
  BY <1>2, <1>3, <1>4

(* Progress is a percentage, whatever the block and its target.            *)
LEMMA ProgressIs ==
    ASSUME NEW current \in Int, NEW target \in Int
    PROVE  CalculateProgress(current, target) \in 0..100
<1>1. CASE target <= 0 \/ current < 0
  BY <1>1 DEF CalculateProgress
<1>2. CASE target > 0 /\ current >= target
  BY <1>2 DEF CalculateProgress
<1>3. CASE target > 0 /\ current >= 0 /\ current < target
  <2>1. CalculateProgress(current, target) = Rounded(100 * current, target)
    BY <1>3 DEF CalculateProgress
  <2>2. target \in Nat \ {0} /\ 100 * current \in Int
    BY <1>3
  <2>3. 0 * target <= 100 * current /\ 100 * current <= 100 * target
    BY <1>3
  <2> DEFINE n == 100 * current
  <2>4. n \in Int /\ 0 * target <= n /\ n <= 100 * target
    BY <2>2, <2>3
  <2> HIDE DEF n
  <2>5. Rounded(n, target) \in Int /\ 0 <= Rounded(n, target) /\ Rounded(n, target) <= 100
    BY <2>2, <2>4, RoundedIs
  <2>6. QED
    BY <2>1, <2>5 DEF n
<1>4. QED
  BY <1>1, <1>2, <1>3

-----------------------------------------------------------------------------
(* The charts. *)

(* The entries of a test, sorted.                                          *)
LEMMA EntriesSorted ==
    ASSUME NEW es \in Seq(ProgressEntry)
    PROVE  /\ \A e \in ProgressEntry : e.t \in Int
           /\ ByTime(es) \in Seq(ProgressEntry) /\ Len(ByTime(es)) = Len(es)
           /\ Takes(ByTime(es), es, DOMAIN es, ByTimeAt(es))
           /\ Ordered(ByTime(es))
<1>1. \A e \in ProgressEntry : e.t \in Int
  BY DEF ProgressEntry
<1>2. QED
  BY <1>1, ByTimeIs

(* Sorted, there are as many entries of each value as before.              *)
LEMMA EntriesCount ==
    ASSUME NEW es \in Seq(ProgressEntry), NEW G, NEW H,
           \A n \in DOMAIN ByTime(es) : G[n] = H[ByTimeAt(es)[n]]
    PROVE  \A v : Count(G, DOMAIN ByTime(es), v) = Count(H, DOMAIN es, v)
<1>1. Takes(ByTime(es), es, DOMAIN es, ByTimeAt(es))
  BY EntriesSorted
<1>2. QED
  BY <1>1, TakesCount

(* The entries with metrics, in their order.                               *)
LEMMA MeteredEntries ==
    ASSUME NEW es \in Seq(ProgressEntry)
    PROVE  /\ Metered(es) \in Seq(ProgressEntry)
           /\ \A n \in DOMAIN Metered(es) : Metered(es)[n].docker \in DockerMetrics
           /\ LET M == {n \in DOMAIN es : es[n].docker # NoMetrics}
              IN  /\ Takes(Metered(es), es, M, Ascending(M))
                  /\ \A i, j \in DOMAIN Metered(es) : i < j <=> Ascending(M)[i] < Ascending(M)[j]
<1> DEFINE M == {n \in DOMAIN es : es[n].docker # NoMetrics}
           m == Metered(es)
           a == Ascending(M)
<1>1. M \subseteq DOMAIN es /\ m = Kept(es, M)
  BY DEF Metered
<1>2. m \in Seq(ProgressEntry) /\ Takes(m, es, M, a) /\ \A i, j \in DOMAIN m : i < j <=> a[i] < a[j]
  <2> HIDE DEF M, m, a
  <2>1. QED
    BY <1>1, KeptIs DEF a
<1> HIDE DEF m, a
<1>3. \A n \in DOMAIN m : m[n].docker \in DockerMetrics
  <2> SUFFICES ASSUME NEW n \in DOMAIN m PROVE m[n].docker \in DockerMetrics
    OBVIOUS
  <2>1. a[n] \in M /\ m[n] = es[a[n]]
    BY <1>2 DEF Takes
  <2>2. m[n].docker # NoMetrics
    BY <2>1
  <2>3. m[n] \in ProgressEntry
    BY <1>2
  <2>4. QED
    BY <2>2, <2>3 DEF ProgressEntry
<1>4. QED
  BY <1>2, <1>3 DEF m, a

(* The chart of the blocks has a point for each entry.                     *)
LEMMA BlocksAre ==
    ASSUME NEW es \in Seq(ProgressEntry)
    PROVE  PointForEach(BlockProgressChart(es), es, LAMBDA p : p.blocks, LAMBDA e : e.b)
<1> DEFINE u == ByTime(es)
           line == BlockProgressChart(es)
           G == [n \in DOMAIN u |-> <<u[n].t, u[n].b>>]
           H == [n \in DOMAIN es |-> <<es[n].t, es[n].b>>]
<1>1. /\ Takes(u, es, DOMAIN es, ByTimeAt(es))
      /\ DOMAIN u = 1..Len(es) /\ Len(es) \in Nat
  BY EntriesSorted
<1>2. line = [n \in DOMAIN u |-> [t |-> u[n].t, blocks |-> u[n].b]]
  BY DEF BlockProgressChart
<1>3. \A n \in DOMAIN u : G[n] = H[ByTimeAt(es)[n]]
  BY <1>1 DEF Takes
<1>4. \A v : Count(G, DOMAIN u, v) = Count(H, DOMAIN es, v)
  <2> HIDE DEF G, H
  <2>1. QED
    BY <1>3, EntriesCount
<1>5. Len(line) = Len(es)
  BY <1>1, <1>2
<1> HIDE DEF line, u
<1>6. ASSUME NEW v
      PROVE  Cardinality({n \in DOMAIN line : <<line[n].t, line[n].blocks>> = v})
               = Cardinality({n \in DOMAIN es : <<es[n].t, es[n].b>> = v})
  <2>1. /\ {n \in DOMAIN line : <<line[n].t, line[n].blocks>> = v} = {n \in DOMAIN u : G[n] = v}
        /\ {n \in DOMAIN es : <<es[n].t, es[n].b>> = v} = {n \in DOMAIN es : H[n] = v}
    BY <1>2
  <2>2. QED
    BY <1>4, <2>1 DEF Count
<1>7. QED
  BY <1>5, <1>6 DEF PointForEach, line

(* The chart of the slots has a point for each entry.                      *)
LEMMA SlotsAre ==
    ASSUME NEW es \in Seq(ProgressEntry)
    PROVE  PointForEach(SlotProgressChart(es), es, LAMBDA p : p.slots, LAMBDA e : e.s)
<1> DEFINE u == ByTime(es)
           line == SlotProgressChart(es)
           G == [n \in DOMAIN u |-> <<u[n].t, u[n].s>>]
           H == [n \in DOMAIN es |-> <<es[n].t, es[n].s>>]
<1>1. /\ Takes(u, es, DOMAIN es, ByTimeAt(es))
      /\ DOMAIN u = 1..Len(es) /\ Len(es) \in Nat
  BY EntriesSorted
<1>2. line = [n \in DOMAIN u |-> [t |-> u[n].t, slots |-> u[n].s]]
  BY DEF SlotProgressChart
<1>3. \A n \in DOMAIN u : G[n] = H[ByTimeAt(es)[n]]
  BY <1>1 DEF Takes
<1>4. \A v : Count(G, DOMAIN u, v) = Count(H, DOMAIN es, v)
  <2> HIDE DEF G, H
  <2>1. QED
    BY <1>3, EntriesCount
<1>5. Len(line) = Len(es)
  BY <1>1, <1>2
<1> HIDE DEF line, u
<1>6. ASSUME NEW v
      PROVE  Cardinality({n \in DOMAIN line : <<line[n].t, line[n].slots>> = v})
               = Cardinality({n \in DOMAIN es : <<es[n].t, es[n].s>> = v})
  <2>1. /\ {n \in DOMAIN line : <<line[n].t, line[n].slots>> = v} = {n \in DOMAIN u : G[n] = v}
        /\ {n \in DOMAIN es : <<es[n].t, es[n].s>> = v} = {n \in DOMAIN es : H[n] = v}
    BY <1>2
  <2>2. QED
    BY <1>4, <2>1 DEF Count
<1>7. QED
  BY <1>5, <1>6 DEF PointForEach, line

(* The chart of the disks has a point for each entry.                      *)
LEMMA DiskIs ==
    ASSUME NEW es \in Seq(ProgressEntry)
    PROVE  PointForEach(DiskUsageChart(es), es, LAMBDA p : p.total, LAMBDA e : e.de + e.dc)
<1> DEFINE u == ByTime(es)
           line == DiskUsageChart(es)
           G == [n \in DOMAIN u |-> <<u[n].t, u[n].de + u[n].dc>>]
           H == [n \in DOMAIN es |-> <<es[n].t, es[n].de + es[n].dc>>]
<1>1. /\ Takes(u, es, DOMAIN es, ByTimeAt(es))
      /\ DOMAIN u = 1..Len(es) /\ Len(es) \in Nat
  BY EntriesSorted
<1>2. line = [n \in DOMAIN u |-> 
                 [t |-> u[n].t, execution |-> u[n].de, consensus |-> u[n].dc,
                  total |-> u[n].de + u[n].dc]]
  BY DEF DiskUsageChart
<1>3. \A n \in DOMAIN u : G[n] = H[ByTimeAt(es)[n]]
  BY <1>1 DEF Takes
<1>4. \A v : Count(G, DOMAIN u, v) = Count(H, DOMAIN es, v)
  <2> HIDE DEF G, H
  <2>1. QED
    BY <1>3, EntriesCount
<1>5. Len(line) = Len(es)
  BY <1>1, <1>2
<1> HIDE DEF line, u
<1>6. ASSUME NEW v
      PROVE  Cardinality({n \in DOMAIN line : <<line[n].t, line[n].total>> = v})
               = Cardinality({n \in DOMAIN es : <<es[n].t, es[n].de + es[n].dc>> = v})
  <2>1. /\ {n \in DOMAIN line : <<line[n].t, line[n].total>> = v} = {n \in DOMAIN u : G[n] = v}
        /\ {n \in DOMAIN es : <<es[n].t, es[n].de + es[n].dc>> = v} = {n \in DOMAIN es : H[n] = v}
    BY <1>2
  <2>2. QED
    BY <1>4, <2>1 DEF Count
<1>7. QED
  BY <1>5, <1>6 DEF PointForEach, line

(* The chart of the peers has a point for each entry.                      *)
LEMMA PeersAre ==
    ASSUME NEW es \in Seq(ProgressEntry)
    PROVE  PointForEach(PeerCountChart(es), es, LAMBDA p : p.consensus, LAMBDA e : e.pc)
<1> DEFINE u == ByTime(es)
           line == PeerCountChart(es)
           G == [n \in DOMAIN u |-> <<u[n].t, u[n].pc>>]
           H == [n \in DOMAIN es |-> <<es[n].t, es[n].pc>>]
<1>1. /\ Takes(u, es, DOMAIN es, ByTimeAt(es))
      /\ DOMAIN u = 1..Len(es) /\ Len(es) \in Nat
  BY EntriesSorted
<1>2. line = [n \in DOMAIN u |-> 
                 [t |-> u[n].t, execution |-> u[n].pe, consensus |-> u[n].pc]]
  BY DEF PeerCountChart
<1>3. \A n \in DOMAIN u : G[n] = H[ByTimeAt(es)[n]]
  BY <1>1 DEF Takes
<1>4. \A v : Count(G, DOMAIN u, v) = Count(H, DOMAIN es, v)
  <2> HIDE DEF G, H
  <2>1. QED
    BY <1>3, EntriesCount
<1>5. Len(line) = Len(es)
  BY <1>1, <1>2
<1> HIDE DEF line, u
<1>6. ASSUME NEW v
      PROVE  Cardinality({n \in DOMAIN line : <<line[n].t, line[n].consensus>> = v})
               = Cardinality({n \in DOMAIN es : <<es[n].t, es[n].pc>> = v})
  <2>1. /\ {n \in DOMAIN line : <<line[n].t, line[n].consensus>> = v} = {n \in DOMAIN u : G[n] = v}
        /\ {n \in DOMAIN es : <<es[n].t, es[n].pc>> = v} = {n \in DOMAIN es : H[n] = v}
    BY <1>2
  <2>2. QED
    BY <1>4, <2>1 DEF Count
<1>7. QED
  BY <1>5, <1>6 DEF PointForEach, line

(* The chart of the memory has a point for each entry with metrics.        *)
LEMMA MemoryIs ==
    ASSUME NEW es \in Seq(ProgressEntry)
    PROVE  PointForEach(MemoryUsageChart(es), Metered(es), LAMBDA p : p.execution, LAMBDA e : e.docker.me)
<1> DEFINE m == Metered(es)
           u == ByTime(m)
           line == MemoryUsageChart(es)
           G == [n \in DOMAIN u |-> <<u[n].t, u[n].docker.me>>]
           H == [n \in DOMAIN m |-> <<m[n].t, m[n].docker.me>>]
<1>0. m \in Seq(ProgressEntry)
  BY MeteredEntries
<1>1. /\ Takes(u, m, DOMAIN m, ByTimeAt(m))
      /\ DOMAIN u = 1..Len(m) /\ Len(m) \in Nat
  BY <1>0, EntriesSorted
<1>2. line = [n \in DOMAIN u |-> 
                 [t |-> u[n].t, execution |-> u[n].docker.me, consensus |-> u[n].docker.mc,
                  total |-> u[n].docker.me + u[n].docker.mc]]
  BY DEF MemoryUsageChart
<1>3. \A n \in DOMAIN u : G[n] = H[ByTimeAt(m)[n]]
  BY <1>1 DEF Takes
<1>4. \A v : Count(G, DOMAIN u, v) = Count(H, DOMAIN m, v)
  <2> HIDE DEF G, H, m
  <2>1. QED
    BY <1>0, <1>3, EntriesCount
<1>5. Len(line) = Len(m)
  BY <1>1, <1>2
<1> HIDE DEF line, u, m
<1>6. ASSUME NEW v
      PROVE  Cardinality({n \in DOMAIN line : <<line[n].t, line[n].execution>> = v})
               = Cardinality({n \in DOMAIN m : <<m[n].t, m[n].docker.me>> = v})
  <2>1. /\ {n \in DOMAIN line : <<line[n].t, line[n].execution>> = v} = {n \in DOMAIN u : G[n] = v}
        /\ {n \in DOMAIN m : <<m[n].t, m[n].docker.me>> = v} = {n \in DOMAIN m : H[n] = v}
    BY <1>2
  <2>2. QED
    BY <1>4, <2>1 DEF Count
<1>7. QED
  BY <1>5, <1>6 DEF PointForEach, line, m

-----------------------------------------------------------------------------
(* Rates. *)

(* The entries with metrics by time, and those of them a rate is drawn at. *)
MeteredInTime(es) == ByTime(Metered(es))
RateEntries(es) == {n \in 2..Len(MeteredInTime(es)) :
                 MeteredInTime(es)[n].t > MeteredInTime(es)[n - 1].t}
Bytes(es, n, counter) ==
    Positive(MeteredInTime(es)[n].docker[counter] - MeteredInTime(es)[n - 1].docker[counter])

Counters == {"bre", "brc", "bwe", "bwc"}

(* The entries with metrics, sorted.                                       *)
LEMMA MeteredInTimeIs ==
    ASSUME NEW es \in Seq(ProgressEntry)
    PROVE  /\ MeteredInTime(es) \in Seq(ProgressEntry)
           /\ Len(MeteredInTime(es)) = Len(Metered(es))
           /\ \A n \in DOMAIN MeteredInTime(es) :
                 /\ MeteredInTime(es)[n].t \in Int
                 /\ MeteredInTime(es)[n].docker \in DockerMetrics
                 /\ \A c \in Counters : MeteredInTime(es)[n].docker[c] \in Int
           /\ Ordered(MeteredInTime(es))
           /\ Takes(MeteredInTime(es), Metered(es), DOMAIN Metered(es), ByTimeAt(Metered(es)))
<1> DEFINE m == Metered(es)
           p == MeteredInTime(es)
           f == ByTimeAt(m)
<1>1. m \in Seq(ProgressEntry) /\ \A n \in DOMAIN m : m[n].docker \in DockerMetrics
  BY MeteredEntries
<1>2. p = ByTime(m)
  BY DEF MeteredInTime
<1> HIDE DEF m, p, f
<1>3. p \in Seq(ProgressEntry) /\ Len(p) = Len(m) /\ Ordered(p) /\ Takes(p, m, DOMAIN m, f)
  BY <1>1, <1>2, EntriesSorted DEF f
<1>4. ASSUME NEW n \in DOMAIN p
      PROVE  /\ p[n].t \in Int
             /\ p[n].docker \in DockerMetrics
             /\ \A c \in Counters : p[n].docker[c] \in Int
  <2>1. p[n] \in ProgressEntry
    BY <1>3
  <2>2. p[n].docker \in DockerMetrics
    BY <1>1, <1>3 DEF Takes
  <2>3. \A d \in DockerMetrics : \A c \in Counters : d[c] \in Int
    BY DEF DockerMetrics, Counters
  <2>4. QED
    BY <2>1, <2>2, <2>3 DEF ProgressEntry
<1>5. QED
  BY <1>3, <1>4 DEF m, p, f

(* A chart of a rate has a point for each entry with metrics that is later *)
(* than the one before, in their order.                                    *)
LEMMA RatesAre ==
    ASSUME NEW es \in Seq(ProgressEntry), NEW el \in Counters, NEW cl \in Counters
    PROVE  /\ Cardinality(RateEntries(es)) \in Nat /\ IsFiniteSet(RateEntries(es))
           /\ DOMAIN Rates(es, el, cl) = 1..Cardinality(RateEntries(es))
           /\ Rates(es, el, cl) \in Seq([t : Int, seconds : Nat \ {0}, execution : Nat, consensus : Nat])
           /\ Len(Rates(es, el, cl)) = Cardinality(RateEntries(es))
           /\ Ascending(RateEntries(es)) \in [1..Cardinality(RateEntries(es)) -> RateEntries(es)]
           /\ \A k \in DOMAIN Rates(es, el, cl) :
                 /\ Rates(es, el, cl)[k].execution = Bytes(es, Ascending(RateEntries(es))[k], el)
                 /\ Rates(es, el, cl)[k].consensus = Bytes(es, Ascending(RateEntries(es))[k], cl)
           /\ Ordered(Rates(es, el, cl))
<1> DEFINE p == MeteredInTime(es)
           D == RateEntries(es)
           at == Ascending(D)
           N == Cardinality(D)
           point(n) == [t |-> p[n].t, seconds |-> p[n].t - p[n - 1].t,
                        execution |-> Bytes(es, n, el), consensus |-> Bytes(es, n, cl)]
           r == Rates(es, el, cl)
           Point == [t : Int, seconds : Nat \ {0}, execution : Nat, consensus : Nat]
<1>1. /\ Len(p) \in Nat /\ DOMAIN p = 1..Len(p) /\ Ordered(p)
      /\ \A n \in DOMAIN p : p[n].t \in Int /\ \A c \in Counters : p[n].docker[c] \in Int
  BY MeteredInTimeIs
<1>2. r = [k \in DOMAIN at |-> point(at[k])]
  BY DEF Rates, MeteredInTime, RateEntries, Bytes
<1>3. ASSUME NEW n \in D
      PROVE  n \in DOMAIN p /\ n - 1 \in DOMAIN p /\ n \in Int /\ p[n].t > p[n - 1].t
  BY <1>1 DEF RateEntries
<1>4. IsFiniteSet(D) /\ D \subseteq Int
  <2>1. IsFiniteSet(2..Len(p)) /\ D \in SUBSET (2..Len(p))
    BY <1>1, FS_Interval DEF RateEntries
  <2>2. IsFiniteSet(D)
    BY <2>1, FS_Subset, Zenon
  <2>3. QED
    BY <1>3, <2>2
<1>5. \A n \in D : \A c \in Counters : Bytes(es, n, c) \in Nat
  <2> SUFFICES ASSUME NEW n \in D, NEW c \in Counters PROVE Bytes(es, n, c) \in Nat
    OBVIOUS
  <2>1. p[n].docker[c] \in Int /\ p[n - 1].docker[c] \in Int
    BY <1>1, <1>3
  <2>2. Bytes(es, n, c) = Positive(p[n].docker[c] - p[n - 1].docker[c])
    BY DEF Bytes
  <2>3. QED
    BY <2>1, <2>2 DEF Positive
<1>6. \A n \in D : point(n) \in Point
  <2> SUFFICES ASSUME NEW n \in D PROVE point(n) \in Point
    OBVIOUS
  <2>1. p[n].t \in Int /\ p[n].t - p[n - 1].t \in Nat \ {0}
    BY <1>1, <1>3
  <2>2. Bytes(es, n, el) \in Nat /\ Bytes(es, n, cl) \in Nat
    BY <1>5
  <2>3. QED
    BY <2>1, <2>2
<1> HIDE DEF p, D, at, N, r
<1>7. /\ N \in Nat /\ at \in [1..N -> D]
      /\ \A i, j \in 1..N : i < j <=> at[i] < at[j]
  BY <1>4, AscendingIs DEF N, at
<1>8. r = [k \in 1..N |-> point(at[k])]
  BY <1>2, <1>7
<1>9. \A k \in 1..N : r[k] = point(at[k]) /\ at[k] \in D
  BY <1>7, <1>8
<1>10. \A k \in 1..N : r[k] \in Point
  <2> HIDE DEF point, Point
  <2>1. QED
    BY <1>6, <1>9
<1>11. r \in Seq(Point) /\ Len(r) = N /\ DOMAIN r = 1..N
  <2> HIDE DEF Point
  <2>1. r \in [1..N -> Point]
    <3> HIDE DEF point
    <3>1. QED
      BY <1>8, <1>10
  <2>2. QED
    BY <1>7, <2>1, SeqDef, LenProperties
<1>12. Ordered(r)
  <2> SUFFICES ASSUME NEW i \in 1..N, NEW j \in 1..N, i < j PROVE r[i].t <= r[j].t
    BY <1>11 DEF Ordered
  <2>1. at[i] < at[j] /\ at[i] \in DOMAIN p /\ at[j] \in DOMAIN p
    BY <1>3, <1>7
  <2>2. p[at[i]].t <= p[at[j]].t
    BY <1>1, <2>1 DEF Ordered
  <2>3. \A k \in 1..N : r[k].t = p[at[k]].t
    <3>1. \A n : point(n).t = p[n].t
      OBVIOUS
    <3> HIDE DEF point
    <3>2. QED
      BY <1>9, <3>1
  <2> HIDE DEF point
  <2>4. QED
    BY <2>2, <2>3
<1>13. QED
  BY <1>4, <1>7, <1>9, <1>11, <1>12 DEF r, D, at, N

(* The rates add up to what the counter grew by, if it never fell.         *)
LEMMA RatesAddUp ==
    ASSUME NEW es \in Seq(ProgressEntry), NEW el \in Counters, NEW cl \in Counters,
           Metered(es) # <<>>,
           \A i, j \in DOMAIN Metered(es) : i # j =>
              \/ /\ Metered(es)[i].t < Metered(es)[j].t
                 /\ Metered(es)[i].docker[el] <= Metered(es)[j].docker[el]
              \/ /\ Metered(es)[j].t < Metered(es)[i].t
                 /\ Metered(es)[j].docker[el] <= Metered(es)[i].docker[el],
           NEW x \in {Metered(es)[n].docker[el] : n \in DOMAIN Metered(es)},
           NEW y \in {Metered(es)[n].docker[el] : n \in DOMAIN Metered(es)},
           \A n \in DOMAIN Metered(es) : x <= Metered(es)[n].docker[el]
                                          /\ Metered(es)[n].docker[el] <= y
    PROVE  Total([n \in DOMAIN Rates(es, el, cl) |-> Rates(es, el, cl)[n].execution]) = y - x
<1> DEFINE m == Metered(es)
           p == MeteredInTime(es)
           f == ByTimeAt(m)
           n == Len(p)
           c == [k \in 1..n |-> p[k].docker[el]]
           d == [k \in 2..n |-> c[k] - c[k - 1]]
           D == RateEntries(es)
           at == Ascending(D)
           N == Cardinality(D)
           r == Rates(es, el, cl)
           e == [k \in 1..N |-> r[k].execution]
<1>1. m \in Seq(ProgressEntry) /\ m # <<>>
  BY MeteredEntries
<1>2. /\ p \in Seq(ProgressEntry) /\ Len(p) = Len(m) /\ Ordered(p)
      /\ Takes(p, m, DOMAIN m, f)
      /\ \A k \in DOMAIN p : p[k].t \in Int /\ p[k].docker[el] \in Int
  BY MeteredInTimeIs
<1>3. n \in Nat \ {0} /\ DOMAIN p = 1..n /\ DOMAIN m = 1..n
  <2>1. Len(m) # 0
    BY <1>1, EmptySeq
  <2>2. QED
    BY <1>1, <1>2, <2>1
<1> HIDE DEF p, m, f, n
<1>4. /\ \A k \in 1..n : f[k] \in 1..n /\ p[k] = m[f[k]]
      /\ \A i, j \in 1..n : f[i] = f[j] => i = j
      /\ \A k \in 1..n : \E i \in 1..n : f[i] = k
  BY <1>2, <1>3 DEF Takes
<1>5. ASSUME NEW i \in 1..n, NEW j \in 1..n, i < j
      PROVE  p[i].t < p[j].t /\ c[i] <= c[j]
  <2>1. f[i] # f[j] /\ f[i] \in 1..n /\ f[j] \in 1..n
    BY <1>4, <1>5
  <2>2. \/ m[f[i]].t < m[f[j]].t /\ m[f[i]].docker[el] <= m[f[j]].docker[el]
        \/ m[f[j]].t < m[f[i]].t /\ m[f[j]].docker[el] <= m[f[i]].docker[el]
    BY <1>3, <2>1 DEF m
  <2>3. p[i].t <= p[j].t /\ p[i].t \in Int /\ p[j].t \in Int
    BY <1>2, <1>3, <1>5 DEF Ordered
  <2>4. c[i] = m[f[i]].docker[el] /\ c[j] = m[f[j]].docker[el]
    BY <1>4
  <2>5. p[i] = m[f[i]] /\ p[j] = m[f[j]]
    BY <1>4
  <2> HIDE DEF c
  <2>6. QED
    BY <2>2, <2>3, <2>4, <2>5
<1>6. D = 2..n
  <2>1. ASSUME NEW k \in 2..n PROVE p[k].t > p[k - 1].t
    <3>1. k \in 1..n /\ k - 1 \in 1..n /\ k - 1 < k
      BY <1>3
    <3>2. QED
      BY <1>2, <1>3, <1>5, <3>1
  <2>2. D = {k \in 2..n : p[k].t > p[k - 1].t}
    BY DEF RateEntries, p, n
  <2> HIDE DEF D
  <2>3. QED
    BY <2>1, <2>2
<1>7. c[1] = x /\ c[n] = y
  <2>1. PICK i \in 1..n, j \in 1..n : x = m[i].docker[el] /\ y = m[j].docker[el]
    BY <1>3 DEF m
  <2>2. PICK k \in 1..n, l \in 1..n : f[k] = i /\ f[l] = j
    BY <1>4
  <2>3. x = c[k] /\ y = c[l]
    BY <1>4, <2>1, <2>2
  <2>4. 1 \in 1..n /\ n \in 1..n /\ \A v \in 1..n : c[v] \in Int
    BY <1>2, <1>3
  <2>5. c[1] <= x /\ y <= c[n]
    <3> HIDE DEF c
    <3>1. k = 1 \/ 1 < k
      OBVIOUS
    <3>2. l = n \/ l < n
      BY <1>3
    <3>3. QED
      BY <1>5, <2>3, <2>4, <3>1, <3>2
  <2>6. x <= c[1] /\ c[n] <= y
    <3>1. c[1] = m[f[1]].docker[el] /\ c[n] = m[f[n]].docker[el]
      BY <1>4, <2>4
    <3>2. f[1] \in DOMAIN m /\ f[n] \in DOMAIN m
      BY <1>3, <1>4, <2>4
    <3>3. QED
      BY <3>1, <3>2 DEF m
  <2>7. QED
    BY <2>3, <2>4, <2>5, <2>6
<1>8. SumFunctionOnSet(d, 2..n) = y - x
  <2>1. \A k \in 1..n : c[k] \in Int
    BY <1>2, <1>3
  <2>2. \A k \in 2..n : d[k] = c[k] - c[k - 1]
    OBVIOUS
  <2> HIDE DEF c, d
  <2>3. SumFunctionOnSet(d, 2..n) = c[n] - c[1]
    BY <1>3, <2>1, <2>2, SumGrowth
  <2>4. QED
    BY <1>7, <2>3
<1>9. /\ N \in Nat /\ IsFiniteSet(D) /\ DOMAIN r = 1..N /\ at \in [1..N -> D]
      /\ \A k \in 1..N : r[k].execution = Bytes(es, at[k], el)
  <2>1. /\ Cardinality(RateEntries(es)) \in Nat /\ IsFiniteSet(RateEntries(es))
        /\ DOMAIN Rates(es, el, cl) = 1..Cardinality(RateEntries(es))
        /\ Ascending(RateEntries(es)) \in [1..Cardinality(RateEntries(es)) -> RateEntries(es)]
        /\ \A k \in DOMAIN Rates(es, el, cl) :
              Rates(es, el, cl)[k].execution = Bytes(es, Ascending(RateEntries(es))[k], el)
    BY RatesAre, Zenon
  <2>2. QED
    BY <2>1, Zenon
<1>10. /\ \A i, j \in 1..N : at[i] = at[j] => i = j
       /\ \A k \in D : \E i \in 1..N : at[i] = k
  <2>1. D \subseteq Int
    BY <1>6
  <2> HIDE DEF D
  <2>2. QED
    BY <1>9, <2>1, AscendingIs
<1> HIDE DEF D, at, N, r, c
<1>11. ASSUME NEW k \in 1..N PROVE e[k] = d[at[k]] /\ e[k] \in Int
  <2>1. at[k] \in 2..n /\ at[k] \in 1..n /\ at[k] - 1 \in 1..n /\ at[k] - 1 < at[k]
    BY <1>3, <1>6, <1>9
  <2>2. c[at[k] - 1] <= c[at[k]] /\ c[at[k]] \in Int /\ c[at[k] - 1] \in Int
    BY <1>2, <1>3, <1>5, <2>1 DEF c
  <2>3. Bytes(es, at[k], el) = Positive(c[at[k]] - c[at[k] - 1])
    BY <2>1 DEF Bytes, c, p
  <2>4. Positive(c[at[k]] - c[at[k] - 1]) = c[at[k]] - c[at[k] - 1]
    BY <2>2 DEF Positive
  <2>5. d[at[k]] = c[at[k]] - c[at[k] - 1]
    BY <2>1
  <2> HIDE DEF d
  <2>6. e[k] = d[at[k]]
    BY <1>9, <2>3, <2>4, <2>5
  <2>7. QED
    BY <2>2, <2>5, <2>6
<1> HIDE DEF d
<1>12. SumFunctionOnSet(e, 1..N) = SumFunctionOnSet(d, D)
  <2> DEFINE S == 1..N
  <2>1. IsFiniteSet(S)
    BY <1>9, FS_Interval
  <2>2. /\ \A i, j \in S : at[i] = at[j] => i = j
        /\ \A k \in S : e[k] = d[at[k]] /\ e[k] \in Int
    BY <1>10, <1>11
  <2>3. {at[k] : k \in S} = D
    BY <1>9, <1>10
  <2> HIDE DEF S, e
  <2>4. SumFunctionOnSet(e, S) = SumFunctionOnSet(d, {at[k] : k \in S})
    BY <2>1, <2>2, SumMoved
  <2>5. QED
    BY <2>3, <2>4 DEF S
<1>13. Total([k \in DOMAIN r |-> r[k].execution]) = SumFunctionOnSet(e, 1..N)
  BY <1>9 DEF Total, SumFunction
<1>14. QED
  BY <1>6, <1>8, <1>12, <1>13 DEF r

(* The area under the rates of reading is what was read.                   *)
LEMMA ReadsAddUp ==
    ASSUME NEW es \in Seq(ProgressEntry)
    PROVE  AreaIsGrowth(BlockIOReadChart(es), es, LAMBDA e : e.docker.bre)
<1> DEFINE m == Metered(es)
           all == {m[n].docker.bre : n \in DOMAIN m}
           line == BlockIOReadChart(es)
<1>1. SUFFICES ASSUME m # <<>>,
                      \A i, j \in DOMAIN m :
                         i # j => \/ m[i].t < m[j].t /\ m[i].docker.bre <= m[j].docker.bre
                                  \/ m[j].t < m[i].t /\ m[j].docker.bre <= m[i].docker.bre,
                      NEW x \in all, NEW y \in all, \A z \in all : x <= z /\ z <= y
               PROVE  Total([n \in DOMAIN line |-> line[n].execution]) = y - x
  BY DEF AreaIsGrowth
<1>2. "bre" \in Counters /\ "brc" \in Counters
  BY DEF Counters
<1>3. line = Rates(es, "bre", "brc")
  BY DEF BlockIOReadChart
<1>4. \A n \in DOMAIN m : x <= m[n].docker.bre /\ m[n].docker.bre <= y
  BY <1>1
<1>5. QED
  BY <1>1, <1>2, <1>3, <1>4, RatesAddUp

(* The area under the rates of writing is what was written.                *)
LEMMA WritesAddUp ==
    ASSUME NEW es \in Seq(ProgressEntry)
    PROVE  AreaIsGrowth(BlockIOWriteChart(es), es, LAMBDA e : e.docker.bwe)
<1> DEFINE m == Metered(es)
           all == {m[n].docker.bwe : n \in DOMAIN m}
           line == BlockIOWriteChart(es)
<1>1. SUFFICES ASSUME m # <<>>,
                      \A i, j \in DOMAIN m :
                         i # j => \/ m[i].t < m[j].t /\ m[i].docker.bwe <= m[j].docker.bwe
                                  \/ m[j].t < m[i].t /\ m[j].docker.bwe <= m[i].docker.bwe,
                      NEW x \in all, NEW y \in all, \A z \in all : x <= z /\ z <= y
               PROVE  Total([n \in DOMAIN line |-> line[n].execution]) = y - x
  BY DEF AreaIsGrowth
<1>2. "bwe" \in Counters /\ "bwc" \in Counters
  BY DEF Counters
<1>3. line = Rates(es, "bwe", "bwc")
  BY DEF BlockIOWriteChart
<1>4. \A n \in DOMAIN m : x <= m[n].docker.bwe /\ m[n].docker.bwe <= y
  BY <1>1
<1>5. QED
  BY <1>1, <1>2, <1>3, <1>4, RatesAddUp

(* Both directions together: what each of them adds up to.                 *)
LEMMA BothAddUp ==
    ASSUME NEW es \in Seq(ProgressEntry)
    PROVE  LET both == BlockIOChart(es)
               each == BlockIOReadChart(es) \o BlockIOWriteChart(es)
           IN  Total([n \in DOMAIN both |-> both[n].read + both[n].write])
                   = Total([n \in DOMAIN each |-> each[n].execution + each[n].consensus])
<1> DEFINE Point == [t : Int, seconds : Nat \ {0}, execution : Nat, consensus : Nat]
           r == BlockIOReadChart(es)
           w == BlockIOWriteChart(es)
           both == BlockIOChart(es)
           each == r \o w
           N == Cardinality(RateEntries(es))
           c == [n \in DOMAIN both |-> both[n].read + both[n].write]
           g == [n \in DOMAIN each |-> each[n].execution + each[n].consensus]
           a == [n \in 1..N |-> r[n].execution + r[n].consensus]
           b == [n \in 1..N |-> w[n].execution + w[n].consensus]
           S == 1..N
           T == (N + 1)..(N + N)
           f == [n \in T |-> n - N]
<1>1. "bre" \in Counters /\ "brc" \in Counters /\ "bwe" \in Counters /\ "bwc" \in Counters
  BY DEF Counters
<1>2. r = Rates(es, "bre", "brc") /\ w = Rates(es, "bwe", "bwc")
  BY DEF BlockIOReadChart, BlockIOWriteChart
<1>3. /\ r \in Seq(Point) /\ w \in Seq(Point) /\ Len(r) = N /\ Len(w) = N /\ N \in Nat
      /\ DOMAIN r = 1..N /\ DOMAIN w = 1..N
  <2> HIDE DEF r, w
  <2>1. r \in Seq(Point) /\ Len(r) = N /\ N \in Nat /\ DOMAIN r = 1..N
    BY <1>1, <1>2, RatesAre
  <2>2. w \in Seq(Point) /\ Len(w) = N /\ DOMAIN w = 1..N
    BY <1>1, <1>2, RatesAre
  <2>3. QED
    BY <2>1, <2>2
<1>4. both = [n \in DOMAIN r |-> [t |-> r[n].t, seconds |-> r[n].seconds,
                                  read |-> r[n].execution + r[n].consensus,
                                  write |-> w[n].execution + w[n].consensus]]
  BY DEF BlockIOChart
<1> HIDE DEF r, w, N, both
<1>5. /\ \A n \in S : a[n] \in Int /\ b[n] \in Int
      /\ \A n \in S : c[n] = a[n] + b[n]
      /\ DOMAIN c = S
  <2>1. \A n \in 1..N : r[n] \in Point /\ w[n] \in Point
    <3> HIDE DEF Point
    <3>1. QED
      BY <1>3
  <2>2. \A q \in Point : q.execution + q.consensus \in Int
    OBVIOUS
  <2> HIDE DEF Point
  <2>3. \A n \in S : a[n] \in Int /\ b[n] \in Int
    BY <2>1, <2>2
  <2>4. \A n \in S : c[n] = a[n] + b[n]
    BY <1>3, <1>4
  <2>5. QED
    BY <1>3, <1>4, <2>3, <2>4
<1>6. /\ \A n \in S : g[n] = a[n]
      /\ \A n \in T : g[n] = b[f[n]] /\ f[n] \in S
      /\ DOMAIN g = S \cup T
      /\ S \cap T = {}
  <2>1. /\ DOMAIN each = 1..(N + N)
        /\ \A n \in S : each[n] = r[n]
        /\ \A n \in T : each[n] = w[n - N]
    <3>1. /\ Len(r \o w) = N + N
          /\ \A i \in 1..(N + N) :
                (r \o w)[i] = IF i <= N THEN r[i] ELSE w[i - N]
      <4> HIDE DEF Point
      <4>1. /\ Len(r \o w) = Len(r) + Len(w)
            /\ \A i \in 1..(Len(r) + Len(w)) :
                  (r \o w)[i] = IF i <= Len(r) THEN r[i] ELSE w[i - Len(r)]
        BY <1>3, ConcatProperties, Zenon
      <4>2. QED
        BY <1>3, <4>1, Zenon
    <3>2. r \o w \in Seq(Point)
      <4> HIDE DEF Point
      <4>1. QED
        BY <1>3, ConcatProperties
    <3>3. DOMAIN (r \o w) = 1..(N + N)
      BY <3>1, <3>2
    <3>4. \A n \in S : n \in 1..(N + N) /\ n <= N
      BY <1>3
    <3>5. \A n \in T : n \in 1..(N + N) /\ ~ n <= N
      BY <1>3
    <3>6. QED
      BY <3>1, <3>3, <3>4, <3>5
  <2>2. 1..(N + N) = S \cup T /\ S \cap T = {}
    BY <1>3
  <2>3. \A n \in T : f[n] = n - N /\ f[n] \in S
    BY <1>3
  <2> HIDE DEF each, S, T, f
  <2>4. DOMAIN g = S \cup T
    BY <2>1, <2>2
  <2>5. \A n \in S : g[n] = r[n].execution + r[n].consensus
    BY <2>1, <2>2
  <2>6. \A n \in T : g[n] = w[f[n]].execution + w[f[n]].consensus
    BY <2>1, <2>2, <2>3
  <2> HIDE DEF g
  <2>7. QED
    BY <2>2, <2>3, <2>4, <2>5, <2>6 DEF S
<1>7. /\ IsFiniteSet(S) /\ IsFiniteSet(T)
      /\ \A i, j \in T : f[i] = f[j] => i = j
      /\ {f[n] : n \in T} = S
  <2>1. IsFiniteSet(S)
    BY <1>3, FS_Interval
  <2>2. N + 1 \in Int /\ N + N \in Int
    BY <1>3
  <2>3. IsFiniteSet(T)
    BY <2>2, FS_Interval
  <2>4. \A i, j \in T : f[i] = f[j] => i = j
    BY <1>3
  <2>5. \A k \in S : k + N \in T /\ f[k + N] = k
    BY <1>3
  <2>6. {f[n] : n \in T} = S
    <3>1. \A n \in T : f[n] \in S
      BY <1>6
    <3> HIDE DEF f, S, T
    <3>2. QED
      BY <2>5, <3>1
  <2>7. QED
    BY <2>1, <2>3, <2>4, <2>6
<1> HIDE DEF a, b, c, g, f, S, T, each
<1>8. SumFunctionOnSet(c, S) = SumFunctionOnSet(a, S) + SumFunctionOnSet(b, S)
  BY <1>5, <1>7, SumPlus
<1>9. \A n \in S \cup T : g[n] \in Int
  BY <1>5, <1>6
<1>10. SumFunctionOnSet(g, S \cup T) = SumFunctionOnSet(g, S) + SumFunctionOnSet(g, T)
  BY <1>6, <1>7, <1>9, SumUnion
<1>11. SumFunctionOnSet(g, S) = SumFunctionOnSet(a, S)
  <2>1. \A n \in S : g[n] = a[n] /\ g[n] \in Int
    BY <1>5, <1>6
  <2>2. QED
    BY <1>7, <2>1, SumSame
<1>12. SumFunctionOnSet(g, T) = SumFunctionOnSet(b, S)
  <2>1. \A n \in T : g[n] = b[f[n]] /\ g[n] \in Int
    BY <1>6, <1>9
  <2>2. IsFiniteSet(T) /\ \A i, j \in T : f[i] = f[j] => i = j
    BY <1>7
  <2>3. SumFunctionOnSet(g, T) = SumFunctionOnSet(b, {f[n] : n \in T})
    BY <2>1, <2>2, SumMoved
  <2>4. QED
    BY <1>7, <2>3
<1>13. Total(c) = Total(g)
  BY <1>5, <1>6, <1>8, <1>10, <1>11, <1>12 DEF Total, SumFunction
<1>14. QED
  BY <1>13 DEF c, g, both, each, r, w

(* A chain that only grew is measured from the first to the last block.    *)
LEMMA RateIs ==
    ASSUME NEW es \in Seq(ProgressEntry)
    PROVE  RateIsGrowth(es)
<1> DEFINE s == Synced(es)
           N == Len(s)
<1>1. SUFFICES ASSUME N > 1,
                      \A i, j \in DOMAIN s : i < j => s[i].t < s[j].t /\ s[i].b < s[j].b
               PROVE  CalculateSyncRate(es) = <<s[N].b - s[1].b, s[N].t - s[1].t>>
  BY DEF RateIsGrowth
<1>2. s \in Seq(ProgressEntry)
  <2> DEFINE S == {n \in DOMAIN es : es[n].b > 0}
  <2>1. S \subseteq DOMAIN es /\ s = Kept(es, S)
    BY DEF Synced
  <2> HIDE DEF S, s
  <2>2. QED
    BY <2>1, KeptIs
<1>3. \A e \in ProgressEntry : e.t \in Int /\ e.b \in Int
  BY DEF ProgressEntry
<1>4. Synced(ByTime(es)) = ByTime(s)
  BY <1>3, SyncedByTime
<1> HIDE DEF s
<1>5. /\ N \in Nat /\ DOMAIN s = 1..N
      /\ \A n \in DOMAIN s : s[n].t \in Int /\ s[n].b \in Int
  BY <1>2, <1>3
<1>6. ByTime(s) = s
  <2>1. Ordered(s)
    BY <1>1, <1>5 DEF Ordered
  <2>2. QED
    BY <1>2, <1>3, <2>1, SortedStays
<1>7. /\ s[1].t < s[N].t /\ s[1].b < s[N].b
      /\ s[1].t \in Int /\ s[N].t \in Int /\ s[1].b \in Int /\ s[N].b \in Int
  BY <1>1, <1>5
<1>8. ~ (Len(s) < 2 \/ s[Len(s)].b - s[1].b <= 0 \/ s[Len(s)].t - s[1].t <= 0)
  BY <1>1, <1>5, <1>7
<1>9. QED
  BY <1>4, <1>6, <1>8 DEF CalculateSyncRate

-----------------------------------------------------------------------------
(* Groups. *)

(* A time is in the interval it is counted to.                             *)
LEMMA IntervalIs ==
    ASSUME NEW t \in Int, NEW v \in Nat \ {0}
    PROVE  /\ (t \div v) * v \in Int
           /\ t \in ((t \div v) * v)..((t \div v) * v + v - 1)
<1> DEFINE q == t \div v
<1>1. t = v * q + (t % v) /\ t % v \in 0..(v - 1) /\ q \in Int
  OBVIOUS
<1> HIDE DEF q
<1>2. v * q \in Int /\ q * v = v * q
  BY <1>1
<1>3. t \in (q * v)..(q * v + v - 1)
  BY <1>1, <1>2
<1>4. QED
  BY <1>2, <1>3 DEF q

Levels == {"b", "s", "de", "dc", "pe", "pc"}
MeanOf(es, S, level) ==
    Rounded(Total([n \in DOMAIN Kept(es, S) |-> Kept(es, S)[n][level]]), Len(Kept(es, S)))

(* The mean of a level lies between the values it is the mean of.          *)
LEMMA MeanIs ==
    ASSUME NEW es \in Seq(ProgressEntry), NEW S, S \subseteq DOMAIN es, S # {},
           NEW level \in Levels
    PROVE  /\ MeanOf(es, S, level) \in Int
           /\ \E k \in S : es[k][level] <= MeanOf(es, S, level)
           /\ \E k \in S : MeanOf(es, S, level) <= es[k][level]
<1> DEFINE g == Kept(es, S)
           f == Ascending(S)
           D == DOMAIN g
           d == [n \in D |-> g[n][level]]
           total == SumFunctionOnSet(d, D)
           N == Cardinality(S)
<1>1. g \in Seq(ProgressEntry) /\ Takes(g, es, S, f) /\ Len(g) = N
  BY KeptIs
<1>2. D = 1..N /\ N \in Nat \ {0} /\ D # {} /\ IsFiniteSet(D) /\ Cardinality(D) = N
  <2>1. IsFiniteSet(S) /\ D = 1..N
    BY <1>1 DEF Takes
  <2>2. N \in Nat /\ N # 0
    BY <2>1, FS_CardinalityType, FS_EmptySet
  <2> HIDE DEF N, D
  <2>3. IsFiniteSet(1..N) /\ Cardinality(1..N) = N
    BY <2>2, FS_Interval
  <2>4. 1 \in D
    BY <2>1, <2>2
  <2>5. IsFiniteSet(D) /\ Cardinality(D) = N
    BY <2>1, <2>3, Zenon
  <2>6. N \in Nat \ {0}
    BY <2>2
  <2>7. QED
    BY <2>1, <2>4, <2>5, <2>6, Zenon
<1> HIDE DEF g, f, D, N
<1>3. \A n \in D : d[n] \in Int /\ f[n] \in S /\ d[n] = es[f[n]][level]
  <2>1. \A e \in ProgressEntry : e[level] \in Int
    BY DEF ProgressEntry, Levels
  <2>2. \A n \in D : g[n] \in ProgressEntry
    BY <1>1 DEF D
  <2>3. \A n \in D : f[n] \in S /\ g[n] = es[f[n]]
    BY <1>1 DEF Takes, D
  <2>4. QED
    BY <2>1, <2>2, <2>3
<1> HIDE DEF d
<1>4. /\ \E n \in D : d[n] * Cardinality(D) <= total
      /\ \E n \in D : total <= d[n] * Cardinality(D)
      /\ total \in Int
  BY <1>2, <1>3, SumAverage, SumType
<1>5. MeanOf(es, S, level) = Rounded(total, N)
  <2>1. Total(d) = total /\ d = [n \in DOMAIN g |-> g[n][level]]
    BY DEF Total, SumFunction, d, D
  <2>2. QED
    BY <1>1, <2>1 DEF MeanOf, g
<1> HIDE DEF total
<1>6. /\ Rounded(total, N) \in Int
      /\ \A k \in Int : k * N <= total => k <= Rounded(total, N)
      /\ \A k \in Int : total <= k * N => Rounded(total, N) <= k
  BY <1>2, <1>4, RoundedIs
<1>7. PICK i \in D, j \in D : d[i] * N <= total /\ total <= d[j] * N
  BY <1>2, <1>4
<1>8. d[i] <= Rounded(total, N) /\ Rounded(total, N) <= d[j]
  BY <1>3, <1>6, <1>7
<1>9. QED
  BY <1>3, <1>5, <1>6, <1>8

(* One group for each interval with an entry; a mean is within its values. *)
LEMMA GroupsAre ==
    ASSUME NEW es \in Seq(ProgressEntry), NEW v \in Nat \ {0}
    PROVE  GroupsAreMeans(es, v)
<1> DEFINE g == GroupProgressByInterval(es, v)
           key(n) == (es[n].t \div v) * v
           keys == {key(n) : n \in DOMAIN es}
           of(k) == {n \in DOMAIN es : key(n) = k}
           order == Ascending(keys)
           from(n) == {k \in DOMAIN es : es[k].t \in g[n].t .. (g[n].t + v - 1)}
           N == Cardinality(keys)
<1>1. /\ \A k \in DOMAIN es : es[k].t \in Int /\ es[k].s \in Int /\ es[k].b \in Int
      /\ DOMAIN es = 1..Len(es) /\ Len(es) \in Nat
  <2>1. \A e \in ProgressEntry : e.t \in Int /\ e.s \in Int /\ e.b \in Int
    BY DEF ProgressEntry
  <2>2. \A k \in DOMAIN es : es[k] \in ProgressEntry
    OBVIOUS
  <2>3. QED
    BY <2>1, <2>2
<1>2. \A k \in DOMAIN es : key(k) \in Int /\ es[k].t \in key(k)..(key(k) + v - 1)
  BY <1>1, IntervalIs
<1>3. g = [n \in DOMAIN order |->
            [t  |-> order[n],
             b  |-> MeanOf(es, of(order[n]), "b"),  s  |-> MeanOf(es, of(order[n]), "s"),
             de |-> MeanOf(es, of(order[n]), "de"), dc |-> MeanOf(es, of(order[n]), "dc"),
             pe |-> MeanOf(es, of(order[n]), "pe"), pc |-> MeanOf(es, of(order[n]), "pc")]]
  BY DEF GroupProgressByInterval, MeanOf
<1> HIDE DEF key, g
<1>4. keys \subseteq Int /\ IsFiniteSet(keys)
  <2>1. keys \subseteq Int
    BY <1>2
  <2> DEFINE h == [n \in DOMAIN es |-> key(n)]
  <2>2. h \in Surjection(DOMAIN es, keys)
    BY DEF Surjection
  <2>3. IsFiniteSet(DOMAIN es)
    <3> DEFINE M == Len(es)
    <3>1. M \in Nat /\ DOMAIN es = 1..M
      BY <1>1
    <3> HIDE DEF M
    <3>2. QED
      BY <3>1, FS_Interval
  <2> HIDE DEF h, keys
  <2>4. QED
    BY <2>1, <2>2, <2>3, FS_Surjection
<1>5. /\ N \in Nat /\ order \in [1..N -> keys]
      /\ \A k \in keys : \E n \in 1..N : order[n] = k
      /\ \A i, j \in 1..N : i < j <=> order[i] < order[j]
  <2> HIDE DEF keys
  <2>1. QED
    BY <1>4, AscendingIs
<1>6. \A k \in DOMAIN es : key(k) \in keys
  OBVIOUS
<1>7. \A k \in keys : of(k) \subseteq DOMAIN es /\ of(k) # {}
  OBVIOUS
<1> HIDE DEF order, N, of
<1>8. /\ DOMAIN g = 1..N
      /\ \A n \in 1..N : /\ g[n].t = order[n] /\ order[n] \in keys /\ order[n] \in Int
                          /\ g[n].b = MeanOf(es, of(order[n]), "b")
                          /\ g[n].s = MeanOf(es, of(order[n]), "s")
  <2> HIDE DEF keys
  <2>1. QED
    BY <1>3, <1>4, <1>5
<1> HIDE DEF keys
<1>9. Ordered(g)
  <2> SUFFICES ASSUME NEW i \in 1..N, NEW j \in 1..N, i < j PROVE g[i].t <= g[j].t
    BY <1>8 DEF Ordered
  <2>1. order[i] < order[j] /\ order[i] \in Int /\ order[j] \in Int
    BY <1>5, <1>8
  <2>2. QED
    BY <1>8, <2>1
<1>10. \A n \in 1..N : of(order[n]) \subseteq from(n)
  <2> SUFFICES ASSUME NEW n \in 1..N, NEW k \in of(order[n]) PROVE k \in from(n)
    OBVIOUS
  <2>1. k \in DOMAIN es /\ key(k) = g[n].t
    BY <1>8 DEF of
  <2>2. QED
    BY <1>2, <2>1
<1>11. UNION {from(n) : n \in DOMAIN g} = DOMAIN es
  <2>1. \A k \in DOMAIN es : \E n \in DOMAIN g : k \in from(n)
    <3> SUFFICES ASSUME NEW k \in DOMAIN es PROVE \E n \in DOMAIN g : k \in from(n)
      OBVIOUS
    <3>1. PICK n \in 1..N : order[n] = key(k)
      BY <1>5, <1>6
    <3>2. k \in of(order[n])
      BY <3>1 DEF of
    <3>3. QED
      BY <1>8, <1>10, <3>2
  <2>2. \A n : from(n) \subseteq DOMAIN es
    OBVIOUS
  <2> HIDE DEF from
  <2>3. QED
    BY <2>1, <2>2
<1>12. ASSUME NEW n \in DOMAIN g
       PROVE  /\ \E k \in from(n) : es[k].b <= g[n].b
              /\ \E k \in from(n) : es[k].b >= g[n].b
              /\ CalculateProgress(g[n].s, es[CHOOSE i \in from(n) : TRUE].s) \in 0..100
  <2> DEFINE S == of(order[n])
  <2>1. S \subseteq DOMAIN es /\ S # {} /\ S \subseteq from(n) /\ from(n) \subseteq DOMAIN es
    <3>1. n \in 1..N
      BY <1>8
    <3>2. S \subseteq from(n) /\ order[n] \in keys
      BY <1>8, <1>10, <3>1
    <3>3. QED
      BY <1>7, <3>2
  <2>2. g[n].b = MeanOf(es, S, "b") /\ g[n].s = MeanOf(es, S, "s")
    BY <1>8
  <2> HIDE DEF S
  <2>3. "b" \in Levels /\ "s" \in Levels
    BY DEF Levels
  <2>4. /\ MeanOf(es, S, "b") \in Int
        /\ \E k \in S : es[k]["b"] <= MeanOf(es, S, "b")
        /\ \E k \in S : MeanOf(es, S, "b") <= es[k]["b"]
    BY <2>1, <2>3, MeanIs
  <2>5. MeanOf(es, S, "s") \in Int
    BY <2>1, <2>3, MeanIs
  <2> HIDE DEF from
  <2>6. PICK k \in S, l \in S : es[k].b <= g[n].b /\ g[n].b <= es[l].b
    BY <2>2, <2>4
  <2>7. k \in from(n) /\ l \in from(n) /\ es[l].b >= g[n].b
    BY <1>1, <2>1, <2>2, <2>4, <2>6
  <2>8. CalculateProgress(g[n].s, es[CHOOSE i \in from(n) : TRUE].s) \in 0..100
    <3>1. (CHOOSE i \in from(n) : TRUE) \in DOMAIN es
      BY <2>1, <2>7
    <3>2. es[CHOOSE i \in from(n) : TRUE].s \in Int /\ g[n].s \in Int
      BY <1>1, <2>2, <2>5, <3>1
    <3>3. QED
      BY <3>2, ProgressIs
  <2>9. QED
    BY <2>6, <2>7, <2>8
<1>13. QED
  BY <1>9, <1>11, <1>12 DEF GroupsAreMeans, g

-----------------------------------------------------------------------------
(* All charts. *)

(* A line with the times of sorted entries is ordered.                     *)
LEMMA LevelOrdered ==
    ASSUME NEW p, Ordered(p), NEW line, DOMAIN line = DOMAIN p,
           \A n \in DOMAIN p : line[n].t = p[n].t
    PROVE  Ordered(line)
BY DEF Ordered

(* Every line runs from the left to the right.                             *)
LEMMA LinesOrdered ==
    ASSUME NEW es \in Seq(ProgressEntry)
    PROVE  /\ Ordered(BlockProgressChart(es)) /\ Ordered(SlotProgressChart(es))
           /\ Ordered(DiskUsageChart(es)) /\ Ordered(PeerCountChart(es))
           /\ Ordered(CPUUsageChart(es)) /\ Ordered(MemoryUsageChart(es))
           /\ Ordered(BlockIOReadChart(es)) /\ Ordered(BlockIOWriteChart(es))
<1> DEFINE u == ByTime(es)
           p == ByTime(Metered(es))
<1>1. Ordered(u)
  BY EntriesSorted
<1>2. Ordered(p)
  BY MeteredInTimeIs DEF MeteredInTime
<1>3. Ordered(BlockProgressChart(es))
  <2> DEFINE line == BlockProgressChart(es)
  <2>1. DOMAIN line = DOMAIN u /\ \A n \in DOMAIN u : line[n].t = u[n].t
    BY DEF BlockProgressChart
  <2> HIDE DEF line, u
  <2>2. QED
    BY <1>1, <2>1, LevelOrdered DEF line
<1>4. Ordered(SlotProgressChart(es))
  <2> DEFINE line == SlotProgressChart(es)
  <2>1. DOMAIN line = DOMAIN u /\ \A n \in DOMAIN u : line[n].t = u[n].t
    BY DEF SlotProgressChart
  <2> HIDE DEF line, u
  <2>2. QED
    BY <1>1, <2>1, LevelOrdered DEF line
<1>5. Ordered(DiskUsageChart(es))
  <2> DEFINE line == DiskUsageChart(es)
  <2>1. DOMAIN line = DOMAIN u /\ \A n \in DOMAIN u : line[n].t = u[n].t
    BY DEF DiskUsageChart
  <2> HIDE DEF line, u
  <2>2. QED
    BY <1>1, <2>1, LevelOrdered DEF line
<1>6. Ordered(PeerCountChart(es))
  <2> DEFINE line == PeerCountChart(es)
  <2>1. DOMAIN line = DOMAIN u /\ \A n \in DOMAIN u : line[n].t = u[n].t
    BY DEF PeerCountChart
  <2> HIDE DEF line, u
  <2>2. QED
    BY <1>1, <2>1, LevelOrdered DEF line
<1>7. Ordered(CPUUsageChart(es))
  <2> DEFINE line == CPUUsageChart(es)
  <2>1. DOMAIN line = DOMAIN p /\ \A n \in DOMAIN p : line[n].t = p[n].t
    BY DEF CPUUsageChart
  <2> HIDE DEF line, p
  <2>2. QED
    BY <1>2, <2>1, LevelOrdered DEF line
<1>8. Ordered(MemoryUsageChart(es))
  <2> DEFINE line == MemoryUsageChart(es)
  <2>1. DOMAIN line = DOMAIN p /\ \A n \in DOMAIN p : line[n].t = p[n].t
    BY DEF MemoryUsageChart
  <2> HIDE DEF line, p
  <2>2. QED
    BY <1>2, <2>1, LevelOrdered DEF line
<1>9. Ordered(BlockIOReadChart(es)) /\ Ordered(BlockIOWriteChart(es))
  <2>1. "bre" \in Counters /\ "brc" \in Counters /\ "bwe" \in Counters /\ "bwc" \in Counters
    BY DEF Counters
  <2>2. Ordered(Rates(es, "bre", "brc"))
    BY <2>1, RatesAre
  <2>3. Ordered(Rates(es, "bwe", "bwc"))
    BY <2>1, RatesAre
  <2>4. QED
    BY <2>2, <2>3 DEF BlockIOReadChart, BlockIOWriteChart
<1>10. QED
  BY <1>3, <1>4, <1>5, <1>6, <1>7, <1>8, <1>9

(* No rate is of no time, and none is negative.                            *)
LEMMA RatesArePositive ==
    ASSUME NEW es \in Seq(ProgressEntry),
           NEW line \in {BlockIOReadChart(es), BlockIOWriteChart(es)}, NEW n \in DOMAIN line
    PROVE  line[n].seconds > 0 /\ line[n].execution >= 0 /\ line[n].consensus >= 0
<1> DEFINE Point == [t : Int, seconds : Nat \ {0}, execution : Nat, consensus : Nat]
<1>1. "bre" \in Counters /\ "brc" \in Counters /\ "bwe" \in Counters /\ "bwc" \in Counters
  BY DEF Counters
<1>2. Rates(es, "bre", "brc") \in Seq(Point)
  BY <1>1, RatesAre
<1>3. Rates(es, "bwe", "bwc") \in Seq(Point)
  BY <1>1, RatesAre
<1>4. line \in Seq(Point)
  BY <1>2, <1>3 DEF BlockIOReadChart, BlockIOWriteChart
<1>5. line[n] \in Point
  <2> HIDE DEF Point
  <2>1. QED
    BY <1>4
<1>6. QED
  BY <1>5

(* The right axes of the block and slot charts fit their lines.            *)
LEMMA TicksFit ==
    ASSUME NEW es \in Seq(ProgressEntry), es # <<>>
    PROVE  /\ BlockTick(BlockProgressChart(es), BlockProgressChart(es)[Len(es)].blocks) \in {0, 100}
           /\ SlotTick(SlotProgressChart(es), SlotProgressChart(es)[1].slots) = 0
<1> DEFINE u == ByTime(es)
           b == BlockProgressChart(es)
           s == SlotProgressChart(es)
           N == Len(es)
<1>1. u \in Seq(ProgressEntry) /\ Len(u) = N
  BY EntriesSorted
<1>2. N \in Nat \ {0} /\ DOMAIN u = 1..N
  <2>1. N # 0
    BY EmptySeq
  <2>2. QED
    BY <1>1, <2>1
<1>3. /\ \A n \in 1..N : b[n].blocks = u[n].b /\ s[n].slots = u[n].s
      /\ DOMAIN b = 1..N /\ DOMAIN s = 1..N
  BY <1>2 DEF BlockProgressChart, SlotProgressChart
<1>4. Len(b) = N /\ Len(s) = N
  BY <1>2 DEF BlockProgressChart, SlotProgressChart
<1> HIDE DEF u, N
<1>5. \A n \in 1..N : u[n].b \in Int /\ u[n].s \in Int
  <2>1. \A e \in ProgressEntry : e.s \in Int /\ e.b \in Int
    BY DEF ProgressEntry
  <2>2. \A n \in 1..N : u[n] \in ProgressEntry
    BY <1>1, <1>2
  <2>3. QED
    BY <2>1, <2>2
<1> HIDE DEF b, s
<1>6. 1 \in 1..N /\ N \in 1..N
  BY <1>2
<1>7. b[1].blocks \in Int /\ b[N].blocks \in Int /\ s[1].slots \in Int /\ s[N].slots \in Int
  BY <1>3, <1>5, <1>6
<1>8. PercentageTick(b[1].blocks, b[N].blocks, b[N].blocks) \in {0, 100}
  BY <1>7, TicksAre
<1>9. PercentageTick(s[1].slots, s[N].slots, s[1].slots) = 0
  BY <1>7, TicksAre
<1>10. QED
  BY <1>4, <1>8, <1>9 DEF BlockTick, SlotTick, b, s, N

(* The charts of any entries, in whatever order they are, follow them.      *)
THEOREM ChartsFollowEntries ==
    ASSUME NEW es \in Seq(ProgressEntry)
    PROVE  ChartsFollow(ProgressCharts(es), es)
<1> DEFINE c == ProgressCharts(es)
<1>1. CASE es = <<>>
  BY <1>1 DEF ChartsFollow, ProgressCharts
<1>2. CASE es # <<>>
  <2>1. /\ c.blocks = BlockProgressChart(es) /\ c.slots = SlotProgressChart(es)
        /\ c.disk = DiskUsageChart(es) /\ c.peers = PeerCountChart(es)
        /\ c.cpu = CPUUsageChart(es) /\ c.memory = MemoryUsageChart(es)
        /\ c.read = BlockIOReadChart(es) /\ c.write = BlockIOWriteChart(es)
    BY <1>2 DEF ProgressCharts
  <2> HIDE DEF c
  <2>2. \A line \in {c.blocks, c.slots, c.disk, c.peers, c.cpu, c.memory, c.read, c.write} :
           Ordered(line)
    BY <2>1, LinesOrdered
  <2>3. /\ PointForEach(c.blocks, es, LAMBDA p : p.blocks, LAMBDA e : e.b)
        /\ PointForEach(c.slots, es, LAMBDA p : p.slots, LAMBDA e : e.s)
        /\ PointForEach(c.disk, es, LAMBDA p : p.total, LAMBDA e : e.de + e.dc)
        /\ PointForEach(c.peers, es, LAMBDA p : p.consensus, LAMBDA e : e.pc)
        /\ PointForEach(c.memory, Metered(es), LAMBDA p : p.execution, LAMBDA e : e.docker.me)
    BY <2>1, BlocksAre, SlotsAre, DiskIs, PeersAre, MemoryIs
  <2>4. SyncProgressChart(es) = [n \in DOMAIN c.blocks |->
              [t |-> c.blocks[n].t, blocks |-> c.blocks[n].blocks, slots |-> c.slots[n].slots]]
    <3> DEFINE u == ByTime(es)
               b == c.blocks
               s == c.slots
    <3>1. /\ DOMAIN b = DOMAIN u
          /\ \A n \in DOMAIN u : b[n].t = u[n].t /\ b[n].blocks = u[n].b /\ s[n].slots = u[n].s
      BY <2>1 DEF BlockProgressChart, SlotProgressChart
    <3>2. SyncProgressChart(es)
            = [n \in DOMAIN u |-> [t |-> u[n].t, blocks |-> u[n].b, slots |-> u[n].s]]
      BY DEF SyncProgressChart
    <3> HIDE DEF u, b, s
    <3>3. SyncProgressChart(es)
            = [n \in DOMAIN b |-> [t |-> b[n].t, blocks |-> b[n].blocks, slots |-> s[n].slots]]
      BY <3>1, <3>2
    <3>4. QED
      BY <3>3 DEF b, s
  <2>5. /\ BlockTick(c.blocks, c.blocks[Len(es)].blocks) \in {0, 100}
        /\ SlotTick(c.slots, c.slots[1].slots) = 0
    BY <1>2, <2>1, TicksFit
  <2>6. /\ AreaIsGrowth(c.read, es, LAMBDA e : e.docker.bre)
        /\ AreaIsGrowth(c.write, es, LAMBDA e : e.docker.bwe)
    BY <2>1, ReadsAddUp, WritesAddUp
  <2>7. LET both == BlockIOChart(es)
            each == c.read \o c.write
        IN  Total([n \in DOMAIN both |-> both[n].read + both[n].write])
                = Total([n \in DOMAIN each |-> each[n].execution + each[n].consensus])
    BY <2>1, BothAddUp
  <2>8. RateIsGrowth(es) /\ GroupsAreMeans(es, 2)
    BY RateIs, GroupsAre
  <2>9. \A line \in {c.read, c.write} : \A n \in DOMAIN line :
           line[n].seconds > 0 /\ line[n].execution >= 0 /\ line[n].consensus >= 0
    BY <2>1, RatesArePositive
  <2>10. QED
    BY <1>2, <2>2, <2>3, <2>4, <2>5, <2>6, <2>7, <2>8, <2>9 DEF ChartsFollow, c
<1>3. QED
  BY <1>1, <1>2

=============================================================================
