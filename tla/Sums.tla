-------------------------------- MODULE Sums --------------------------------
(***************************************************************************)
(* Sums over finite sets, for the amounts of Installments, Catalog and     *)
(* Finance.  The sum of the community modules is a fold that picks the     *)
(* elements in an order nobody chose: here it is shown to be well defined  *)
(* and to be a sum, whatever the order.  The values are those of a         *)
(* function, and a property to prove by induction, on finite sets or on    *)
(* numbers, is a set: that of the sets or the numbers that have it.        *)
(***************************************************************************)
EXTENDS Integers, FiniteSets, Functions, FiniteSetTheorems,
        WellFoundedInduction, TLAPS

\* A family of subsets of a finite set has a smallest one.
LEMMA SmallestSet ==
  ASSUME NEW S, IsFiniteSet(S), NEW F, F \subseteq SUBSET S, F # {}
  PROVE  \E T \in F : \A U \in F : U \subseteq T => U = T
<1>1. IsWellFoundedOn(StrictSubsetOrdering(S), FiniteSubsetsOf(S))
  BY FS_StrictSubsetOrderingWellFounded
<1>2. F \subseteq FiniteSubsetsOf(S)
  BY FS_Subset DEF FiniteSubsetsOf
<1>3. PICK T \in F : \A U \in F : ~(<<U, T>> \in StrictSubsetOrdering(S))
  BY <1>1, <1>2, WFMin
<1>4. \A U \in F : U \subseteq T => U = T
  BY <1>3 DEF StrictSubsetOrdering
<1> QED BY <1>4

\* Induction on the subsets of a finite set: Good is the set of those that have
\* the property.
LEMMA SubsetInduction ==
  ASSUME NEW S, IsFiniteSet(S), NEW Good,
         \A T \in SUBSET S : (\A U \in SUBSET T : U # T => U \in Good) => T \in Good
  PROVE  S \in Good
<1> DEFINE Bad == {T \in SUBSET S : T \notin Good}
<1>1. SUFFICES ASSUME Bad # {} PROVE FALSE
  OBVIOUS
<1>2. PICK T \in Bad : \A U \in Bad : U \subseteq T => U = T
  <2>1. Bad \subseteq SUBSET S
    OBVIOUS
  <2> HIDE DEF Bad
  <2> QED BY <1>1, <2>1, SmallestSet
<1>3. \A U \in SUBSET T : U # T => U \in Good
  BY <1>2
<1> QED BY <1>2, <1>3

\* The same, one element more at a time.
LEMMA AddInduction ==
  ASSUME NEW S, IsFiniteSet(S), NEW Good, {} \in Good,
         \A T \in SUBSET S : \A x \in S \ T : T \in Good => T \cup {x} \in Good
  PROVE  S \in Good
<1>1. ASSUME NEW T \in SUBSET S, \A U \in SUBSET T : U # T => U \in Good
      PROVE  T \in Good
  <2>1. CASE T = {}
    BY <2>1
  <2>2. ASSUME NEW x \in T PROVE T \in Good
    <3>1. T \ {x} \in Good
      BY <1>1
    <3>2. (T \ {x}) \cup {x} = T
      OBVIOUS
    <3>3. T \ {x} \in SUBSET S /\ x \in S \ (T \ {x})
      OBVIOUS
    <3> QED BY <3>1, <3>2, <3>3
  <2> QED BY <2>1, <2>2
<1> QED BY <1>1, SubsetInduction

-----------------------------------------------------------------------------
(* Natural numbers *)

\* A set of natural numbers has a smallest one.
LEMMA SmallestNumber ==
  ASSUME NEW S \in SUBSET Nat, NEW n \in S
  PROVE  \E m \in S : \A k \in S : m <= k
<1> DEFINE I == 0..n
           F == {0..k : k \in S \cap I}
<1>1. IsFiniteSet(I) /\ F \subseteq SUBSET I /\ I \in F
  <2>1. IsFiniteSet(I)
    BY FS_Interval
  <2>2. n \in S \cap I /\ \A k \in S \cap I : 0..k \subseteq I
    OBVIOUS
  <2> HIDE DEF I
  <2>3. F \subseteq SUBSET I
    BY <2>2
  <2> QED BY <2>1, <2>2, <2>3 DEF I
<1>2. PICK T \in F : \A U \in F : U \subseteq T => U = T
  <2> HIDE DEF F, I
  <2> QED BY <1>1, SmallestSet
<1>3. PICK m \in S \cap I : T = 0..m
  BY <1>2
<1>4. ASSUME NEW k \in S, k < m PROVE FALSE
  <2>1. 0..k \in F /\ 0..k \subseteq T /\ 0..k # T
    BY <1>3, <1>4
  <2> QED BY <1>2, <2>1
<1> QED BY <1>3, <1>4

\* Induction: Good is the set of the numbers that have the property.
LEMMA NatInduces ==
  ASSUME NEW Good, 0 \in Good, \A k \in Nat : k \in Good => k + 1 \in Good
  PROVE  Nat \subseteq Good
<1> DEFINE Bad == {k \in Nat : k \notin Good}
<1> SUFFICES ASSUME NEW n \in Bad PROVE FALSE
  OBVIOUS
<1>1. PICK m \in Bad : \A k \in Bad : m <= k
  <2>1. Bad \in SUBSET Nat
    OBVIOUS
  <2> HIDE DEF Bad
  <2> QED BY <2>1, SmallestNumber
<1>2. m \in Nat /\ m # 0
  BY <1>1
<1>3. m - 1 \in Nat /\ (m - 1) + 1 = m /\ ~(m <= m - 1)
  BY <1>2
<1> QED BY <1>1, <1>3

\* The sequence that starts from first and goes on by step
Iterates(g, S, first, step) ==
  g \in [Nat -> S] /\ g[0] = first /\ \A k \in Nat : g[k + 1] = step[g[k]]

\* Definition by recursion on the natural numbers, with a step that is a function.
LEMMA Recursion ==
  ASSUME NEW S, NEW first \in S, NEW step \in [S -> S]
  PROVE  \E g : Iterates(g, S, first, step)
<1> DEFINE Upto(n, h) == /\ h \in [0..n -> S] /\ h[0] = first
                         /\ \A k \in 0..(n - 1) : h[k + 1] = step[h[k]]
           Exists == {n \in Nat : \E h : Upto(n, h)}
           Chosen(n) == CHOOSE h : Upto(n, h)
           Agree == {k \in Nat : \A m, n \in Nat : k <= m /\ k <= n =>
                                   Chosen(m)[k] = Chosen(n)[k]}
<1>1. Nat \subseteq Exists
  <2>1. 0 \in Exists
    <3>1. Upto(0, [k \in 0..0 |-> first])
      OBVIOUS
    <3> QED BY <3>1
  <2>2. ASSUME NEW n \in Nat, n \in Exists PROVE n + 1 \in Exists
    <3>1. PICK h : Upto(n, h)
      BY <2>2
    <3> DEFINE e == [k \in 0..(n + 1) |-> IF k <= n THEN h[k] ELSE step[h[n]]]
    <3>2. e \in [0..(n + 1) -> S] /\ e[0] = first
      BY <3>1
    <3>3. ASSUME NEW k \in 0..n PROVE e[k + 1] = step[e[k]]
      BY <3>1
    <3>4. Upto(n + 1, e)
      <4> HIDE DEF e
      <4> QED BY <3>2, <3>3
    <3> QED BY <3>4
  <2> HIDE DEF Exists
  <2> QED BY <2>1, <2>2, NatInduces
<1>2. ASSUME NEW n \in Nat PROVE Upto(n, Chosen(n))
  <2>1. \E h : Upto(n, h)
    BY <1>1
  <2> HIDE DEF Upto
  <2> QED BY <2>1
<1> HIDE DEF Chosen
<1>3. Nat \subseteq Agree
  <2>1. 0 \in Agree
    BY <1>2
  <2>2. ASSUME NEW k \in Nat, k \in Agree PROVE k + 1 \in Agree
    <3> SUFFICES ASSUME NEW m \in Nat, NEW n \in Nat, k + 1 <= m, k + 1 <= n
                 PROVE  Chosen(m)[k + 1] = Chosen(n)[k + 1]
      OBVIOUS
    <3>1. Chosen(m)[k] = Chosen(n)[k]
      BY <2>2
    <3>2. k \in 0..(m - 1) /\ k \in 0..(n - 1)
      OBVIOUS
    <3>3. Chosen(m)[k + 1] = step[Chosen(m)[k]] /\ Chosen(n)[k + 1] = step[Chosen(n)[k]]
      BY <1>2, <3>2
    <3> QED BY <3>1, <3>3
  <2> HIDE DEF Agree
  <2> QED BY <2>1, <2>2, NatInduces
<1> DEFINE g == [n \in Nat |-> Chosen(n)[n]]
<1>4. g \in [Nat -> S] /\ g[0] = first
  BY <1>2
<1>5. ASSUME NEW k \in Nat PROVE g[k + 1] = step[g[k]]
  <2>1. Chosen(k + 1)[k + 1] = step[Chosen(k + 1)[k]]
    <3>1. k + 1 \in Nat /\ k \in 0..((k + 1) - 1)
      OBVIOUS
    <3> QED BY <1>2, <3>1
  <2>2. Chosen(k + 1)[k] = Chosen(k)[k]
    BY <1>3
  <2> QED BY <2>1, <2>2
<1> HIDE DEF g
<1> QED BY <1>4, <1>5 DEF Iterates

-----------------------------------------------------------------------------
(* The fold is well defined *)

Picked(S) == CHOOSE x \in S : TRUE

\* g is the recursive function by which the sum of f over S is defined.
SumsBy(g, f, S) ==
  g = [T \in SUBSET S |->
         IF T = {} THEN 0 ELSE f[Picked(T)] + g[T \ {Picked(T)}]]

\* The community modules' sum is the value of such a function, chosen.
LEMMA SumIs ==
  ASSUME NEW f, NEW S
  PROVE  SumFunctionOnSet(f, S) = (CHOOSE g : SumsBy(g, f, S))[S]
BY DEF SumFunctionOnSet, FoldFunctionOnSet, MapThenFoldSet, SumsBy, Picked

\* Two such functions agree on the finite sets both are defined on.
LEMMA SumsAgree ==
  ASSUME NEW f, NEW S, NEW T, NEW g, NEW h, SumsBy(g, f, S), SumsBy(h, f, T),
         NEW W, W \subseteq S, W \subseteq T, IsFiniteSet(W)
  PROVE  g[W] = h[W]
<1> DEFINE Good == {U \in SUBSET W : g[U] = h[U]}
<1>1. ASSUME NEW U \in SUBSET W, \A V \in SUBSET U : V # U => V \in Good
      PROVE  U \in Good
  <2>1. CASE U = {}
    BY <2>1 DEF SumsBy
  <2>2. CASE U # {}
    <3> DEFINE p == Picked(U)
    <3>1. p \in U
      BY <2>2 DEF Picked
    <3>2. g[U \ {p}] = h[U \ {p}]
      BY <1>1, <3>1
    <3>3. g[U] = f[p] + g[U \ {p}] /\ h[U] = f[p] + h[U \ {p}]
      <4> HIDE DEF p
      <4>1. p = Picked(U)
        BY DEF p
      <4> QED BY <2>2, <4>1 DEF SumsBy
    <3> QED BY <3>2, <3>3
  <2> QED BY <2>1, <2>2
<1>2. W \in Good
  <2> HIDE DEF Good
  <2> QED BY <1>1, SubsetInduction
<1> QED BY <1>2

\* There is one for every finite set.
LEMMA SumsExist ==
  ASSUME NEW f, NEW S, IsFiniteSet(S)
  PROVE  \E g : SumsBy(g, f, S)
<1> DEFINE Good == {T \in SUBSET S : \E g : SumsBy(g, f, T)}
           At(U) == (CHOOSE g : SumsBy(g, f, U))[U]
           Value(U) == IF U = {} THEN 0 ELSE f[Picked(U)] + At(U \ {Picked(U)})
<1>1. ASSUME NEW T \in SUBSET S, \A U \in SUBSET T : U # T => U \in Good
      PROVE  T \in Good
  <2> DEFINE g == [U \in SUBSET T |-> Value(U)]
  <2>1. ASSUME NEW U \in SUBSET T, U # T PROVE At(U) = Value(U)
    <3> DEFINE h == CHOOSE h : SumsBy(h, f, U)
               V == U \ {Picked(U)}
               k == CHOOSE k : SumsBy(k, f, V)
    <3>1. SumsBy(h, f, U)
      BY <1>1, <2>1
    <3>2. CASE U = {}
      BY <3>1, <3>2 DEF SumsBy
    <3>3. CASE U # {}
      <4>1. Picked(U) \in U
        BY <3>3 DEF Picked
      <4>2. h[U] = f[Picked(U)] + h[V]
        BY <3>1, <3>3 DEF SumsBy
      <4>3. SumsBy(k, f, V)
        BY <1>1, <4>1
      <4>4. IsFiniteSet(V)
        BY FS_Subset
      <4>5. h[V] = k[V]
        <5>1. V \subseteq U
          OBVIOUS
        <5> HIDE DEF h, k, V
        <5> QED BY <3>1, <4>3, <4>4, <5>1, SumsAgree
      <4> QED BY <3>3, <4>2, <4>5
    <3> QED BY <3>2, <3>3
  <2>2. ASSUME NEW U \in SUBSET T, U # {}
        PROVE  At(U \ {Picked(U)}) = g[U \ {Picked(U)}]
    <3>1. Picked(U) \in U
      BY <2>2 DEF Picked
    <3>2. U \ {Picked(U)} \in SUBSET T /\ U \ {Picked(U)} # T
      BY <3>1
    <3> HIDE DEF Value, At
    <3> QED BY <2>1, <3>2
  <2>3. SumsBy(g, f, T)
    <3> HIDE DEF At
    <3>1. g = [U \in SUBSET T |->
                 IF U = {} THEN 0 ELSE f[Picked(U)] + g[U \ {Picked(U)}]]
      BY <2>2, Zenon
    <3> QED BY <3>1 DEF SumsBy
  <2> QED BY <2>3
<1>2. S \in Good
  <2> HIDE DEF Good
  <2> QED BY <1>1, SubsetInduction
<1> QED BY <1>2

\* The sum of a set, from that of the set without the element it picks.
LEMMA SumStep ==
  ASSUME NEW f, NEW S, IsFiniteSet(S)
  PROVE  SumFunctionOnSet(f, S)
           = IF S = {} THEN 0
             ELSE f[Picked(S)] + SumFunctionOnSet(f, S \ {Picked(S)})
<1> DEFINE g == CHOOSE g : SumsBy(g, f, S)
           T == S \ {Picked(S)}
           h == CHOOSE h : SumsBy(h, f, T)
<1>1. SumsBy(g, f, S)
  BY SumsExist
<1>2. IsFiniteSet(T) /\ SumsBy(h, f, T)
  BY SumsExist, FS_Subset
<1>3. g[T] = h[T]
  <2>1. T \subseteq S
    OBVIOUS
  <2> HIDE DEF g, h, T
  <2> QED BY <1>1, <1>2, <2>1, SumsAgree
<1>4. g[S] = IF S = {} THEN 0 ELSE f[Picked(S)] + g[T]
  <2> HIDE DEF g
  <2> QED BY <1>1 DEF SumsBy
<1> HIDE DEF T
<1>5. SumFunctionOnSet(f, S) = g[S] /\ SumFunctionOnSet(f, T) = h[T]
  BY SumIs
<1> QED BY <1>3, <1>4, <1>5 DEF T

-----------------------------------------------------------------------------
(* It is a sum *)

\* The sum over no element is zero.
LEMMA SumEmpty ==
  ASSUME NEW f
  PROVE  SumFunctionOnSet(f, {}) = 0
BY SumStep, FS_EmptySet

\* A sum of integers is an integer.
LEMMA SumInt ==
  ASSUME NEW f, NEW S, IsFiniteSet(S), \A x \in S : f[x] \in Int
  PROVE  SumFunctionOnSet(f, S) \in Int
<1> DEFINE Good == {T \in SUBSET S : SumFunctionOnSet(f, T) \in Int}
<1>1. ASSUME NEW T \in SUBSET S, \A U \in SUBSET T : U # T => U \in Good
      PROVE  T \in Good
  <2>1. IsFiniteSet(T)
    BY FS_Subset
  <2>2. CASE T = {}
    BY <2>2, SumEmpty
  <2>3. CASE T # {}
    <3>1. Picked(T) \in T
      BY <2>3 DEF Picked
    <3>2. T \ {Picked(T)} \in Good
      BY <1>1, <3>1
    <3> QED BY <2>1, <2>3, <3>1, <3>2, SumStep
  <2> QED BY <2>2, <2>3
<1>2. S \in Good
  <2> HIDE DEF Good
  <2> QED BY <1>1, SubsetInduction
<1> QED BY <1>2

\* Any element may be taken out first.
LEMMA SumRemove ==
  ASSUME NEW f, NEW S, IsFiniteSet(S), \A x \in S : f[x] \in Int, NEW x \in S
  PROVE  SumFunctionOnSet(f, S) = f[x] + SumFunctionOnSet(f, S \ {x})
<1> DEFINE Sum(T) == SumFunctionOnSet(f, T)
           Good == {T \in SUBSET S : \A y \in T : Sum(T) = f[y] + Sum(T \ {y})}
<1>1. ASSUME NEW T \in SUBSET S, \A U \in SUBSET T : U # T => U \in Good
      PROVE  T \in Good
  <2> SUFFICES ASSUME NEW y \in T PROVE Sum(T) = f[y] + Sum(T \ {y})
    OBVIOUS
  <2> DEFINE p == Picked(T)
  <2>1. IsFiniteSet(T) /\ p \in T
    BY FS_Subset DEF Picked
  <2>2. Sum(T) = f[p] + Sum(T \ {p})
    BY <2>1, SumStep
  <2>3. CASE p = y
    BY <2>2, <2>3
  <2>4. CASE p # y
    <3> HIDE DEF p
    <3>1. T \ {p} \in Good /\ T \ {y} \in Good
      BY <1>1, <2>1
    <3>2. Sum(T \ {p}) = f[y] + Sum((T \ {p}) \ {y})
      BY <3>1, <2>4
    <3>3. Sum(T \ {y}) = f[p] + Sum((T \ {y}) \ {p})
      BY <3>1, <2>1, <2>4
    <3>4. (T \ {p}) \ {y} = (T \ {y}) \ {p}
      OBVIOUS
    <3>5. IsFiniteSet((T \ {y}) \ {p}) /\ f[p] \in Int /\ f[y] \in Int
      BY <2>1, FS_Subset
    <3>6. Sum((T \ {y}) \ {p}) \in Int
      BY <3>5, SumInt
    <3> DEFINE w == Sum((T \ {y}) \ {p})
    <3>7. Sum(T) = f[p] + (f[y] + w) /\ Sum(T \ {y}) = f[p] + w
      BY <2>2, <3>2, <3>3, <3>4
    <3>8. \A i, j, k \in Int : i + (j + k) = j + (i + k)
      OBVIOUS
    <3> QED BY <3>5, <3>6, <3>7, <3>8
  <2> QED BY <2>3, <2>4
<1>2. S \in Good
  <2> HIDE DEF Good
  <2> QED BY <1>1, SubsetInduction
<1> QED BY <1>2

\* A new element adds its amount.
LEMMA SumAdd ==
  ASSUME NEW f, NEW S, IsFiniteSet(S), NEW x, x \notin S,
         \A y \in S \cup {x} : f[y] \in Int
  PROVE  SumFunctionOnSet(f, S \cup {x}) = f[x] + SumFunctionOnSet(f, S)
<1>1. IsFiniteSet(S \cup {x}) /\ x \in S \cup {x}
  BY FS_AddElement
<1>2. (S \cup {x}) \ {x} = S
  OBVIOUS
<1> QED BY <1>1, <1>2, SumRemove

\* A sum depends on the values only.
LEMMA SumSame ==
  ASSUME NEW f, NEW g, NEW S, IsFiniteSet(S), \A x \in S : f[x] = g[x]
  PROVE  SumFunctionOnSet(f, S) = SumFunctionOnSet(g, S)
<1> DEFINE Good == {T \in SUBSET S : SumFunctionOnSet(f, T) = SumFunctionOnSet(g, T)}
<1>1. ASSUME NEW T \in SUBSET S, \A U \in SUBSET T : U # T => U \in Good
      PROVE  T \in Good
  <2>1. IsFiniteSet(T)
    BY FS_Subset
  <2>2. CASE T = {}
    BY <2>2, SumEmpty
  <2>3. CASE T # {}
    <3>1. Picked(T) \in T
      BY <2>3 DEF Picked
    <3>2. T \ {Picked(T)} \in Good
      BY <1>1, <3>1
    <3> QED BY <2>1, <2>3, <3>1, <3>2, SumStep
  <2> QED BY <2>2, <2>3
<1>2. S \in Good
  <2> HIDE DEF Good
  <2> QED BY <1>1, SubsetInduction
<1> QED BY <1>2

\* The sum of two parts
LEMMA SumUnion ==
  ASSUME NEW f, NEW S, NEW T, IsFiniteSet(S), IsFiniteSet(T), S \cap T = {},
         \A x \in S \cup T : f[x] \in Int
  PROVE  SumFunctionOnSet(f, S \cup T) = SumFunctionOnSet(f, S) + SumFunctionOnSet(f, T)
<1> DEFINE Sum(U) == SumFunctionOnSet(f, U)
           Good == {U \in SUBSET T : Sum(S \cup U) = Sum(S) + Sum(U)}
<1>0. Sum(S) \in Int
  BY SumInt
<1>1. {} \in Good
  BY <1>0, SumEmpty
<1>2. ASSUME NEW U \in SUBSET T, NEW x \in T \ U, U \in Good
      PROVE  U \cup {x} \in Good
  <2>1. IsFiniteSet(U) /\ IsFiniteSet(S \cup U)
    BY FS_Subset, FS_Union
  <2>2. Sum(U \cup {x}) = f[x] + Sum(U)
    BY <2>1, SumAdd
  <2>3. Sum((S \cup U) \cup {x}) = f[x] + Sum(S \cup U)
    BY <2>1, SumAdd
  <2>4. Sum(U) \in Int /\ f[x] \in Int
    BY <2>1, SumInt
  <2>5. S \cup (U \cup {x}) = (S \cup U) \cup {x}
    OBVIOUS
  <2>6. Sum(S \cup U) = Sum(S) + Sum(U)
    BY <1>2
  <2> DEFINE s == Sum(S)
             u == Sum(U)
  <2>7. Sum(S \cup (U \cup {x})) = f[x] + (s + u) /\ Sum(U \cup {x}) = f[x] + u
    BY <2>2, <2>3, <2>5, <2>6
  <2>8. \A i, j, k \in Int : i + (j + k) = j + (i + k)
    OBVIOUS
  <2> QED BY <1>0, <2>4, <2>7, <2>8
<1>3. T \in Good
  <2> HIDE DEF Good
  <2> QED BY <1>1, <1>2, AddInduction
<1> QED BY <1>3

\* Sums of amounts that are not negative grow with the set.
LEMMA SumNat ==
  ASSUME NEW f, NEW S, IsFiniteSet(S), \A x \in S : f[x] \in Nat
  PROVE  SumFunctionOnSet(f, S) \in Nat
<1> DEFINE Good == {T \in SUBSET S : SumFunctionOnSet(f, T) \in Nat}
<1>1. {} \in Good
  BY SumEmpty
<1>2. ASSUME NEW T \in SUBSET S, NEW x \in S \ T, T \in Good
      PROVE  T \cup {x} \in Good
  BY <1>2, FS_Subset, SumAdd
<1>3. S \in Good
  <2> HIDE DEF Good
  <2> QED BY <1>1, <1>2, AddInduction
<1> QED BY <1>3

\* With no negative amount, a sum over more elements is no less.
LEMMA SumGrows ==
  ASSUME NEW f, NEW S, NEW T, IsFiniteSet(T), S \subseteq T, \A x \in T : f[x] \in Nat
  PROVE  SumFunctionOnSet(f, S) <= SumFunctionOnSet(f, T)
<1>1. IsFiniteSet(S) /\ IsFiniteSet(T \ S) /\ T = S \cup (T \ S)
  BY FS_Subset
<1>2. SumFunctionOnSet(f, T)
        = SumFunctionOnSet(f, S) + SumFunctionOnSet(f, T \ S)
  BY <1>1, SumUnion
<1>3. SumFunctionOnSet(f, S) \in Nat /\ SumFunctionOnSet(f, T \ S) \in Nat
  BY <1>1, SumNat
<1> QED BY <1>2, <1>3

\* Equal amounts
LEMMA SumConstant ==
  ASSUME NEW f, NEW S, IsFiniteSet(S), NEW c \in Int, \A x \in S : f[x] = c
  PROVE  SumFunctionOnSet(f, S) = c * Cardinality(S)
<1> DEFINE Good == {T \in SUBSET S : SumFunctionOnSet(f, T) = c * Cardinality(T)}
<1>1. {} \in Good
  BY SumEmpty, FS_EmptySet
<1>2. ASSUME NEW T \in SUBSET S, NEW x \in S \ T, T \in Good
      PROVE  T \cup {x} \in Good
  <2>1. IsFiniteSet(T) /\ Cardinality(T) \in Nat
    BY FS_Subset, FS_CardinalityType
  <2>2. Cardinality(T \cup {x}) = Cardinality(T) + 1
    BY <2>1, FS_AddElement
  <2>3. SumFunctionOnSet(f, T \cup {x}) = c + SumFunctionOnSet(f, T)
    BY <2>1, SumAdd
  <2>4. c + c * Cardinality(T) = c * (Cardinality(T) + 1)
    BY <2>1
  <2> QED BY <1>2, <2>2, <2>3, <2>4
<1>3. S \in Good
  <2> HIDE DEF Good
  <2> QED BY <1>1, <1>2, AddInduction
<1> QED BY <1>3

\* GROUP BY: the sums of the groups add up to the whole.
LEMMA SumGroups ==
  ASSUME NEW f, NEW S, IsFiniteSet(S), \A x \in S : f[x] \in Int, NEW key, NEW h,
         \A x \in S : h[key[x]] = SumFunctionOnSet(f, {y \in S : key[y] = key[x]})
  PROVE  SumFunctionOnSet(h, {key[x] : x \in S}) = SumFunctionOnSet(f, S)
<1> DEFINE Of(T) == {x \in S : key[x] \in T}
           Keys == {key[x] : x \in S}
           Good == {T \in SUBSET Keys :
                      SumFunctionOnSet(h, T) = SumFunctionOnSet(f, Of(T))}
<1>0. IsFiniteSet(Keys)
  <2> DEFINE k == [x \in S |-> key[x]]
  <2>1. k \in Surjection(S, Keys)
    BY DEF Surjection
  <2> HIDE DEF k, Keys
  <2> QED BY <2>1, FS_Surjection
<1>1. {} \in Good
  <2>1. Of({}) = {}
    OBVIOUS
  <2> QED BY <2>1, SumEmpty
<1>2. ASSUME NEW T \in SUBSET Keys, NEW g \in Keys \ T, T \in Good
      PROVE  T \cup {g} \in Good
  <2> DEFINE G == {x \in S : key[x] = g}
  <2>1. IsFiniteSet(T) /\ IsFiniteSet(Of(T)) /\ IsFiniteSet(G)
    BY <1>0, FS_Subset
  <2>2. h[g] = SumFunctionOnSet(f, G)
    OBVIOUS
  <2>3. \A k \in Keys : h[k] \in Int
    <3> SUFFICES ASSUME NEW x \in S PROVE h[key[x]] \in Int
      OBVIOUS
    <3> DEFINE Same == {y \in S : key[y] = key[x]}
    <3>1. IsFiniteSet(Same) /\ \A y \in Same : f[y] \in Int
      BY FS_Subset
    <3>2. h[key[x]] = SumFunctionOnSet(f, Same)
      OBVIOUS
    <3> HIDE DEF Same
    <3> QED BY <3>1, <3>2, SumInt
  <2>4. SumFunctionOnSet(h, T \cup {g}) = h[g] + SumFunctionOnSet(h, T)
    BY <2>1, <2>3, SumAdd
  <2>5. Of(T \cup {g}) = G \cup Of(T) /\ G \cap Of(T) = {}
    OBVIOUS
  <2>6. SumFunctionOnSet(f, Of(T \cup {g}))
          = SumFunctionOnSet(f, G) + SumFunctionOnSet(f, Of(T))
    BY <2>1, <2>5, SumUnion
  <2>7. SumFunctionOnSet(h, T) = SumFunctionOnSet(f, Of(T))
    BY <1>2
  <2>8. SumFunctionOnSet(h, T \cup {g}) = SumFunctionOnSet(f, Of(T \cup {g}))
    BY <2>2, <2>4, <2>6, <2>7
  <2> QED BY <2>8
<1>3. Keys \in Good
  <2> HIDE DEF Good, Keys
  <2> QED BY <1>0, <1>1, <1>2, AddInduction
<1>4. Of(Keys) = S
  OBVIOUS
<1> QED BY <1>3, <1>4
=============================================================================
