----------------------------- MODULE SumTheorems -----------------------------
(***************************************************************************)
(* Facts about sums over finite sets.  The models add up with the folds of *)
(* the community modules, which choose the order of the summands by a      *)
(* recursive function on subsets; here it is shown that this function      *)
(* exists and that the order does not matter.  Every induction is over a   *)
(* set of sets: what is claimed of all subsets of a finite set holds       *)
(* because a smallest subset without it would have a smaller one.          *)
(***************************************************************************)
EXTENDS FiniteSetsExt, Functions, FiniteSetTheorems, TLAPS

-----------------------------------------------------------------------------
(* Induction over sets of numbers and over sets of finite sets *)

\* A set of numbers that has 0, and with each number the next, has all of them
LEMMA NaturalsInSet ==
    ASSUME NEW F, 0 \in F, \A n \in Nat : n \in F => n + 1 \in F
    PROVE  Nat \subseteq F
  <1> SUFFICES ASSUME Nat \ F # {}
               PROVE  FALSE
    OBVIOUS
  <1> DEFINE R == OpToRel(<, Nat)
  <1>1. IsWellFoundedOn(R, Nat)
    BY NatLessThanWellFounded
  <1> HIDE DEF R
  <1>2. PICK n \in Nat \ F : \A m \in Nat \ F : <<m, n>> \notin R
    BY <1>1, WFMin
  <1>3. n - 1 \in Nat /\ n - 1 < n
    BY <1>2
  <1>4. <<n - 1, n>> \in R
    BY <1>2, <1>3 DEF R, OpToRel
  <1> QED
    BY <1>2, <1>3, <1>4

\* A set of sets that has {}, and each part of a finite set S all of whose parts
\* with one element less it has, has all parts of S
LEMMA PartsInSet ==
    ASSUME NEW S, IsFiniteSet(S), NEW F, {} \in F,
           \A T \in SUBSET S : T # {} /\ (\A x \in T : T \ {x} \in F) => T \in F
    PROVE  \A T \in SUBSET S : T \in F
  <1> SUFFICES ASSUME (SUBSET S) \ F # {}
               PROVE  FALSE
    OBVIOUS
  <1> DEFINE R == StrictSubsetOrdering(S)
  <1>1. IsWellFoundedOn(R, SUBSET S)
    BY FS_StrictSubsetOrderingWellFounded, FS_FiniteSubsetsOfFinite
  <1>2. (SUBSET S) \ F \subseteq SUBSET S
    OBVIOUS
  <1> HIDE DEF R
  <1>3. PICK T \in (SUBSET S) \ F : \A U \in (SUBSET S) \ F : <<U, T>> \notin R
    BY <1>1, <1>2, WFMin
  <1>4. ASSUME NEW x \in T
        PROVE  T \ {x} \in F
    <2>1. <<T \ {x}, T>> \in R
      BY <1>3 DEF R, StrictSubsetOrdering
    <2> QED
      BY <1>3, <2>1
  <1> QED
    BY <1>3, <1>4

-----------------------------------------------------------------------------
(* The sum of a function on a finite set, in the order the fold takes *)

Picked(s) == CHOOSE x \in s : TRUE

\* What the sum of a part of S is, by the sum of that part without one element
Entry(f, sum, s) == IF s = {} THEN 0 ELSE f[Picked(s)] + sum[s \ {Picked(s)}]

SumTable(f, S) == CHOOSE sum : sum = [s \in SUBSET S |-> Entry(f, sum, s)]

\* The fold reads its result off that table
LEMMA SumIsTableEntry ==
    ASSUME NEW f, NEW S
    PROVE  SumFunctionOnSet(f, S) = SumTable(f, S)[S]
  BY DEF SumFunctionOnSet, FoldFunctionOnSet, MapThenFoldSet, SumTable, Entry, Picked

\* The parts of S with n elements at most
SmallParts(S, n) == {s \in SUBSET S : Cardinality(s) <= n}

\* The table exists: it can be filled in by the size of the parts
LEMMA TableExists ==
    ASSUME NEW f, NEW S, IsFiniteSet(S)
    PROVE  \E sum : sum = [s \in SUBSET S |-> Entry(f, sum, s)]
  <1> DEFINE F == {n \in Nat : \E sum : sum = [s \in SmallParts(S, n) |-> Entry(f, sum, s)]}
  <1>1. \A s \in SUBSET S : IsFiniteSet(s) /\ Cardinality(s) \in Nat
    BY FS_Subset, FS_CardinalityType
  <1>2. ASSUME NEW s \in SUBSET S, s # {}
        PROVE  /\ Picked(s) \in s /\ s \ {Picked(s)} \in SUBSET S
               /\ Cardinality(s \ {Picked(s)}) = Cardinality(s) - 1
    <2>1. Picked(s) \in s
      BY <1>2 DEF Picked
    <2> QED
      BY <1>1, <2>1, FS_RemoveElement
  <1>3. 0 \in F
    <2> DEFINE sum == [s \in SmallParts(S, 0) |-> 0]
    <2>1. \A s \in SmallParts(S, 0) : s = {}
      BY <1>1, FS_EmptySet DEF SmallParts
    <2>2. sum = [s \in SmallParts(S, 0) |-> Entry(f, sum, s)]
      BY <2>1 DEF Entry
    <2> QED
      BY <2>2
  <1>4. ASSUME NEW n \in Nat, n \in F
        PROVE  n + 1 \in F
    <2>1. PICK sum : sum = [s \in SmallParts(S, n) |-> Entry(f, sum, s)]
      BY <1>4
    <2> DEFINE next == [s \in SmallParts(S, n + 1) |-> Entry(f, sum, s)]
    <2>2. ASSUME NEW s \in SmallParts(S, n + 1), s # {}
          PROVE  /\ s \ {Picked(s)} \in SmallParts(S, n)
                 /\ s \ {Picked(s)} \in SmallParts(S, n + 1)
      BY <1>1, <1>2, <2>2 DEF SmallParts
    <2>3. \A s \in SmallParts(S, n) : s \in SmallParts(S, n + 1) /\ next[s] = sum[s]
      <3>1. SmallParts(S, n) \subseteq SmallParts(S, n + 1)
        BY <1>1 DEF SmallParts
      <3>2. ASSUME NEW s \in SmallParts(S, n)
            PROVE  next[s] = sum[s]
        <4>1. sum[s] = Entry(f, sum, s)
          BY <2>1, Zenon
        <4> QED
          BY <3>1, <4>1
      <3> QED
        BY <3>1, <3>2
    <2>4. \A s \in SmallParts(S, n + 1) : Entry(f, sum, s) = Entry(f, next, s)
      BY <2>2, <2>3 DEF Entry
    <2>5. next = [s \in SmallParts(S, n + 1) |-> Entry(f, next, s)]
      BY <2>4
    <2> HIDE DEF next
    <2>6. \E table : table = [s \in SmallParts(S, n + 1) |-> Entry(f, table, s)]
      BY <2>5, Zenon
    <2> QED
      BY <2>6, n + 1 \in Nat
  <1>5. Cardinality(S) \in F
    <2> HIDE DEF F
    <2> QED
      BY <1>1, <1>3, <1>4, NaturalsInSet
  <1>6. SmallParts(S, Cardinality(S)) = SUBSET S
    BY FS_Subset DEF SmallParts
  <1> QED
    BY <1>5, <1>6

\* What has the entries of the table has the sums of all parts of S
LEMMA TableHoldsSums ==
    ASSUME NEW f, NEW S, IsFiniteSet(S), NEW table,
           table = [s \in SUBSET S |-> Entry(f, table, s)]
    PROVE  \A T \in SUBSET S : table[T] = SumFunctionOnSet(f, T)
  <1> SUFFICES ASSUME NEW T \in SUBSET S
               PROVE  table[T] = SumFunctionOnSet(f, T)
    OBVIOUS
  <1>1. IsFiniteSet(T)
    BY FS_Subset
  <1>2. PICK own : own = SumTable(f, T)
    OBVIOUS
  <1>3. own = [s \in SUBSET T |-> Entry(f, own, s)]
    BY <1>1, <1>2, TableExists, Zenon DEF SumTable
  <1>4. \A U \in SUBSET T : own[U] = Entry(f, own, U)
    BY <1>3, Zenon
  <1>5. \A U \in SUBSET T : table[U] = Entry(f, table, U)
    <2>1. \A U \in SUBSET S : table[U] = Entry(f, table, U)
      BY Zenon
    <2> QED
      BY <2>1
  <1> DEFINE F == {U \in SUBSET T : table[U] = own[U]}
  <1>6. {} \in F
    BY <1>4, <1>5 DEF Entry
  <1>7. ASSUME NEW U \in SUBSET T, U # {}, \A x \in U : U \ {x} \in F
        PROVE  U \in F
    <2>1. Picked(U) \in U
      BY <1>7 DEF Picked
    <2>2. table[U \ {Picked(U)}] = own[U \ {Picked(U)}]
      BY <1>7, <2>1
    <2> QED
      BY <1>4, <1>5, <2>2 DEF Entry
  <1> HIDE DEF F
  <1>8. T \in F
    BY <1>1, <1>6, <1>7, PartsInSet
  <1> QED
    BY <1>2, <1>8, SumIsTableEntry DEF F

\* The empty sum
LEMMA SumEmpty ==
    ASSUME NEW f
    PROVE  SumFunctionOnSet(f, {}) = 0
  <1>1. IsFiniteSet({})
    BY FS_EmptySet
  <1>2. PICK table : table = SumTable(f, {})
    OBVIOUS
  <1>3. table = [s \in SUBSET {} |-> Entry(f, table, s)]
    BY <1>1, <1>2, TableExists, Zenon DEF SumTable
  <1>4. table[{}] = Entry(f, table, {})
    BY <1>3
  <1> QED
    BY <1>2, <1>4, SumIsTableEntry DEF Entry

\* The sum of a set by the sum without the element that is picked
LEMMA SumPicked ==
    ASSUME NEW f, NEW S, IsFiniteSet(S), S # {}
    PROVE  SumFunctionOnSet(f, S) = f[Picked(S)] + SumFunctionOnSet(f, S \ {Picked(S)})
  <1>1. PICK table : table = SumTable(f, S)
    OBVIOUS
  <1>2. table = [s \in SUBSET S |-> Entry(f, table, s)]
    BY <1>1, TableExists, Zenon DEF SumTable
  <1>3. \A T \in SUBSET S : table[T] = SumFunctionOnSet(f, T)
    BY <1>2, TableHoldsSums
  <1>4. table[S] = Entry(f, table, S)
    BY <1>2, S \in SUBSET S, Zenon
  <1> QED
    BY <1>3, <1>4 DEF Entry

-----------------------------------------------------------------------------
(* The order of the summands does not matter *)

\* A sum of natural numbers is one
LEMMA SumInNat ==
    ASSUME NEW f, NEW S, IsFiniteSet(S), \A x \in S : f[x] \in Nat
    PROVE  SumFunctionOnSet(f, S) \in Nat
  <1> DEFINE F == {T \in SUBSET S : SumFunctionOnSet(f, T) \in Nat}
  <1>1. {} \in F
    BY SumEmpty
  <1>2. ASSUME NEW T \in SUBSET S, T # {}, \A x \in T : T \ {x} \in F
        PROVE  T \in F
    <2>1. Picked(T) \in T
      BY <1>2 DEF Picked
    <2>2. SumFunctionOnSet(f, T) = f[Picked(T)] + SumFunctionOnSet(f, T \ {Picked(T)})
      BY <1>2, FS_Subset, SumPicked
    <2> QED
      BY <1>2, <2>1, <2>2
  <1> HIDE DEF F
  <1>3. \A T \in SUBSET S : T \in F
    BY <1>1, <1>2, PartsInSet
  <1> QED
    BY <1>3 DEF F

\* Any summand can be taken out of the sum
LEMMA SumSplits ==
    ASSUME NEW f, NEW S, IsFiniteSet(S), \A x \in S : f[x] \in Nat
    PROVE  \A x \in S : SumFunctionOnSet(f, S) = f[x] + SumFunctionOnSet(f, S \ {x})
  <1> DEFINE Total(T) == SumFunctionOnSet(f, T)
             F == {T \in SUBSET S : \A x \in T : Total(T) = f[x] + Total(T \ {x})}
  <1>1. {} \in F
    OBVIOUS
  <1>2. \A T \in SUBSET S : IsFiniteSet(T) /\ Total(T) \in Nat
    BY FS_Subset, SumInNat
  <1>3. ASSUME NEW T \in SUBSET S, T # {}, \A x \in T : T \ {x} \in F
        PROVE  T \in F
    <2>1. PICK p : p = Picked(T)
      OBVIOUS
    <2>2. p \in T
      BY <1>3, <2>1 DEF Picked
    <2>3. Total(T) = f[p] + Total(T \ {p})
      BY <1>2, <1>3, <2>1, SumPicked
    <2> HIDE DEF Total
    <2>4. ASSUME NEW x \in T, x # p
          PROVE  Total(T) = f[x] + Total(T \ {x})
      <3>1. p \in T \ {x} /\ x \in T \ {p} /\ (T \ {x}) \ {p} = (T \ {p}) \ {x}
        BY <2>2, <2>4
      <3>2. Total(T \ {p}) = f[x] + Total((T \ {p}) \ {x})
        BY <1>3, <2>2, <3>1
      <3>3. Total(T \ {x}) = f[p] + Total((T \ {x}) \ {p})
        BY <1>3, <3>1
      <3>4. Total((T \ {p}) \ {x}) \in Nat
        BY <1>2
      <3> QED
        BY <2>2, <2>3, <3>1, <3>2, <3>3, <3>4
    <2> QED
      BY <2>2, <2>3, <2>4
  <1> HIDE DEF F
  <1>4. \A T \in SUBSET S : T \in F
    BY <1>1, <1>3, PartsInSet
  <1> QED
    BY <1>4 DEF F

\* One summand more
LEMMA SumAdds ==
    ASSUME NEW f, NEW S, IsFiniteSet(S), NEW a, a \notin S,
           \A x \in S \cup {a} : f[x] \in Nat
    PROVE  SumFunctionOnSet(f, S \cup {a}) = f[a] + SumFunctionOnSet(f, S)
  <1>1. IsFiniteSet(S \cup {a}) /\ (S \cup {a}) \ {a} = S
    BY FS_AddElement
  <1> QED
    BY <1>1, SumSplits
-----------------------------------------------------------------------------
(* Sums compared *)

\* Summand by summand at most as large, the sum is at most as large
LEMMA SumMonotone ==
    ASSUME NEW f, NEW g, NEW S, IsFiniteSet(S),
           \A x \in S : f[x] \in Nat /\ g[x] \in Nat /\ f[x] <= g[x]
    PROVE  SumFunctionOnSet(f, S) <= SumFunctionOnSet(g, S)
  <1> DEFINE F == {T \in SUBSET S : SumFunctionOnSet(f, T) <= SumFunctionOnSet(g, T)}
  <1>1. {} \in F
    BY SumEmpty
  <1>2. ASSUME NEW T \in SUBSET S, T # {}, \A x \in T : T \ {x} \in F
        PROVE  T \in F
    <2>1. PICK x : x \in T
      BY <1>2
    <2>2. IsFiniteSet(T) /\ IsFiniteSet(T \ {x})
      BY FS_Subset
    <2>3. /\ SumFunctionOnSet(f, T) = f[x] + SumFunctionOnSet(f, T \ {x})
          /\ SumFunctionOnSet(g, T) = g[x] + SumFunctionOnSet(g, T \ {x})
      BY <2>1, <2>2, SumSplits
    <2>4. SumFunctionOnSet(f, T \ {x}) \in Nat /\ SumFunctionOnSet(g, T \ {x}) \in Nat
      BY <2>2, SumInNat
    <2>5. SumFunctionOnSet(f, T \ {x}) <= SumFunctionOnSet(g, T \ {x})
      BY <1>2, <2>1
    <2>6. f[x] \in Nat /\ g[x] \in Nat /\ f[x] <= g[x]
      BY <2>1
    <2> QED
      BY <2>3, <2>4, <2>5, <2>6
  <1> HIDE DEF F
  <1>3. \A T \in SUBSET S : T \in F
    BY <1>1, <1>2, PartsInSet
  <1> QED
    BY <1>3 DEF F

\* Equal summands have equal sums
LEMMA SumEqual ==
    ASSUME NEW f, NEW g, NEW S, IsFiniteSet(S), \A x \in S : f[x] \in Nat /\ f[x] = g[x]
    PROVE  SumFunctionOnSet(f, S) = SumFunctionOnSet(g, S)
  <1>1. SumFunctionOnSet(f, S) <= SumFunctionOnSet(g, S)
    BY SumMonotone
  <1>2. SumFunctionOnSet(g, S) <= SumFunctionOnSet(f, S)
    BY SumMonotone
  <1>3. SumFunctionOnSet(f, S) \in Nat /\ SumFunctionOnSet(g, S) \in Nat
    BY SumInNat
  <1> QED
    BY <1>1, <1>2, <1>3

\* The sum of sums is the sum, summand by summand
LEMMA SumOfSums ==
    ASSUME NEW f, NEW g, NEW h, NEW S, IsFiniteSet(S),
           \A x \in S : f[x] \in Nat /\ g[x] \in Nat /\ h[x] = f[x] + g[x]
    PROVE  SumFunctionOnSet(h, S) = SumFunctionOnSet(f, S) + SumFunctionOnSet(g, S)
  <1> DEFINE F == {T \in SUBSET S : SumFunctionOnSet(h, T) =
                                    SumFunctionOnSet(f, T) + SumFunctionOnSet(g, T)}
  <1>1. {} \in F
    BY SumEmpty
  <1>2. ASSUME NEW T \in SUBSET S, T # {}, \A x \in T : T \ {x} \in F
        PROVE  T \in F
    <2>1. PICK x : x \in T
      BY <1>2
    <2>2. IsFiniteSet(T) /\ IsFiniteSet(T \ {x})
      BY FS_Subset
    <2>3. \A y \in T : h[y] \in Nat
      OBVIOUS
    <2>4. /\ SumFunctionOnSet(f, T) = f[x] + SumFunctionOnSet(f, T \ {x})
          /\ SumFunctionOnSet(g, T) = g[x] + SumFunctionOnSet(g, T \ {x})
      BY <2>1, <2>2, SumSplits
    <2>5. SumFunctionOnSet(h, T) = h[x] + SumFunctionOnSet(h, T \ {x})
      BY <2>1, <2>2, <2>3, SumSplits
    <2>6. SumFunctionOnSet(f, T \ {x}) \in Nat /\ SumFunctionOnSet(g, T \ {x}) \in Nat
      BY <2>2, SumInNat
    <2>7. SumFunctionOnSet(h, T \ {x}) =
              SumFunctionOnSet(f, T \ {x}) + SumFunctionOnSet(g, T \ {x})
      BY <1>2, <2>1
    <2>8. f[x] \in Nat /\ g[x] \in Nat /\ h[x] = f[x] + g[x]
      BY <2>1
    <2> QED
      BY <2>4, <2>5, <2>6, <2>7, <2>8
  <1> HIDE DEF F
  <1>3. \A T \in SUBSET S : T \in F
    BY <1>1, <1>2, PartsInSet
  <1> QED
    BY <1>3 DEF F

\* The sum over two sets without a common element
LEMMA SumDisjoint ==
    ASSUME NEW f, NEW S, IsFiniteSet(S), NEW U, IsFiniteSet(U), S \cap U = {},
           \A x \in S \cup U : f[x] \in Nat
    PROVE  SumFunctionOnSet(f, S \cup U) = SumFunctionOnSet(f, S) + SumFunctionOnSet(f, U)
  <1> DEFINE F == {T \in SUBSET U : SumFunctionOnSet(f, S \cup T) =
                                    SumFunctionOnSet(f, S) + SumFunctionOnSet(f, T)}
  <1>0. SumFunctionOnSet(f, S) \in Nat
    BY SumInNat
  <1>1. {} \in F
    BY <1>0, SumEmpty, S \cup {} = S
  <1>2. ASSUME NEW T \in SUBSET U, T # {}, \A x \in T : T \ {x} \in F
        PROVE  T \in F
    <2>1. PICK x : x \in T
      BY <1>2
    <2>2. IsFiniteSet(T) /\ IsFiniteSet(T \ {x}) /\ IsFiniteSet(S \cup T)
      BY FS_Subset, FS_Union
    <2>3. SumFunctionOnSet(f, T) = f[x] + SumFunctionOnSet(f, T \ {x})
      BY <2>1, <2>2, SumSplits
    <2>4. (S \cup T) \ {x} = S \cup (T \ {x}) /\ x \in S \cup T
      BY <2>1
    <2>5. SumFunctionOnSet(f, S \cup T) = f[x] + SumFunctionOnSet(f, (S \cup T) \ {x})
      BY <2>2, <2>4, SumSplits
    <2>6. SumFunctionOnSet(f, T \ {x}) \in Nat
      BY <2>2, SumInNat
    <2>7. SumFunctionOnSet(f, S \cup (T \ {x})) =
              SumFunctionOnSet(f, S) + SumFunctionOnSet(f, T \ {x})
      BY <1>2, <2>1
    <2>8. f[x] \in Nat
      BY <2>1
    <2> QED
      BY <1>0, <2>3, <2>4, <2>5, <2>6, <2>7, <2>8
  <1> HIDE DEF F
  <1>3. \A T \in SUBSET U : T \in F
    BY <1>1, <1>2, PartsInSet
  <1> QED
    BY <1>3 DEF F

\* A part has at most the sum of the whole
LEMMA SumOfPart ==
    ASSUME NEW f, NEW S, IsFiniteSet(S), NEW T \in SUBSET S, \A x \in S : f[x] \in Nat
    PROVE  SumFunctionOnSet(f, T) <= SumFunctionOnSet(f, S)
  <1>1. IsFiniteSet(T) /\ IsFiniteSet(S \ T) /\ T \cap (S \ T) = {} /\ T \cup (S \ T) = S
    BY FS_Subset
  <1>2. SumFunctionOnSet(f, S) = SumFunctionOnSet(f, T) + SumFunctionOnSet(f, S \ T)
    BY <1>1, SumDisjoint
  <1>3. SumFunctionOnSet(f, T) \in Nat /\ SumFunctionOnSet(f, S \ T) \in Nat
    BY <1>1, SumInNat
  <1> QED
    BY <1>2, <1>3

\* Summands of at most b each
LEMMA SumBound ==
    ASSUME NEW f, NEW S, IsFiniteSet(S), NEW b \in Nat, \A x \in S : f[x] \in 0..b
    PROVE  SumFunctionOnSet(f, S) <= Cardinality(S) * b
  <1> DEFINE F == {T \in SUBSET S : SumFunctionOnSet(f, T) <= Cardinality(T) * b}
  <1>1. {} \in F
    BY SumEmpty, FS_EmptySet
  <1>2. ASSUME NEW T \in SUBSET S, T # {}, \A x \in T : T \ {x} \in F
        PROVE  T \in F
    <2>1. PICK x : x \in T
      BY <1>2
    <2>2. IsFiniteSet(T) /\ IsFiniteSet(T \ {x})
      BY FS_Subset
    <2>3. SumFunctionOnSet(f, T) = f[x] + SumFunctionOnSet(f, T \ {x})
      BY <2>1, <2>2, SumSplits
    <2>4. PICK n : n = Cardinality(T \ {x})
      OBVIOUS
    <2>5. n \in Nat /\ Cardinality(T) = n + 1
      BY <2>1, <2>2, <2>4, FS_CardinalityType, FS_RemoveElement
    <2>6. SumFunctionOnSet(f, T \ {x}) \in Nat /\ SumFunctionOnSet(f, T \ {x}) <= n * b
      BY <1>2, <2>1, <2>2, <2>4, SumInNat
    <2>7. f[x] \in Nat /\ f[x] <= b
      BY <2>1
    <2>8. (n + 1) * b = n * b + b /\ n * b \in Nat
      BY <2>5
    <2> QED
      BY <2>3, <2>5, <2>6, <2>7, <2>8
  <1> HIDE DEF F
  <1>3. \A T \in SUBSET S : T \in F
    BY <1>1, <1>2, PartsInSet
  <1> QED
    BY <1>3 DEF F
-----------------------------------------------------------------------------
(* Sums of sums *)

\* Numbers in rows and columns: the column sums and the row sums have one sum
LEMMA SumExchange ==
    ASSUME NEW A, IsFiniteSet(A), NEW K, IsFiniteSet(K), NEW m,
           \A k \in K : \A a \in A : m[k][a] \in Nat
    PROVE  SumFunctionOnSet([a \in A |-> SumFunctionOnSet([k \in K |-> m[k][a]], K)], A)
               = SumFunctionOnSet([k \in K |-> SumFunctionOnSet(m[k], A)], K)
  <1> DEFINE Column(a) == [k \in K |-> m[k][a]]
             Columns(T) == [a \in A |-> SumFunctionOnSet(Column(a), T)]
             rows == [k \in K |-> SumFunctionOnSet(m[k], A)]
             F == {T \in SUBSET K : SumFunctionOnSet(Columns(T), A) = SumFunctionOnSet(rows, T)}
  <1>1. \A T \in SUBSET K : \A a \in A : SumFunctionOnSet(Column(a), T) \in Nat
    <2> SUFFICES ASSUME NEW T \in SUBSET K, NEW a \in A
                 PROVE  SumFunctionOnSet(Column(a), T) \in Nat
      OBVIOUS
    <2>1. IsFiniteSet(T)
      BY FS_Subset
    <2>2. \A k \in T : Column(a)[k] \in Nat
      OBVIOUS
    <2> HIDE DEF Column
    <2> QED
      BY <2>1, <2>2, SumInNat
  <1>2. \A k \in K : rows[k] \in Nat /\ rows[k] = SumFunctionOnSet(m[k], A)
    BY SumInNat
  <1>3. {} \in F
    <2>1. \A a \in A : Columns({})[a] = 0
      BY SumEmpty
    <2> HIDE DEF Columns
    <2>2. SumFunctionOnSet(Columns({}), A) <= Cardinality(A) * 0
      BY <2>1, SumBound
    <2>3. SumFunctionOnSet(Columns({}), A) \in Nat
      BY <2>1, SumInNat
    <2>4. Cardinality(A) * 0 = 0
      BY FS_CardinalityType
    <2> QED
      BY <2>2, <2>3, <2>4, SumEmpty
  <1>4. ASSUME NEW T \in SUBSET K, T # {}, \A k \in T : T \ {k} \in F
        PROVE  T \in F
    <2>1. PICK k : k \in T
      BY <1>4
    <2>2. IsFiniteSet(T) /\ T \ {k} \in SUBSET K
      BY FS_Subset
    <2>3. ASSUME NEW a \in A
          PROVE  SumFunctionOnSet(Column(a), T) =
                     m[k][a] + SumFunctionOnSet(Column(a), T \ {k})
      <3>1. \A j \in T : Column(a)[j] \in Nat
        OBVIOUS
      <3>2. Column(a)[k] = m[k][a]
        BY <2>1
      <3> HIDE DEF Column
      <3> QED
        BY <2>1, <2>2, <3>1, <3>2, SumSplits
    <2>4. \A a \in A : /\ m[k][a] \in Nat /\ Columns(T \ {k})[a] \in Nat
                       /\ Columns(T)[a] = m[k][a] + Columns(T \ {k})[a]
      <3> HIDE DEF Column
      <3> QED
        BY <1>1, <2>1, <2>2, <2>3
    <2>5. SumFunctionOnSet(rows, T) = rows[k] + SumFunctionOnSet(rows, T \ {k})
      <3> HIDE DEF rows
      <3> QED
        BY <1>2, <2>1, <2>2, SumSplits
    <2> HIDE DEF Columns, rows
    <2>6. SumFunctionOnSet(Columns(T), A) =
              SumFunctionOnSet(m[k], A) + SumFunctionOnSet(Columns(T \ {k}), A)
      <3>1. PICK f, g, h : f = m[k] /\ g = Columns(T \ {k}) /\ h = Columns(T)
        OBVIOUS
      <3>2. \A a \in A : f[a] \in Nat /\ g[a] \in Nat /\ h[a] = f[a] + g[a]
        BY <2>4, <3>1
      <3>3. SumFunctionOnSet(h, A) = SumFunctionOnSet(f, A) + SumFunctionOnSet(g, A)
        BY <3>2, SumOfSums
      <3> QED
        BY <3>1, <3>3
    <2>7. SumFunctionOnSet(Columns(T \ {k}), A) = SumFunctionOnSet(rows, T \ {k})
      BY <1>4, <2>1
    <2> QED
      BY <1>2, <2>1, <2>5, <2>6, <2>7
  <1> HIDE DEF F
  <1>5. \A T \in SUBSET K : T \in F
    BY <1>3, <1>4, PartsInSet
  <1> QED
    BY <1>5 DEF F

\* The parts with the given keys, put together
Joined(P, T) == UNION {P[k] : k \in T}

\* The sum over disjoint parts is the sum of the parts' sums
LEMMA SumOfParts ==
    ASSUME NEW f, NEW K, IsFiniteSet(K), NEW P, NEW U, IsFiniteSet(U),
           \A k \in K : P[k] \subseteq U,
           \A j, k \in K : j # k => P[j] \cap P[k] = {},
           \A x \in U : f[x] \in Nat
    PROVE  SumFunctionOnSet(f, Joined(P, K)) =
               SumFunctionOnSet([k \in K |-> SumFunctionOnSet(f, P[k])], K)
  <1> DEFINE sums == [k \in K |-> SumFunctionOnSet(f, P[k])]
             F == {T \in SUBSET K :
                      SumFunctionOnSet(f, Joined(P, T)) = SumFunctionOnSet(sums, T)}
  <1>1. \A T \in SUBSET U : IsFiniteSet(T) /\ SumFunctionOnSet(f, T) \in Nat
    BY FS_Subset, SumInNat
  <1>2. \A k \in K : sums[k] \in Nat /\ sums[k] = SumFunctionOnSet(f, P[k])
    BY <1>1
  <1> HIDE DEF sums
  <1>3. {} \in F
    BY SumEmpty DEF Joined
  <1>4. ASSUME NEW T \in SUBSET K, T # {}, \A k \in T : T \ {k} \in F
        PROVE  T \in F
    <2>1. PICK k : k \in T
      BY <1>4
    <2>2. PICK rest : rest = Joined(P, T \ {k})
      OBVIOUS
    <2>3. rest \in SUBSET U /\ P[k] \in SUBSET U
      BY <2>1, <2>2 DEF Joined
    <2>4. Joined(P, T) = P[k] \cup rest /\ P[k] \cap rest = {}
      BY <2>1, <2>2 DEF Joined
    <2>5. SumFunctionOnSet(f, Joined(P, T)) =
              SumFunctionOnSet(f, P[k]) + SumFunctionOnSet(f, rest)
      BY <1>1, <2>3, <2>4, SumDisjoint
    <2>6. SumFunctionOnSet(sums, T) = sums[k] + SumFunctionOnSet(sums, T \ {k})
      <3>1. IsFiniteSet(T)
        BY FS_Subset
      <3> QED
        BY <1>2, <2>1, <3>1, SumSplits
    <2>7. SumFunctionOnSet(f, rest) = SumFunctionOnSet(sums, T \ {k})
      BY <1>4, <2>1, <2>2
    <2> QED
      BY <1>2, <2>1, <2>5, <2>6, <2>7
  <1> HIDE DEF F
  <1>5. \A T \in SUBSET K : T \in F
    BY <1>3, <1>4, PartsInSet
  <1> QED
    BY <1>5 DEF F, sums

\* A sum of ones counts
LEMMA SumOfOnes ==
    ASSUME NEW f, NEW S, IsFiniteSet(S), \A x \in S : f[x] = 1
    PROVE  SumFunctionOnSet(f, S) = Cardinality(S)
  <1> DEFINE F == {T \in SUBSET S : SumFunctionOnSet(f, T) = Cardinality(T)}
  <1>1. {} \in F
    BY SumEmpty, FS_EmptySet
  <1>2. ASSUME NEW T \in SUBSET S, T # {}, \A x \in T : T \ {x} \in F
        PROVE  T \in F
    <2>1. PICK x : x \in T
      BY <1>2
    <2>2. IsFiniteSet(T)
      BY FS_Subset
    <2>3. SumFunctionOnSet(f, T) = f[x] + SumFunctionOnSet(f, T \ {x})
      BY <2>1, <2>2, SumSplits
    <2>4. Cardinality(T \ {x}) = Cardinality(T) - 1 /\ Cardinality(T) \in Nat
      BY <2>1, <2>2, FS_CardinalityType, FS_RemoveElement
    <2>5. SumFunctionOnSet(f, T \ {x}) = Cardinality(T \ {x})
      BY <1>2, <2>1
    <2> QED
      BY <2>1, <2>3, <2>4, <2>5
  <1> HIDE DEF F
  <1>3. \A T \in SUBSET S : T \in F
    BY <1>1, <1>2, PartsInSet
  <1> QED
    BY <1>3 DEF F

\* The size of a set of disjoint parts is the sum of their sizes
LEMMA SizeOfParts ==
    ASSUME NEW K, IsFiniteSet(K), NEW P, NEW U, IsFiniteSet(U),
           \A k \in K : P[k] \subseteq U,
           \A j, k \in K : j # k => P[j] \cap P[k] = {}
    PROVE  Cardinality(Joined(P, K)) =
               SumFunctionOnSet([k \in K |-> Cardinality(P[k])], K)
  <1>1. PICK one : one = [x \in U |-> 1]
    OBVIOUS
  <1>2. \A x \in U : one[x] = 1
    BY <1>1
  <1>3. \A T \in SUBSET U : IsFiniteSet(T) /\ Cardinality(T) = SumFunctionOnSet(one, T)
    BY <1>2, FS_Subset, SumOfOnes
  <1>4. Joined(P, K) \in SUBSET U
    BY DEF Joined
  <1>5. [k \in K |-> Cardinality(P[k])] = [k \in K |-> SumFunctionOnSet(one, P[k])]
    BY <1>3
  <1>6. SumFunctionOnSet(one, Joined(P, K)) =
            SumFunctionOnSet([k \in K |-> SumFunctionOnSet(one, P[k])], K)
    BY <1>2, SumOfParts
  <1> QED
    BY <1>3, <1>4, <1>5, <1>6
=============================================================================
