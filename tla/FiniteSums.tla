------------------------------- MODULE FiniteSums -------------------------------
(***************************************************************************)
(* Sums of a function over a finite set, as SumFunctionOnSet of the        *)
(* community modules defines them: by a recursive function on the subsets  *)
(* that takes out one chosen element at a time.                            *)
(*                                                                         *)
(* Activities, right hand sides and objective values of the models are     *)
(* such sums.  What is proved here is independent of the order in which    *)
(* the code adds up the terms, which is the order of the row's storage.    *)
(* Induction runs over the subsets of the set, stated with a set of good   *)
(* subsets instead of a predicate.                                         *)
(***************************************************************************)
EXTENDS Functions, FiniteSets, FiniteSetTheorems, WellFoundedInduction, TLAPS

(* A set is good if a subset of it is good whenever all smaller ones are.   *)
LEMMA SubsetInduction ==
  ASSUME NEW S, IsFiniteSet(S), NEW Good,
         \A T \in SUBSET S : (\A U \in SUBSET T : U # T => U \in Good) => T \in Good
  PROVE  S \in Good
<1> DEFINE Bad == (SUBSET S) \ Good
<1> SUFFICES ASSUME S \notin Good PROVE FALSE
  OBVIOUS
<1>1. IsWellFoundedOn(StrictSubsetOrdering(S), FiniteSubsetsOf(S))
  BY FS_StrictSubsetOrderingWellFounded
<1>2. FiniteSubsetsOf(S) = SUBSET S
  BY FS_FiniteSubsetsOfFinite
<1>3. Bad # {} /\ Bad \subseteq SUBSET S
  OBVIOUS
<1>4. PICK T \in Bad : \A U \in Bad : <<U, T>> \notin StrictSubsetOrdering(S)
  <2> HIDE DEF Bad
  <2> QED BY <1>1, <1>2, <1>3, WFMin
<1>5. \A U \in SUBSET T : U # T => U \in Good
  BY <1>4 DEF StrictSubsetOrdering
<1> QED BY <1>4, <1>5

-----------------------------------------------------------------------------
(* The recursive function behind a sum: its value on a subset s takes one   *)
(* element of s and the value on the others.                                *)
Pick(s) == CHOOSE x \in s : TRUE
Entry(g, f, s) == IF s = {} THEN 0 ELSE f[Pick(s)] + g[s \ {Pick(s)}]
Table(g, f, S) == g = [s \in SUBSET S |-> Entry(g, f, s)]
TheTable(f, S) == CHOOSE g : Table(g, f, S)

(* A sum is the value of that function on the whole set.                    *)
LEMMA SumTable ==
  ASSUME NEW f, NEW S
  PROVE  SumFunctionOnSet(f, S) = TheTable(f, S)[S]
BY DEF SumFunctionOnSet, FoldFunctionOnSet, MapThenFoldSet, TheTable, Table, Entry, Pick

(* The element taken is one of the set.                                     *)
LEMMA PickIn ==
  ASSUME NEW s, s # {}
  PROVE  Pick(s) \in s
BY DEF Pick

(* Two tables agree on every set that both cover.                           *)
LEMMA TableUnique ==
  ASSUME NEW f, NEW S, IsFiniteSet(S), NEW R, NEW Q, S \subseteq R, S \subseteq Q,
         NEW g, Table(g, f, R), NEW h, Table(h, f, Q)
  PROVE  g[S] = h[S]
<1> DEFINE Good == {T \in SUBSET S : g[T] = h[T]}
<1>1. ASSUME NEW T \in SUBSET S, \A U \in SUBSET T : U # T => U \in Good
      PROVE  T \in Good
  <2>1. g[T] = Entry(g, f, T) /\ h[T] = Entry(h, f, T)
    BY DEF Table
  <2>2. CASE T = {}
    BY <2>1, <2>2 DEF Entry
  <2>3. CASE T # {}
    <3>1. T \ {Pick(T)} \in Good
      BY <1>1, <2>3, PickIn
    <3> QED BY <2>1, <2>3, <3>1 DEF Entry
  <2> QED BY <2>2, <2>3
<1>2. S \in Good
  <2> HIDE DEF Good
  <2> QED BY <1>1, SubsetInduction
<1> QED BY <1>2

(* A table exists for every finite set.                                     *)
LEMMA TableExists ==
  ASSUME NEW f, NEW S, IsFiniteSet(S)
  PROVE  Table(TheTable(f, S), f, S)
<1> DEFINE Good == {T \in SUBSET S : \E g : Table(g, f, T)}
<1>1. ASSUME NEW T \in SUBSET S, \A U \in SUBSET T : U # T => U \in Good
      PROVE  T \in Good
  <2> DEFINE h == [s \in SUBSET T |-> Entry([u \in SUBSET T |-> TheTable(f, u)[u]], f, s)]
  <2>1. \A U \in SUBSET T : U # T => Table(TheTable(f, U), f, U)
    BY <1>1 DEF TheTable
  <2>2. ASSUME NEW U \in SUBSET T, U # T
        PROVE  h[U] = TheTable(f, U)[U]
    <3>1. h[U] = Entry([u \in SUBSET T |-> TheTable(f, u)[u]], f, U)
      OBVIOUS
    <3>2. TheTable(f, U)[U] = Entry(TheTable(f, U), f, U)
      BY <2>1, <2>2 DEF Table
    <3>3. CASE U = {}
      BY <3>1, <3>2, <3>3 DEF Entry
    <3>4. CASE U # {}
      <4> DEFINE V == U \ {Pick(U)}
      <4>1. V \in SUBSET T /\ V # T /\ V \subseteq U
        BY <3>4, PickIn
      <4>2. IsFiniteSet(V)
        BY <4>1, FS_Subset
      <4>3. TheTable(f, U)[V] = TheTable(f, V)[V]
        <5>1. Table(TheTable(f, U), f, U) /\ Table(TheTable(f, V), f, V)
          BY <2>1, <2>2, <4>1
        <5> HIDE DEF V
        <5> QED BY <4>1, <4>2, <5>1, TableUnique
      <4> QED BY <3>1, <3>2, <3>4, <4>1, <4>3 DEF Entry
    <3> QED BY <3>3, <3>4
  <2>3. ASSUME NEW U \in SUBSET T
        PROVE  h[U] = Entry(h, f, U)
    <3>1. h[U] = Entry([u \in SUBSET T |-> TheTable(f, u)[u]], f, U)
      OBVIOUS
    <3>2. CASE U = {}
      BY <3>1, <3>2 DEF Entry
    <3>3. CASE U # {}
      <4> DEFINE V == U \ {Pick(U)}
      <4>1. V \in SUBSET T /\ V # T
        BY <3>3, PickIn
      <4>2. h[V] = TheTable(f, V)[V]
        BY <2>2, <4>1
      <4> HIDE DEF h
      <4> QED BY <3>1, <3>3, <4>1, <4>2 DEF Entry
    <3> QED BY <3>2, <3>3
  <2>4. Table(h, f, T)
    <3>1. DOMAIN h = SUBSET T /\ h = [s \in SUBSET T |-> h[s]]
      OBVIOUS
    <3> HIDE DEF h
    <3> QED BY <2>3, <3>1 DEF Table
  <2> QED BY <2>4
<1>2. S \in Good
  <2> HIDE DEF Good
  <2> QED BY <1>1, SubsetInduction
<1> QED BY <1>2 DEF TheTable

-----------------------------------------------------------------------------
(* Facts about sums                                                         *)

(* A row without entries has the activity 0.                                *)
LEMMA SumEmpty ==
  ASSUME NEW f
  PROVE  SumFunctionOnSet(f, {}) = 0
<1>1. Table(TheTable(f, {}), f, {})
  BY TableExists, FS_EmptySet
<1>2. TheTable(f, {})[{}] = Entry(TheTable(f, {}), f, {})
  BY <1>1 DEF Table
<1> QED BY <1>2, SumTable DEF Entry

(* One step of the recursion.                                               *)
LEMMA SumPick ==
  ASSUME NEW f, NEW S, IsFiniteSet(S), S # {}
  PROVE  /\ Pick(S) \in S
         /\ SumFunctionOnSet(f, S) = f[Pick(S)] + SumFunctionOnSet(f, S \ {Pick(S)})
<1> DEFINE V == S \ {Pick(S)}
<1>1. Table(TheTable(f, S), f, S)
  BY TableExists
<1>2. TheTable(f, S)[S] = f[Pick(S)] + TheTable(f, S)[V]
  BY <1>1 DEF Table, Entry
<1>3. IsFiniteSet(V) /\ V \subseteq S
  BY FS_Subset
<1>4. TheTable(f, S)[V] = TheTable(f, V)[V]
  <2>1. Table(TheTable(f, V), f, V)
    BY <1>3, TableExists
  <2> HIDE DEF V
  <2> QED BY <1>1, <1>3, <2>1, TableUnique
<1> QED BY <1>2, <1>4, SumTable, PickIn

(* A sum of integers is an integer.                                         *)
LEMMA SumInt ==
  ASSUME NEW S, IsFiniteSet(S), NEW f, \A x \in S : f[x] \in Int
  PROVE  SumFunctionOnSet(f, S) \in Int
<1> DEFINE Good == {T \in SUBSET S : SumFunctionOnSet(f, T) \in Int}
<1>1. ASSUME NEW T \in SUBSET S, \A U \in SUBSET T : U # T => U \in Good
      PROVE  T \in Good
  <2>1. CASE T = {}
    BY <2>1, SumEmpty
  <2>2. CASE T # {}
    <3>1. IsFiniteSet(T)
      BY FS_Subset
    <3>2. /\ Pick(T) \in T
          /\ SumFunctionOnSet(f, T) = f[Pick(T)] + SumFunctionOnSet(f, T \ {Pick(T)})
      BY <2>2, <3>1, SumPick
    <3>3. SumFunctionOnSet(f, T \ {Pick(T)}) \in Int
      BY <1>1, <3>2
    <3> QED BY <3>2, <3>3
  <2> QED BY <2>1, <2>2
<1>2. S \in Good
  <2> HIDE DEF Good
  <2> QED BY <1>1, SubsetInduction
<1> QED BY <1>2

(* Any term can be taken out of a sum, not only the one chosen.             *)
LEMMA SumRemove ==
  ASSUME NEW S, IsFiniteSet(S), NEW f, \A x \in S : f[x] \in Int, NEW c \in S
  PROVE  SumFunctionOnSet(f, S) = f[c] + SumFunctionOnSet(f, S \ {c})
<1> DEFINE Good == {T \in SUBSET S : \A x \in T : SumFunctionOnSet(f, T) = f[x] + SumFunctionOnSet(f, T \ {x})}
<1>1. ASSUME NEW T \in SUBSET S, \A U \in SUBSET T : U # T => U \in Good
      PROVE  T \in Good
  <2> SUFFICES ASSUME NEW x \in T
               PROVE  SumFunctionOnSet(f, T) = f[x] + SumFunctionOnSet(f, T \ {x})
    OBVIOUS
  <2>1. IsFiniteSet(T)
    BY FS_Subset
  <2> DEFINE p == Pick(T)
  <2>2. p \in T /\ SumFunctionOnSet(f, T) = f[p] + SumFunctionOnSet(f, T \ {p})
    BY <2>1, SumPick
  <2> HIDE DEF p
  <2>3. CASE x = p
    BY <2>2, <2>3
  <2>4. CASE x # p
    <3> DEFINE rest == SumFunctionOnSet(f, (T \ {p}) \ {x})
    <3>1. x \in T \ {p} /\ p \in T \ {x}
      BY <2>2, <2>4
    <3>2. T \ {p} \in Good /\ T \ {x} \in Good
      BY <1>1, <2>2
    <3>3. SumFunctionOnSet(f, T \ {p}) = f[x] + SumFunctionOnSet(f, (T \ {p}) \ {x})
      BY <3>1, <3>2
    <3>4. SumFunctionOnSet(f, T \ {x}) = f[p] + SumFunctionOnSet(f, (T \ {x}) \ {p})
      BY <3>1, <3>2
    <3>5. (T \ {p}) \ {x} = (T \ {x}) \ {p}
      OBVIOUS
    <3>6. rest \in Int
      <4>1. IsFiniteSet((T \ {p}) \ {x})
        BY <2>1, FS_Subset
      <4> QED BY <4>1, SumInt
    <3>7. f[x] \in Int /\ f[p] \in Int
      BY <2>2
    <3>8. SumFunctionOnSet(f, T) = f[p] + (f[x] + rest)
      BY <2>2, <3>3
    <3>9. SumFunctionOnSet(f, T \ {x}) = f[p] + rest
      BY <3>4, <3>5
    <3> HIDE DEF rest
    <3> QED BY <3>6, <3>7, <3>8, <3>9
  <2> QED BY <2>3, <2>4
<1>2. S \in Good
  <2> HIDE DEF Good
  <2> QED BY <1>1, SubsetInduction
<1> QED BY <1>2

(* A sum depends on the terms only.                                         *)
LEMMA SumEqual ==
  ASSUME NEW S, IsFiniteSet(S), NEW f, NEW g, \A x \in S : f[x] = g[x]
  PROVE  SumFunctionOnSet(f, S) = SumFunctionOnSet(g, S)
<1> DEFINE Good == {T \in SUBSET S : SumFunctionOnSet(f, T) = SumFunctionOnSet(g, T)}
<1>1. ASSUME NEW T \in SUBSET S, \A U \in SUBSET T : U # T => U \in Good
      PROVE  T \in Good
  <2>1. CASE T = {}
    BY <2>1, SumEmpty
  <2>2. CASE T # {}
    <3>1. IsFiniteSet(T)
      BY FS_Subset
    <3> DEFINE p == Pick(T)
    <3>2. /\ p \in T
          /\ SumFunctionOnSet(f, T) = f[p] + SumFunctionOnSet(f, T \ {p})
          /\ SumFunctionOnSet(g, T) = g[p] + SumFunctionOnSet(g, T \ {p})
      BY <2>2, <3>1, SumPick
    <3> HIDE DEF p
    <3>3. T \ {p} \in Good
      BY <1>1, <3>2
    <3> QED BY <3>2, <3>3
  <2> QED BY <2>1, <2>2
<1>2. S \in Good
  <2> HIDE DEF Good
  <2> QED BY <1>1, SubsetInduction
<1> QED BY <1>2

(* A sum of larger terms is larger.                                         *)
LEMMA SumLeq ==
  ASSUME NEW S, IsFiniteSet(S), NEW f, NEW g,
         \A x \in S : f[x] \in Int /\ g[x] \in Int /\ f[x] <= g[x]
  PROVE  SumFunctionOnSet(f, S) <= SumFunctionOnSet(g, S)
<1> DEFINE Good == {T \in SUBSET S : SumFunctionOnSet(f, T) <= SumFunctionOnSet(g, T)}
<1>1. ASSUME NEW T \in SUBSET S, \A U \in SUBSET T : U # T => U \in Good
      PROVE  T \in Good
  <2>1. CASE T = {}
    BY <2>1, SumEmpty
  <2>2. CASE T # {}
    <3>1. IsFiniteSet(T)
      BY FS_Subset
    <3> DEFINE p == Pick(T)
    <3>2. /\ p \in T
          /\ SumFunctionOnSet(f, T) = f[p] + SumFunctionOnSet(f, T \ {p})
          /\ SumFunctionOnSet(g, T) = g[p] + SumFunctionOnSet(g, T \ {p})
      BY <2>2, <3>1, SumPick
    <3> HIDE DEF p
    <3>3. T \ {p} \in Good
      BY <1>1, <3>2
    <3>4. SumFunctionOnSet(f, T \ {p}) \in Int /\ SumFunctionOnSet(g, T \ {p}) \in Int
      <4>1. IsFiniteSet(T \ {p})
        BY <3>1, FS_Subset
      <4> QED BY <4>1, SumInt
    <3>5. f[p] \in Int /\ g[p] \in Int
      BY <3>2
    <3> QED BY <3>2, <3>3, <3>4, <3>5
  <2> QED BY <2>1, <2>2
<1>2. S \in Good
  <2> HIDE DEF Good
  <2> QED BY <1>1, SubsetInduction
<1> QED BY <1>2

(* The sum of the negated terms is the negated sum.                         *)
LEMMA SumNegated ==
  ASSUME NEW S, IsFiniteSet(S), NEW f, NEW g,
         \A x \in S : f[x] \in Int /\ g[x] = -f[x]
  PROVE  SumFunctionOnSet(g, S) = -SumFunctionOnSet(f, S)
<1> DEFINE Good == {T \in SUBSET S : SumFunctionOnSet(g, T) = -SumFunctionOnSet(f, T)}
<1>1. ASSUME NEW T \in SUBSET S, \A U \in SUBSET T : U # T => U \in Good
      PROVE  T \in Good
  <2>1. CASE T = {}
    BY <2>1, SumEmpty
  <2>2. CASE T # {}
    <3>1. IsFiniteSet(T)
      BY FS_Subset
    <3> DEFINE p == Pick(T)
    <3>2. /\ p \in T
          /\ SumFunctionOnSet(f, T) = f[p] + SumFunctionOnSet(f, T \ {p})
          /\ SumFunctionOnSet(g, T) = g[p] + SumFunctionOnSet(g, T \ {p})
      BY <2>2, <3>1, SumPick
    <3> HIDE DEF p
    <3>3. T \ {p} \in Good
      BY <1>1, <3>2
    <3>4. SumFunctionOnSet(f, T \ {p}) \in Int /\ SumFunctionOnSet(g, T \ {p}) \in Int
      <4>1. IsFiniteSet(T \ {p})
        BY <3>1, FS_Subset
      <4> QED BY <4>1, SumInt
    <3>5. g[p] = -f[p] /\ f[p] \in Int /\ g[p] \in Int
      BY <3>2
    <3> QED BY <3>2, <3>3, <3>4, <3>5
  <2> QED BY <2>1, <2>2
<1>2. S \in Good
  <2> HIDE DEF Good
  <2> QED BY <1>1, SubsetInduction
<1> QED BY <1>2

(* The sum of sums of terms is the sum of the two sums.                     *)
LEMMA SumPlus ==
  ASSUME NEW S, IsFiniteSet(S), NEW f, NEW g, NEW h,
         \A x \in S : f[x] \in Int /\ g[x] \in Int /\ h[x] = f[x] + g[x]
  PROVE  SumFunctionOnSet(h, S) = SumFunctionOnSet(f, S) + SumFunctionOnSet(g, S)
<1> DEFINE Good == {T \in SUBSET S : SumFunctionOnSet(h, T) = SumFunctionOnSet(f, T) + SumFunctionOnSet(g, T)}
<1>1. ASSUME NEW T \in SUBSET S, \A U \in SUBSET T : U # T => U \in Good
      PROVE  T \in Good
  <2>1. CASE T = {}
    BY <2>1, SumEmpty
  <2>2. CASE T # {}
    <3>1. IsFiniteSet(T)
      BY FS_Subset
    <3> DEFINE p == Pick(T)
    <3>2. /\ p \in T
          /\ SumFunctionOnSet(f, T) = f[p] + SumFunctionOnSet(f, T \ {p})
          /\ SumFunctionOnSet(g, T) = g[p] + SumFunctionOnSet(g, T \ {p})
          /\ SumFunctionOnSet(h, T) = h[p] + SumFunctionOnSet(h, T \ {p})
      BY <2>2, <3>1, SumPick
    <3> HIDE DEF p
    <3>3. T \ {p} \in Good
      BY <1>1, <3>2
    <3>4. SumFunctionOnSet(f, T \ {p}) \in Int /\ SumFunctionOnSet(g, T \ {p}) \in Int
      <4>1. IsFiniteSet(T \ {p})
        BY <3>1, FS_Subset
      <4> QED BY <4>1, SumInt
    <3>5. h[p] = f[p] + g[p] /\ f[p] \in Int /\ g[p] \in Int
      BY <3>2
    <3> QED BY <3>2, <3>3, <3>4, <3>5
  <2> QED BY <2>1, <2>2
<1>2. S \in Good
  <2> HIDE DEF Good
  <2> QED BY <1>1, SubsetInduction
<1> QED BY <1>2

(* A common factor can be taken out.                                        *)
LEMMA SumScaled ==
  ASSUME NEW S, IsFiniteSet(S), NEW f, NEW g, NEW k \in Int,
         \A x \in S : f[x] \in Int /\ g[x] = k * f[x]
  PROVE  SumFunctionOnSet(g, S) = k * SumFunctionOnSet(f, S)
<1> DEFINE Good == {T \in SUBSET S : SumFunctionOnSet(g, T) = k * SumFunctionOnSet(f, T)}
<1>1. ASSUME NEW T \in SUBSET S, \A U \in SUBSET T : U # T => U \in Good
      PROVE  T \in Good
  <2>1. CASE T = {}
    BY <2>1, SumEmpty
  <2>2. CASE T # {}
    <3>1. IsFiniteSet(T)
      BY FS_Subset
    <3> DEFINE p == Pick(T)
               rest == SumFunctionOnSet(f, T \ {p})
    <3>2. /\ p \in T
          /\ SumFunctionOnSet(f, T) = f[p] + rest
          /\ SumFunctionOnSet(g, T) = g[p] + SumFunctionOnSet(g, T \ {p})
      BY <2>2, <3>1, SumPick
    <3>3. T \ {p} \in Good
      BY <1>1, <3>2
    <3>4. rest \in Int
      <4>1. IsFiniteSet(T \ {p})
        BY <3>1, FS_Subset
      <4> HIDE DEF p
      <4> QED BY <4>1, SumInt
    <3>5. g[p] = k * f[p] /\ f[p] \in Int
      BY <3>2
    <3>6. k * f[p] + k * rest = k * (f[p] + rest)
      <4> HIDE DEF p, rest
      <4> QED BY <3>4, <3>5
    <3>7. SumFunctionOnSet(g, T \ {p}) = k * rest
      BY <3>3
    <3> HIDE DEF p, rest
    <3> QED BY <3>2, <3>5, <3>6, <3>7
  <2> QED BY <2>1, <2>2
<1>2. S \in Good
  <2> HIDE DEF Good
  <2> QED BY <1>1, SubsetInduction
<1> QED BY <1>2

(* Terms in rows and columns add up to the same, row by row or column by    *)
(* column.                                                                  *)
LEMMA SumSwap ==
  ASSUME NEW S, IsFiniteSet(S), NEW R, IsFiniteSet(R), NEW m, \A x \in S, y \in R : m[x][y] \in Int
  PROVE  SumFunctionOnSet([x \in S |-> SumFunctionOnSet(m[x], R)], S) =
           SumFunctionOnSet([y \in R |-> SumFunctionOnSet([x \in S |-> m[x][y]], S)], R)
<1> DEFINE byRow == [x \in S |-> SumFunctionOnSet(m[x], R)]
           line(y) == [x \in S |-> m[x][y]]
           byCol(T) == [y \in R |-> SumFunctionOnSet(line(y), T)]
           Good == {T \in SUBSET S : SumFunctionOnSet(byRow, T) = SumFunctionOnSet(byCol(T), R)}
<1>0. \A T \in SUBSET S : IsFiniteSet(T)
  BY FS_Subset
<1>1. ASSUME NEW T \in SUBSET S, \A U \in SUBSET T : U # T => U \in Good
      PROVE  T \in Good
  <2>1. CASE T = {}
    <3> DEFINE zero == [y \in R |-> 0]
               cols == byCol({})
    <3>1. \A y \in R : cols[y] = 0
      BY SumEmpty
    <3> HIDE DEF cols
    <3>2. SumFunctionOnSet(cols, R) = 0 * SumFunctionOnSet(cols, R)
      BY <3>1, SumScaled
    <3>3. SumFunctionOnSet(cols, R) \in Int
      BY <3>1, SumInt
    <3>4. SumFunctionOnSet(cols, R) = 0
      BY <3>2, <3>3
    <3> QED BY <2>1, <3>4, SumEmpty DEF cols
  <2>2. CASE T # {}
    <3>1. IsFiniteSet(T)
      BY <1>0
    <3> DEFINE p == Pick(T)
               U == T \ {p}
               with == byCol(T)
               without == byCol(U)
    <3>2. p \in T /\ SumFunctionOnSet(byRow, T) = byRow[p] + SumFunctionOnSet(byRow, U)
      BY <2>2, <3>1, SumPick
    <3> HIDE DEF p
    <3>3. U \in Good
      BY <1>1, <3>2
    <3>4. \A y \in R : m[p][y] \in Int /\ without[y] \in Int /\ with[y] = m[p][y] + without[y]
      <4> SUFFICES ASSUME NEW y \in R
                   PROVE  m[p][y] \in Int /\ without[y] \in Int /\ with[y] = m[p][y] + without[y]
        OBVIOUS
      <4> DEFINE f == line(y)
      <4>1. \A x \in S : f[x] = m[x][y] /\ f[x] \in Int
        OBVIOUS
      <4>2. IsFiniteSet(U)
        BY <1>0
      <4> HIDE DEF f
      <4>3. SumFunctionOnSet(f, T) = f[p] + SumFunctionOnSet(f, U)
        BY <3>1, <3>2, <4>1, SumRemove
      <4>4. SumFunctionOnSet(f, U) \in Int
        BY <4>1, <4>2, SumInt
      <4>5. with[y] = SumFunctionOnSet(f, T) /\ without[y] = SumFunctionOnSet(f, U)
        BY DEF f
      <4>6. f[p] = m[p][y] /\ m[p][y] \in Int
        BY <3>2, <4>1
      <4> QED BY <4>3, <4>4, <4>5, <4>6
    <3> HIDE DEF with, without
    <3> DEFINE row == m[p]
    <3>5. SumFunctionOnSet(with, R) = SumFunctionOnSet(row, R) + SumFunctionOnSet(without, R)
      <4>1. \A y \in R : row[y] \in Int /\ without[y] \in Int /\ with[y] = row[y] + without[y]
        BY <3>4
      <4> HIDE DEF row
      <4> QED BY <4>1, SumPlus
    <3>6. byRow[p] = SumFunctionOnSet(row, R)
      BY <3>2
    <3>7. SumFunctionOnSet(byRow, U) = SumFunctionOnSet(without, R)
      BY <3>3 DEF without
    <3> QED BY <3>2, <3>5, <3>6, <3>7 DEF with
  <2> QED BY <2>1, <2>2
<1>2. S \in Good
  <2> HIDE DEF Good
  <2> QED BY <1>1, SubsetInduction
<1> QED BY <1>2
=================================================================================
