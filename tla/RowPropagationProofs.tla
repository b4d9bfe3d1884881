-------------------------- MODULE RowPropagationProofs --------------------------
(***************************************************************************)
(* Activities are exact, and what is concluded from them is sound, for     *)
(* rows over any finite set of columns, with any coefficients other than   *)
(* 0, any sides and any bounds.                                            *)
(*                                                                         *)
(* The inductive invariant is that the activity is the one computed afresh *)
(* (ActivityInv).  One changed bound moves one term of one of the two      *)
(* sums, or makes it finite, and the lemmas on finite sums of FiniteSums   *)
(* take this term out of the sums before and after.  From an exact         *)
(* activity the verdicts and the propagated bounds follow without looking  *)
(* at steps: the minimum without infinite contribution is below the        *)
(* activity of every point, term by term, the left hand side is the right  *)
(* hand side of the negated row, and a column takes what the rest leaves.  *)
(***************************************************************************)
EXTENDS RowPropagation, FiniteSums

(* Rows over the columns cs, and domains of these columns.                  *)
Coefs(cs) == [cs -> Int \ {0}]
BoundsOf(cs) == [lb : [cs -> Int], ub : [cs -> Int], lbInf : SUBSET cs, ubInf : SUBSET cs]

(* The parts of an activity: the columns counted as infinite, and the terms *)
(* of the two sums and of the activity of a point.                          *)
InfMin(k, cs, e) == {c \in cs : MinInf(k, e, c)}
InfMax(k, cs, e) == {c \in cs : MaxInf(k, e, c)}
MinTerms(k, cs, e) == [c \in cs |-> MinTerm(k, e, c)]
MaxTerms(k, cs, e) == [c \in cs |-> MaxTerm(k, e, c)]
Terms(k, cs, x) == [c \in cs |-> k[c] * x[c]]

(* compute_row_activity in these terms.                                     *)
LEMMA ActivityFields ==
  ASSUME NEW k, NEW cs, NEW e
  PROVE  ComputeRowActivity(k, cs, e) =
           [min |-> SumFunctionOnSet(MinTerms(k, cs, e), cs \ InfMin(k, cs, e)),
            max |-> SumFunctionOnSet(MaxTerms(k, cs, e), cs \ InfMax(k, cs, e)),
            ninfmin |-> Cardinality(InfMin(k, cs, e)),
            ninfmax |-> Cardinality(InfMax(k, cs, e))]
BY DEF ComputeRowActivity, MinTerms, MaxTerms, InfMin, InfMax

(* A sum in which the term of c changes or is added: it moves by the        *)
(* difference or by the term.                                               *)
LEMMA TermMoves ==
  ASSUME NEW S, IsFiniteSet(S), NEW T, IsFiniteSet(T), NEW c, c \in T, T \ {c} = S \ {c},
         NEW f, \A z \in S : f[z] \in Int, NEW g, \A z \in T : g[z] \in Int,
         \A z \in S : z # c => g[z] = f[z]
  PROVE  SumFunctionOnSet(g, T) = SumFunctionOnSet(f, S) + (IF c \in S THEN g[c] - f[c] ELSE g[c])
<1> DEFINE rest == S \ {c}
<1>1. IsFiniteSet(rest)
  BY FS_Subset
<1>2. SumFunctionOnSet(g, T) = g[c] + SumFunctionOnSet(g, rest)
  <2>1. SumFunctionOnSet(g, T) = g[c] + SumFunctionOnSet(g, T \ {c})
    BY SumRemove
  <2> QED BY <2>1
<1>3. SumFunctionOnSet(g, rest) = SumFunctionOnSet(f, rest)
  <2>1. \A z \in rest : g[z] = f[z]
    OBVIOUS
  <2> HIDE DEF rest
  <2> QED BY <1>1, <2>1, SumEqual
<1>4. SumFunctionOnSet(f, rest) \in Int /\ SumFunctionOnSet(f, S) \in Int
  <2>1. \A z \in rest : f[z] \in Int
    OBVIOUS
  <2> HIDE DEF rest
  <2> QED BY <1>1, <2>1, SumInt
<1>5. CASE c \in S
  <2>1. SumFunctionOnSet(f, S) = f[c] + SumFunctionOnSet(f, rest)
    BY <1>5, SumRemove
  <2>2. f[c] \in Int /\ g[c] \in Int
    BY <1>5
  <2> HIDE DEF rest
  <2> QED BY <1>2, <1>3, <1>4, <1>5, <2>1, <2>2
<1>6. CASE c \notin S
  <2>1. rest = S
    BY <1>6
  <2> HIDE DEF rest
  <2> QED BY <1>2, <1>3, <1>4, <1>6, <2>1
<1> QED BY <1>5, <1>6

(* Every term is an integer.                                                *)
LEMMA TermsTyped ==
  ASSUME NEW cs, NEW k \in Coefs(cs), NEW e \in BoundsOf(cs)
  PROVE  MinTerms(k, cs, e) \in [cs -> Int] /\ MaxTerms(k, cs, e) \in [cs -> Int]
<1>1. \A c \in cs : k[c] \in Int /\ e.lb[c] \in Int /\ e.ub[c] \in Int
  BY DEF Coefs, BoundsOf
<1>2. \A c \in cs : MinTerm(k, e, c) \in Int /\ MaxTerm(k, e, c) \in Int
  BY <1>1 DEF MinTerm, MaxTerm
<1> QED BY <1>2 DEF MinTerms, MaxTerms

(* The domains after a lower bound became v.                                *)
WithLower(e, c, v) == [e EXCEPT !.lb[c] = v, !.lbInf = @ \ {c}]

(* A new lower bound, finite or infinite before: the updated activity is    *)
(* the one computed afresh.                                                 *)
LEMMA LowerBoundUpdate ==
  ASSUME NEW cs, IsFiniteSet(cs), NEW k \in Coefs(cs), NEW e \in BoundsOf(cs),
         NEW c \in cs, NEW v \in Int
  PROVE  ComputeRowActivity(k, cs, WithLower(e, c, v)) =
           UpdateActivity(ComputeRowActivity(k, cs, e), k[c], TRUE, e.lb[c], c \in e.lbInf, v)
<1> SUFFICES ASSUME NEW e2, e2 = WithLower(e, c, v)
             PROVE  ComputeRowActivity(k, cs, e2) =
                      UpdateActivity(ComputeRowActivity(k, cs, e), k[c], TRUE, e.lb[c], c \in e.lbInf, v)
  OBVIOUS
<1>1. \A z \in cs : k[z] \in Int \ {0} /\ e.lb[z] \in Int /\ e.ub[z] \in Int
  BY DEF Coefs, BoundsOf
<1>2. /\ e2 \in BoundsOf(cs) /\ e2.ub = e.ub /\ e2.ubInf = e.ubInf /\ e2.lbInf = e.lbInf \ {c}
      /\ e2.lb[c] = v /\ \A z \in cs \ {c} : e2.lb[z] = e.lb[z]
  BY DEF WithLower, BoundsOf
<1>3. CASE k[c] > 0
  <2>1. /\ InfMin(k, cs, e2) = InfMin(k, cs, e) \ {c} /\ InfMax(k, cs, e2) = InfMax(k, cs, e)
        /\ c \in InfMin(k, cs, e) <=> c \in e.lbInf
    BY <1>3, <1>1, <1>2 DEF InfMin, InfMax, MinInf, MaxInf
  <2>2. /\ MinTerms(k, cs, e)[c] = k[c] * e.lb[c] /\ MinTerms(k, cs, e2)[c] = k[c] * v
        /\ \A z \in cs \ {c} : MinTerms(k, cs, e2)[z] = MinTerms(k, cs, e)[z]
    BY <1>3, <1>1, <1>2 DEF MinTerms, MaxTerms, MinTerm, MaxTerm
  <2>3. MaxTerms(k, cs, e2) = MaxTerms(k, cs, e)
    BY <1>3, <1>1, <1>2 DEF MinTerms, MaxTerms, MinTerm, MaxTerm
  <2>4. MinTerms(k, cs, e) \in [cs -> Int] /\ MinTerms(k, cs, e2) \in [cs -> Int]
    BY <1>1, <1>2, TermsTyped
  <2> DEFINE A == InfMin(k, cs, e)
             f == MinTerms(k, cs, e)
             g == MinTerms(k, cs, e2)
             S == cs \ A
             T == cs \ (A \ {c})
  <2>5. SumFunctionOnSet(g, T) =
          SumFunctionOnSet(f, S) + k[c] * (IF c \in e.lbInf THEN v ELSE v - e.lb[c])
    <3>1. IsFiniteSet(S) /\ IsFiniteSet(T) /\ c \in T /\ T \ {c} = S \ {c}
      BY FS_Subset
    <3>2. k[c] \in Int /\ e.lb[c] \in Int
      BY <1>1
    <3>3. k[c] * v - k[c] * e.lb[c] = k[c] * (v - e.lb[c])
      BY <3>2
    <3>4. /\ f[c] = k[c] * e.lb[c] /\ g[c] = k[c] * v /\ \A z \in S : z # c => g[z] = f[z]
          /\ (\A z \in S : f[z] \in Int) /\ \A z \in T : g[z] \in Int
      BY <2>2, <2>4
    <3>5. c \in S <=> c \notin e.lbInf
      BY <2>1
    <3> HIDE DEF f, g, S, T
    <3>6. SumFunctionOnSet(g, T) = SumFunctionOnSet(f, S) + (IF c \in S THEN g[c] - f[c] ELSE g[c])
      BY <3>1, <3>4, TermMoves
    <3> QED BY <3>3, <3>4, <3>5, <3>6
  <2>6. Cardinality(A \ {c}) = Cardinality(A) - (IF c \in e.lbInf THEN 1 ELSE 0)
    <3>1. IsFiniteSet(A) /\ Cardinality(A) \in Nat
      BY FS_Subset, FS_CardinalityType DEF InfMin, InfMax
    <3>2. c \in A <=> c \in e.lbInf
      BY <2>1
    <3>3. Cardinality(A \ {c}) = IF c \in A THEN Cardinality(A) - 1 ELSE Cardinality(A)
      BY <3>1, FS_RemoveElement
    <3> HIDE DEF A
    <3> QED BY <3>1, <3>2, <3>3
  <2>7. MovesMin(k[c], TRUE) <=> TRUE
    BY <1>3, <1>1 DEF MovesMin
  <2> QED BY <2>1, <2>3, <2>5, <2>6, <2>7, ActivityFields DEF UpdateActivity
<1>4. CASE k[c] < 0
  <2>1. /\ InfMax(k, cs, e2) = InfMax(k, cs, e) \ {c} /\ InfMin(k, cs, e2) = InfMin(k, cs, e)
        /\ c \in InfMax(k, cs, e) <=> c \in e.lbInf
    BY <1>4, <1>1, <1>2 DEF InfMin, InfMax, MinInf, MaxInf
  <2>2. /\ MaxTerms(k, cs, e)[c] = k[c] * e.lb[c] /\ MaxTerms(k, cs, e2)[c] = k[c] * v
        /\ \A z \in cs \ {c} : MaxTerms(k, cs, e2)[z] = MaxTerms(k, cs, e)[z]
    BY <1>4, <1>1, <1>2 DEF MinTerms, MaxTerms, MinTerm, MaxTerm
  <2>3. MinTerms(k, cs, e2) = MinTerms(k, cs, e)
    BY <1>4, <1>1, <1>2 DEF MinTerms, MaxTerms, MinTerm, MaxTerm
  <2>4. MaxTerms(k, cs, e) \in [cs -> Int] /\ MaxTerms(k, cs, e2) \in [cs -> Int]
    BY <1>1, <1>2, TermsTyped
  <2> DEFINE A == InfMax(k, cs, e)
             f == MaxTerms(k, cs, e)
             g == MaxTerms(k, cs, e2)
             S == cs \ A
             T == cs \ (A \ {c})
  <2>5. SumFunctionOnSet(g, T) =
          SumFunctionOnSet(f, S) + k[c] * (IF c \in e.lbInf THEN v ELSE v - e.lb[c])
    <3>1. IsFiniteSet(S) /\ IsFiniteSet(T) /\ c \in T /\ T \ {c} = S \ {c}
      BY FS_Subset
    <3>2. k[c] \in Int /\ e.lb[c] \in Int
      BY <1>1
    <3>3. k[c] * v - k[c] * e.lb[c] = k[c] * (v - e.lb[c])
      BY <3>2
    <3>4. /\ f[c] = k[c] * e.lb[c] /\ g[c] = k[c] * v /\ \A z \in S : z # c => g[z] = f[z]
          /\ (\A z \in S : f[z] \in Int) /\ \A z \in T : g[z] \in Int
      BY <2>2, <2>4
    <3>5. c \in S <=> c \notin e.lbInf
      BY <2>1
    <3> HIDE DEF f, g, S, T
    <3>6. SumFunctionOnSet(g, T) = SumFunctionOnSet(f, S) + (IF c \in S THEN g[c] - f[c] ELSE g[c])
      BY <3>1, <3>4, TermMoves
    <3> QED BY <3>3, <3>4, <3>5, <3>6
  <2>6. Cardinality(A \ {c}) = Cardinality(A) - (IF c \in e.lbInf THEN 1 ELSE 0)
    <3>1. IsFiniteSet(A) /\ Cardinality(A) \in Nat
      BY FS_Subset, FS_CardinalityType DEF InfMin, InfMax
    <3>2. c \in A <=> c \in e.lbInf
      BY <2>1
    <3>3. Cardinality(A \ {c}) = IF c \in A THEN Cardinality(A) - 1 ELSE Cardinality(A)
      BY <3>1, FS_RemoveElement
    <3> HIDE DEF A
    <3> QED BY <3>1, <3>2, <3>3
  <2>7. MovesMin(k[c], TRUE) <=> FALSE
    BY <1>4, <1>1 DEF MovesMin
  <2> QED BY <2>1, <2>3, <2>5, <2>6, <2>7, ActivityFields DEF UpdateActivity
<1>5. k[c] > 0 \/ k[c] < 0
  BY <1>1
<1> QED BY <1>3, <1>4, <1>5

(* The domains after an upper bound became v.                               *)
WithUpper(e, c, v) == [e EXCEPT !.ub[c] = v, !.ubInf = @ \ {c}]

(* The same for a new upper bound.                                          *)
LEMMA UpperBoundUpdate ==
  ASSUME NEW cs, IsFiniteSet(cs), NEW k \in Coefs(cs), NEW e \in BoundsOf(cs),
         NEW c \in cs, NEW v \in Int
  PROVE  ComputeRowActivity(k, cs, WithUpper(e, c, v)) =
           UpdateActivity(ComputeRowActivity(k, cs, e), k[c], FALSE, e.ub[c], c \in e.ubInf, v)
<1> SUFFICES ASSUME NEW e2, e2 = WithUpper(e, c, v)
             PROVE  ComputeRowActivity(k, cs, e2) =
                      UpdateActivity(ComputeRowActivity(k, cs, e), k[c], FALSE, e.ub[c], c \in e.ubInf, v)
  OBVIOUS
<1>1. \A z \in cs : k[z] \in Int \ {0} /\ e.lb[z] \in Int /\ e.ub[z] \in Int
  BY DEF Coefs, BoundsOf
<1>2. /\ e2 \in BoundsOf(cs) /\ e2.lb = e.lb /\ e2.lbInf = e.lbInf /\ e2.ubInf = e.ubInf \ {c}
      /\ e2.ub[c] = v /\ \A z \in cs \ {c} : e2.ub[z] = e.ub[z]
  BY DEF WithUpper, BoundsOf
<1>3. CASE k[c] > 0
  <2>1. /\ InfMax(k, cs, e2) = InfMax(k, cs, e) \ {c} /\ InfMin(k, cs, e2) = InfMin(k, cs, e)
        /\ c \in InfMax(k, cs, e) <=> c \in e.ubInf
    BY <1>3, <1>1, <1>2 DEF InfMin, InfMax, MinInf, MaxInf
  <2>2. /\ MaxTerms(k, cs, e)[c] = k[c] * e.ub[c] /\ MaxTerms(k, cs, e2)[c] = k[c] * v
        /\ \A z \in cs \ {c} : MaxTerms(k, cs, e2)[z] = MaxTerms(k, cs, e)[z]
    BY <1>3, <1>1, <1>2 DEF MinTerms, MaxTerms, MinTerm, MaxTerm
  <2>3. MinTerms(k, cs, e2) = MinTerms(k, cs, e)
    BY <1>3, <1>1, <1>2 DEF MinTerms, MaxTerms, MinTerm, MaxTerm
  <2>4. MaxTerms(k, cs, e) \in [cs -> Int] /\ MaxTerms(k, cs, e2) \in [cs -> Int]
    BY <1>1, <1>2, TermsTyped
  <2> DEFINE A == InfMax(k, cs, e)
             f == MaxTerms(k, cs, e)
             g == MaxTerms(k, cs, e2)
             S == cs \ A
             T == cs \ (A \ {c})
  <2>5. SumFunctionOnSet(g, T) =
          SumFunctionOnSet(f, S) + k[c] * (IF c \in e.ubInf THEN v ELSE v - e.ub[c])
    <3>1. IsFiniteSet(S) /\ IsFiniteSet(T) /\ c \in T /\ T \ {c} = S \ {c}
      BY FS_Subset
    <3>2. k[c] \in Int /\ e.ub[c] \in Int
      BY <1>1
    <3>3. k[c] * v - k[c] * e.ub[c] = k[c] * (v - e.ub[c])
      BY <3>2
    <3>4. /\ f[c] = k[c] * e.ub[c] /\ g[c] = k[c] * v /\ \A z \in S : z # c => g[z] = f[z]
          /\ (\A z \in S : f[z] \in Int) /\ \A z \in T : g[z] \in Int
      BY <2>2, <2>4
    <3>5. c \in S <=> c \notin e.ubInf
      BY <2>1
    <3> HIDE DEF f, g, S, T
    <3>6. SumFunctionOnSet(g, T) = SumFunctionOnSet(f, S) + (IF c \in S THEN g[c] - f[c] ELSE g[c])
      BY <3>1, <3>4, TermMoves
    <3> QED BY <3>3, <3>4, <3>5, <3>6
  <2>6. Cardinality(A \ {c}) = Cardinality(A) - (IF c \in e.ubInf THEN 1 ELSE 0)
    <3>1. IsFiniteSet(A) /\ Cardinality(A) \in Nat
      BY FS_Subset, FS_CardinalityType DEF InfMin, InfMax
    <3>2. c \in A <=> c \in e.ubInf
      BY <2>1
    <3>3. Cardinality(A \ {c}) = IF c \in A THEN Cardinality(A) - 1 ELSE Cardinality(A)
      BY <3>1, FS_RemoveElement
    <3> HIDE DEF A
    <3> QED BY <3>1, <3>2, <3>3
  <2>7. MovesMin(k[c], FALSE) <=> FALSE
    BY <1>3, <1>1 DEF MovesMin
  <2> QED BY <2>1, <2>3, <2>5, <2>6, <2>7, ActivityFields DEF UpdateActivity
<1>4. CASE k[c] < 0
  <2>1. /\ InfMin(k, cs, e2) = InfMin(k, cs, e) \ {c} /\ InfMax(k, cs, e2) = InfMax(k, cs, e)
        /\ c \in InfMin(k, cs, e) <=> c \in e.ubInf
    BY <1>4, <1>1, <1>2 DEF InfMin, InfMax, MinInf, MaxInf
  <2>2. /\ MinTerms(k, cs, e)[c] = k[c] * e.ub[c] /\ MinTerms(k, cs, e2)[c] = k[c] * v
        /\ \A z \in cs \ {c} : MinTerms(k, cs, e2)[z] = MinTerms(k, cs, e)[z]
    BY <1>4, <1>1, <1>2 DEF MinTerms, MaxTerms, MinTerm, MaxTerm
  <2>3. MaxTerms(k, cs, e2) = MaxTerms(k, cs, e)
    BY <1>4, <1>1, <1>2 DEF MinTerms, MaxTerms, MinTerm, MaxTerm
  <2>4. MinTerms(k, cs, e) \in [cs -> Int] /\ MinTerms(k, cs, e2) \in [cs -> Int]
    BY <1>1, <1>2, TermsTyped
  <2> DEFINE A == InfMin(k, cs, e)
             f == MinTerms(k, cs, e)
             g == MinTerms(k, cs, e2)
             S == cs \ A
             T == cs \ (A \ {c})
  <2>5. SumFunctionOnSet(g, T) =
          SumFunctionOnSet(f, S) + k[c] * (IF c \in e.ubInf THEN v ELSE v - e.ub[c])
    <3>1. IsFiniteSet(S) /\ IsFiniteSet(T) /\ c \in T /\ T \ {c} = S \ {c}
      BY FS_Subset
    <3>2. k[c] \in Int /\ e.ub[c] \in Int
      BY <1>1
    <3>3. k[c] * v - k[c] * e.ub[c] = k[c] * (v - e.ub[c])
      BY <3>2
    <3>4. /\ f[c] = k[c] * e.ub[c] /\ g[c] = k[c] * v /\ \A z \in S : z # c => g[z] = f[z]
          /\ (\A z \in S : f[z] \in Int) /\ \A z \in T : g[z] \in Int
      BY <2>2, <2>4
    <3>5. c \in S <=> c \notin e.ubInf
      BY <2>1
    <3> HIDE DEF f, g, S, T
    <3>6. SumFunctionOnSet(g, T) = SumFunctionOnSet(f, S) + (IF c \in S THEN g[c] - f[c] ELSE g[c])
      BY <3>1, <3>4, TermMoves
    <3> QED BY <3>3, <3>4, <3>5, <3>6
  <2>6. Cardinality(A \ {c}) = Cardinality(A) - (IF c \in e.ubInf THEN 1 ELSE 0)
    <3>1. IsFiniteSet(A) /\ Cardinality(A) \in Nat
      BY FS_Subset, FS_CardinalityType DEF InfMin, InfMax
    <3>2. c \in A <=> c \in e.ubInf
      BY <2>1
    <3>3. Cardinality(A \ {c}) = IF c \in A THEN Cardinality(A) - 1 ELSE Cardinality(A)
      BY <3>1, FS_RemoveElement
    <3> HIDE DEF A
    <3> QED BY <3>1, <3>2, <3>3
  <2>7. MovesMin(k[c], FALSE) <=> TRUE
    BY <1>4, <1>1 DEF MovesMin
  <2> QED BY <2>1, <2>3, <2>5, <2>6, <2>7, ActivityFields DEF UpdateActivity
<1>5. k[c] > 0 \/ k[c] < 0
  BY <1>1
<1> QED BY <1>3, <1>4, <1>5

-----------------------------------------------------------------------------
(* Activities stay exact                                                    *)

(* The type invariant.                                                      *)
TypeOK ==
  /\ a \in [Cols -> CoefChoices]
  /\ row \in Sides
  /\ d \in BoundsOf(Cols)
  /\ infeasible \in BOOLEAN

(* The inductive invariant.                                                 *)
ActivityInv == TypeOK /\ ActivityExact

(* The row fits the lemmas on activities.                                   *)
LEMMA CoefsTyped ==
  ASSUME TypeOK
  PROVE  a \in Coefs(Cols) /\ IsFiniteSet(Cols)
BY RowAssumption DEF TypeOK, Coefs

(* The activity of the first state is computed afresh.                      *)
LEMMA InitActivity == Init => ActivityInv
<1> SUFFICES ASSUME Init PROVE TypeOK
  BY DEF Init, ActivityInv, ActivityExact
<1>1. LbChoices \cup {0} \subseteq Int /\ UbChoices \cup {0} \subseteq Int
  BY RowAssumption
<1>2. d \in BoundsOf(Cols)
  BY <1>1 DEF Init, Domains, BoundsOf
<1> QED BY <1>2 DEF Init, TypeOK

(* changeLB and changeUB update the activity as they should.                *)
LEMMA ChangeBoundActivity ==
  ASSUME ActivityInv, NEW b, b.col \in Cols, b.lower \in BOOLEAN, b.val \in Values,
         ChangeBound(b)
  PROVE  ActivityInv'
<1>1. /\ TypeOK /\ act = ComputeRowActivity(a, Cols, d) /\ b.val \in Int
      /\ a \in Coefs(Cols) /\ IsFiniteSet(Cols) /\ d \in BoundsOf(Cols)
  BY CoefsTyped, RowAssumption DEF ActivityInv, ActivityExact, Values, TypeOK
<1>2. UNCHANGED <<a, row, infeasible>>
  BY DEF ChangeBound
<1>3. CASE b.lower
  <2>1. /\ d' = WithLower(d, b.col, b.val)
        /\ act' = UpdateActivity(act, a[b.col], TRUE, d.lb[b.col], b.col \in d.lbInf, b.val)
    BY <1>3 DEF ChangeBound, WithLower
  <2>2. act' = ComputeRowActivity(a, Cols, d')
    BY <1>1, <2>1, LowerBoundUpdate
  <2>3. d' \in BoundsOf(Cols)
    BY <1>1, <2>1 DEF WithLower, BoundsOf
  <2> QED BY <1>1, <1>2, <2>2, <2>3 DEF ActivityInv, TypeOK, ActivityExact
<1>4. CASE ~b.lower
  <2>1. /\ d' = WithUpper(d, b.col, b.val)
        /\ act' = UpdateActivity(act, a[b.col], FALSE, d.ub[b.col], b.col \in d.ubInf, b.val)
    BY <1>4 DEF ChangeBound, WithUpper
  <2>2. act' = ComputeRowActivity(a, Cols, d')
    BY <1>1, <2>1, UpperBoundUpdate
  <2>3. d' \in BoundsOf(Cols)
    BY <1>1, <2>1 DEF WithUpper, BoundsOf
  <2> QED BY <1>1, <1>2, <2>2, <2>3 DEF ActivityInv, TypeOK, ActivityExact
<1> QED BY <1>3, <1>4

(* What propagate_row takes from the side for a column, and the bound it    *)
(* gets.                                                                    *)
RestOf(k, ac, e, c) == ac.min - (IF ac.ninfmin = 1 THEN 0 ELSE MinTerm(k, e, c))
BoundOf(k, ac, r, e, c) ==
  IF k[c] < 0 THEN CeilDiv(r.rhs - RestOf(k, ac, e, c), k[c])
              ELSE FloorDiv(r.rhs - RestOf(k, ac, e, c), k[c])

(* What a bound from the right hand side looks like.                        *)
LEMMA RhsBoundShape ==
  ASSUME NEW k, NEW cs, NEW ac, NEW r, NEW e, NEW b, b \in FromRhs(k, cs, ac, r, e)
  PROVE  /\ b.col \in Targets(k, cs, ac, e) /\ b.col \in cs
         /\ b.lower \in BOOLEAN /\ b.lower = (k[b.col] < 0)
         /\ b.val = BoundOf(k, ac, r, e, b.col)
         /\ ~r.rhsInf /\ ~(ac.ninfmin > 1)
<1>1. /\ ~(r.rhsInf \/ ac.ninfmin > 1 \/ ~(ac.ninfmax >= 1 \/ ac.max > r.rhs))
      /\ b \in {[col |-> c, lower |-> k[c] < 0, val |-> BoundOf(k, ac, r, e, c)] : c \in Targets(k, cs, ac, e)}
  BY DEF FromRhs, BoundOf, RestOf
<1>2. PICK c \in Targets(k, cs, ac, e) :
        b = [col |-> c, lower |-> k[c] < 0, val |-> BoundOf(k, ac, r, e, c)]
  BY <1>1
<1>3. b.col = c /\ b.lower = (k[c] < 0) /\ b.val = BoundOf(k, ac, r, e, c)
  BY <1>2
<1>4. c \in cs
  BY DEF Targets
<1> QED BY <1>1, <1>2, <1>3, <1>4

(* A propagated bound is one of a column of the row.                        *)
LEMMA PropagatedShape ==
  ASSUME NEW b, b \in PropagateRow(a, Cols, act, row, d)
  PROVE  b.col \in Cols /\ b.lower \in BOOLEAN
BY RhsBoundShape DEF PropagateRow, FromLhs

(* Every step keeps the invariant: only an accepted bound changes domains.  *)
LEMMA NextActivity == ActivityInv /\ [Next]_vars => ActivityInv'
<1> SUFFICES ASSUME ActivityInv, [Next]_vars PROVE ActivityInv'
  OBVIOUS
<1>1. CASE Propagate
  <2>1. PICK b \in PropagateRow(a, Cols, act, row, d) :
          \/ b.val \in Values /\ ChangeBound(b)
          \/ Crosses(b) /\ infeasible' = TRUE /\ UNCHANGED <<a, row, d, act>>
    BY <1>1 DEF Propagate
  <2>2. CASE b.val \in Values /\ ChangeBound(b)
    BY <2>2, PropagatedShape, ChangeBoundActivity
  <2>3. CASE infeasible' = TRUE /\ UNCHANGED <<a, row, d, act>>
    BY <2>3 DEF ActivityInv, TypeOK, ActivityExact
  <2> QED BY <2>1, <2>2, <2>3
<1>2. CASE Tighten
  <2>1. PICK c \in Cols, lower \in BOOLEAN, v \in Values :
          ChangeBound([col |-> c, lower |-> lower, val |-> v])
    BY <1>2 DEF Tighten
  <2>2. /\ [col |-> c, lower |-> lower, val |-> v].col \in Cols
        /\ [col |-> c, lower |-> lower, val |-> v].lower \in BOOLEAN
        /\ [col |-> c, lower |-> lower, val |-> v].val \in Values
    OBVIOUS
  <2> QED BY <2>1, <2>2, ChangeBoundActivity
<1>3. CASE UNCHANGED vars
  BY <1>3 DEF vars, ActivityInv, TypeOK, ActivityExact
<1> QED BY <1>1, <1>2, <1>3 DEF Next

(* The inductive invariant holds for every row.                             *)
THEOREM ActivityInvariant == Spec => []ActivityInv
BY InitActivity, NextActivity, PTL DEF Spec

(* update_activity_after_boundchange keeps the activity that                *)
(* compute_row_activity would find, whatever bounds become finite and move, *)
(* in whatever order.                                                       *)
THEOREM ActivityStaysExact == Spec => []ActivityExact
<1>1. ActivityInv => ActivityExact
  BY DEF ActivityInv
<1> QED BY <1>1, ActivityInvariant, PTL

-----------------------------------------------------------------------------
(* Activities and the points within the bounds                              *)

(* x is within the domains e.                                               *)
Within(cs, e, x) ==
  \A c \in cs : /\ c \in e.lbInf \/ x[c] >= e.lb[c]
                /\ c \in e.ubInf \/ x[c] <= e.ub[c]

(* A positive factor keeps the order, a negative one reverses it.           *)
LEMMA ProductOrder ==
  ASSUME NEW k \in Int, NEW m \in Int, NEW n \in Int, m <= n
  PROVE  /\ k > 0 => k * m <= k * n
         /\ k < 0 => k * n <= k * m
<1>1. k > 0 => k * (n - m) >= 0
  OBVIOUS
<1>2. k < 0 => (-k) * (n - m) >= 0
  OBVIOUS
<1>3. k * (n - m) = k * n - k * m /\ (-k) * (n - m) = k * m - k * n
  OBVIOUS
<1> QED BY <1>1, <1>2, <1>3

(* A finite smallest term is below the term of every point.                 *)
LEMMA MinTermBelow ==
  ASSUME NEW cs, NEW k \in Coefs(cs), NEW e \in BoundsOf(cs), NEW x \in [cs -> Int],
         Within(cs, e, x), NEW c \in cs, c \notin InfMin(k, cs, e)
  PROVE  MinTerm(k, e, c) <= k[c] * x[c]
<1>1. k[c] \in Int /\ k[c] # 0 /\ e.lb[c] \in Int /\ e.ub[c] \in Int /\ x[c] \in Int
  BY DEF Coefs, BoundsOf
<1>2. CASE k[c] > 0
  <2>1. e.lb[c] <= x[c]
    BY <1>1, <1>2 DEF Within, InfMin, MinInf
  <2> QED BY <1>1, <1>2, <2>1, ProductOrder DEF MinTerm
<1>3. CASE k[c] < 0
  <2>1. x[c] <= e.ub[c]
    BY <1>1, <1>3 DEF Within, InfMin, MinInf
  <2> QED BY <1>1, <1>3, <2>1, ProductOrder DEF MinTerm
<1> QED BY <1>1, <1>2, <1>3

(* So are sums of them.                                                     *)
LEMMA MinSumBelow ==
  ASSUME NEW cs, IsFiniteSet(cs), NEW k \in Coefs(cs), NEW e \in BoundsOf(cs),
         NEW x \in [cs -> Int], Within(cs, e, x),
         NEW T \in SUBSET cs, T \cap InfMin(k, cs, e) = {}
  PROVE  /\ SumFunctionOnSet(MinTerms(k, cs, e), T) \in Int
         /\ SumFunctionOnSet(Terms(k, cs, x), T) \in Int
         /\ SumFunctionOnSet(MinTerms(k, cs, e), T) <= SumFunctionOnSet(Terms(k, cs, x), T)
<1> DEFINE f == MinTerms(k, cs, e)
           g == Terms(k, cs, x)
<1>1. \A c \in T : k[c] \in Int /\ x[c] \in Int
  BY DEF Coefs
<1>2. \A c \in T : g[c] \in Int /\ g[c] = k[c] * x[c]
  BY <1>1 DEF Terms
<1>3. \A c \in T : f[c] \in Int /\ f[c] <= g[c]
  <2>1. \A c \in T : f[c] \in Int /\ f[c] = MinTerm(k, e, c)
    BY TermsTyped DEF MinTerms
  <2>2. \A c \in T : c \in cs /\ c \notin InfMin(k, cs, e)
    OBVIOUS
  <2>3. \A c \in T : MinTerm(k, e, c) <= k[c] * x[c]
    BY <2>2, MinTermBelow
  <2> HIDE DEF f, g
  <2> QED BY <1>2, <2>1, <2>3
<1>4. IsFiniteSet(T)
  BY FS_Subset
<1> HIDE DEF f, g
<1>5. SumFunctionOnSet(f, T) \in Int /\ SumFunctionOnSet(g, T) \in Int
  BY <1>2, <1>3, <1>4, SumInt
<1>6. SumFunctionOnSet(f, T) <= SumFunctionOnSet(g, T)
  BY <1>2, <1>3, <1>4, SumLeq
<1> QED BY <1>5, <1>6 DEF f, g

(* Sums and counters are numbers, and a counter at 0 counts nothing.        *)
LEMMA ActivityTyped ==
  ASSUME NEW cs, IsFiniteSet(cs), NEW k \in Coefs(cs), NEW e \in BoundsOf(cs)
  PROVE  /\ ComputeRowActivity(k, cs, e).min \in Int
         /\ ComputeRowActivity(k, cs, e).max \in Int
         /\ ComputeRowActivity(k, cs, e).ninfmin \in Nat
         /\ ComputeRowActivity(k, cs, e).ninfmax \in Nat
         /\ ComputeRowActivity(k, cs, e).ninfmin = 0 => InfMin(k, cs, e) = {}
<1>1. /\ IsFiniteSet(InfMin(k, cs, e)) /\ IsFiniteSet(InfMax(k, cs, e))
      /\ IsFiniteSet(cs \ InfMin(k, cs, e)) /\ IsFiniteSet(cs \ InfMax(k, cs, e))
  BY FS_Subset DEF InfMin, InfMax
<1>2. /\ Cardinality(InfMin(k, cs, e)) \in Nat /\ Cardinality(InfMax(k, cs, e)) \in Nat
      /\ Cardinality(InfMin(k, cs, e)) = 0 => InfMin(k, cs, e) = {}
  BY <1>1, FS_CardinalityType, FS_EmptySet
<1> DEFINE f == MinTerms(k, cs, e)
           g == MaxTerms(k, cs, e)
           S == cs \ InfMin(k, cs, e)
           T == cs \ InfMax(k, cs, e)
<1>3. (\A c \in S : f[c] \in Int) /\ (\A c \in T : g[c] \in Int)
  BY TermsTyped
<1>4. SumFunctionOnSet(f, S) \in Int /\ SumFunctionOnSet(g, T) \in Int
  <2>1. IsFiniteSet(S) /\ IsFiniteSet(T)
    BY <1>1
  <2> HIDE DEF f, g, S, T
  <2> QED BY <1>3, <2>1, SumInt
<1> QED BY <1>2, <1>4, ActivityFields

(* Without infinite contribution the minimal activity is below that of      *)
(* every point within the bounds.                                           *)
LEMMA MinActivityBelow ==
  ASSUME NEW cs, IsFiniteSet(cs), NEW k \in Coefs(cs), NEW e \in BoundsOf(cs),
         NEW x \in [cs -> Int], Within(cs, e, x),
         ComputeRowActivity(k, cs, e).ninfmin = 0
  PROVE  ComputeRowActivity(k, cs, e).min <= SumFunctionOnSet(Terms(k, cs, x), cs)
<1>1. InfMin(k, cs, e) = {} /\ cs \ InfMin(k, cs, e) = cs
  BY ActivityTyped
<1>2. ComputeRowActivity(k, cs, e).min = SumFunctionOnSet(MinTerms(k, cs, e), cs)
  BY <1>1, ActivityFields
<1>3. cs \in SUBSET cs /\ cs \cap InfMin(k, cs, e) = {}
  BY <1>1
<1> QED BY <1>2, <1>3, MinSumBelow

(* The coefficients of the row multiplied by -1.                            *)
Negated(k) == [c \in DOMAIN k |-> -k[c]]

(* Its activity: minimum and maximum change their places and signs.         *)
LEMMA NegatedActivity ==
  ASSUME NEW cs, IsFiniteSet(cs), NEW k \in Coefs(cs), NEW e \in BoundsOf(cs)
  PROVE  /\ Negated(k) \in Coefs(cs)
         /\ ComputeRowActivity(Negated(k), cs, e) =
              [min |-> -ComputeRowActivity(k, cs, e).max, max |-> -ComputeRowActivity(k, cs, e).min,
               ninfmin |-> ComputeRowActivity(k, cs, e).ninfmax,
               ninfmax |-> ComputeRowActivity(k, cs, e).ninfmin]
<1> DEFINE n == Negated(k)
<1>1. \A c \in cs : /\ k[c] \in Int /\ k[c] # 0 /\ n[c] = -k[c]
                    /\ e.lb[c] \in Int /\ e.ub[c] \in Int
  BY DEF Coefs, BoundsOf, Negated
<1>2. n \in Coefs(cs)
  BY <1>1 DEF Coefs, Negated
<1> HIDE DEF n
<1>3. InfMin(n, cs, e) = InfMax(k, cs, e) /\ InfMax(n, cs, e) = InfMin(k, cs, e)
  BY <1>1 DEF InfMin, InfMax, MinInf, MaxInf
<1>4. \A c \in cs : /\ MinTerm(n, e, c) = -MaxTerm(k, e, c)
                    /\ MaxTerm(n, e, c) = -MinTerm(k, e, c)
  BY <1>1 DEF MinTerm, MaxTerm
<1>5. ASSUME NEW S \in SUBSET cs
      PROVE  /\ SumFunctionOnSet(MinTerms(n, cs, e), S) = -SumFunctionOnSet(MaxTerms(k, cs, e), S)
             /\ SumFunctionOnSet(MaxTerms(n, cs, e), S) = -SumFunctionOnSet(MinTerms(k, cs, e), S)
  <2> DEFINE f == MinTerms(k, cs, e)
             g == MaxTerms(k, cs, e)
             ff == MaxTerms(n, cs, e)
             gg == MinTerms(n, cs, e)
  <2>1. \A c \in S : f[c] \in Int /\ g[c] \in Int /\ ff[c] = -f[c] /\ gg[c] = -g[c]
    BY <1>4, TermsTyped DEF MinTerms, MaxTerms
  <2>2. IsFiniteSet(S)
    BY FS_Subset
  <2> HIDE DEF f, g, ff, gg
  <2>3. SumFunctionOnSet(gg, S) = -SumFunctionOnSet(g, S)
    BY <2>1, <2>2, SumNegated
  <2>4. SumFunctionOnSet(ff, S) = -SumFunctionOnSet(f, S)
    BY <2>1, <2>2, SumNegated
  <2> QED BY <2>3, <2>4 DEF f, g, ff, gg
<1>6. /\ SumFunctionOnSet(MinTerms(n, cs, e), cs \ InfMin(n, cs, e)) =
             -SumFunctionOnSet(MaxTerms(k, cs, e), cs \ InfMax(k, cs, e))
      /\ SumFunctionOnSet(MaxTerms(n, cs, e), cs \ InfMax(n, cs, e)) =
             -SumFunctionOnSet(MinTerms(k, cs, e), cs \ InfMin(k, cs, e))
  BY <1>3, <1>5
<1> QED BY <1>2, <1>3, <1>6, ActivityFields DEF n

(* Its value at a point.                                                    *)
LEMMA NegatedTerms ==
  ASSUME NEW cs, IsFiniteSet(cs), NEW k \in Coefs(cs), NEW x \in [cs -> Int]
  PROVE  /\ SumFunctionOnSet(Terms(k, cs, x), cs) \in Int
         /\ SumFunctionOnSet(Terms(Negated(k), cs, x), cs) = -SumFunctionOnSet(Terms(k, cs, x), cs)
<1> DEFINE f == Terms(k, cs, x)
           g == Terms(Negated(k), cs, x)
<1>1. \A c \in cs : k[c] \in Int /\ x[c] \in Int /\ Negated(k)[c] = -k[c]
  BY DEF Coefs, Negated
<1>2. \A c \in cs : f[c] \in Int /\ g[c] = -f[c]
  BY <1>1 DEF Terms
<1> HIDE DEF f, g
<1> QED BY <1>2, SumInt, SumNegated DEF f, g

(* The maximal activity is above that of every point, because the minimal   *)
(* one of the negated row is below.                                         *)
LEMMA MaxActivityAbove ==
  ASSUME NEW cs, IsFiniteSet(cs), NEW k \in Coefs(cs), NEW e \in BoundsOf(cs),
         NEW x \in [cs -> Int], Within(cs, e, x),
         ComputeRowActivity(k, cs, e).ninfmax = 0
  PROVE  ComputeRowActivity(k, cs, e).max >= SumFunctionOnSet(Terms(k, cs, x), cs)
<1>1. /\ Negated(k) \in Coefs(cs)
      /\ ComputeRowActivity(Negated(k), cs, e).ninfmin = 0
      /\ ComputeRowActivity(Negated(k), cs, e).min = -ComputeRowActivity(k, cs, e).max
  BY NegatedActivity
<1>2. -ComputeRowActivity(k, cs, e).max <= SumFunctionOnSet(Terms(Negated(k), cs, x), cs)
  BY <1>1, MinActivityBelow
<1>3. /\ SumFunctionOnSet(Terms(k, cs, x), cs) \in Int
      /\ SumFunctionOnSet(Terms(Negated(k), cs, x), cs) = -SumFunctionOnSet(Terms(k, cs, x), cs)
  BY NegatedTerms
<1>4. ComputeRowActivity(k, cs, e).max \in Int
  BY ActivityTyped
<1> QED BY <1>2, <1>3, <1>4

(* A propagated bound is an integer: the quotients are rounded.             *)
LEMMA RhsValue ==
  ASSUME NEW cs, IsFiniteSet(cs), NEW k \in Coefs(cs), NEW e \in BoundsOf(cs),
         NEW ac, ac = ComputeRowActivity(k, cs, e), NEW r, r.rhs \in Int,
         NEW b, b \in FromRhs(k, cs, ac, r, e)
  PROVE  b.val \in Int
<1> DEFINE c == b.col
           n == r.rhs - RestOf(k, ac, e, c)
<1>1. c \in cs /\ b.val = IF k[c] < 0 THEN CeilDiv(n, k[c]) ELSE FloorDiv(n, k[c])
  BY RhsBoundShape DEF BoundOf
<1>2. k[c] \in Int /\ k[c] # 0 /\ MinTerm(k, e, c) \in Int /\ ac.min \in Int
  BY <1>1, TermsTyped, ActivityTyped DEF Coefs, MinTerms
<1>3. n \in Int
  BY <1>2 DEF RestOf
<1> HIDE DEF n, c
<1>4. FloorDiv(n, k[c]) \in Int /\ CeilDiv(n, k[c]) \in Int
  BY <1>2, <1>3 DEF FloorDiv, CeilDiv
<1> QED BY <1>1, <1>4

(* An integer whose multiple is at most n is at most the rounded quotient.  *)
LEMMA FloorDivBound ==
  ASSUME NEW k \in Int, k > 0, NEW n \in Int, NEW x \in Int, k * x <= n
  PROVE  x <= n \div k
<1> DEFINE q == n \div k
<1>1. q \in Int /\ n < k * q + k
  OBVIOUS
<1> HIDE DEF q
<1>2. SUFFICES ASSUME x >= q + 1 PROVE FALSE
  BY <1>1 DEF q
<1>3. k * (q + 1) <= k * x
  BY <1>1, <1>2, ProductOrder
<1>4. k * (q + 1) = k * q + k /\ k * q \in Int /\ k * x \in Int
  BY <1>1
<1> QED BY <1>1, <1>3, <1>4

(* What a bound on a multiple says about the integer, for factors of both   *)
(* signs.                                                                   *)
LEMMA DividedBound ==
  ASSUME NEW k \in Int, NEW n \in Int, NEW x \in Int, k * x <= n
  PROVE  /\ k > 0 => x <= FloorDiv(n, k)
         /\ k < 0 => x >= CeilDiv(n, k)
<1>1. CASE k > 0
  <2>1. FloorDiv(n, k) = n \div k
    BY <1>1 DEF FloorDiv
  <2> QED BY <1>1, <2>1, FloorDivBound
<1>2. CASE k < 0
  <2> DEFINE m == -k
             y == -x
             q == n \div m
  <2>1. m \in Int /\ m > 0 /\ y \in Int /\ m * y = k * x
    BY <1>2
  <2>2. CeilDiv(n, k) = -q
    <3>1. -(-n) = n
      OBVIOUS
    <3> QED BY <1>2, <3>1 DEF CeilDiv, FloorDiv
  <2>3. q \in Int
    BY <2>1
  <2>4. y <= q
    <3>1. m * y <= n
      BY <2>1
    <3> HIDE DEF m, y
    <3> QED BY <2>1, <3>1, FloorDivBound
  <2> HIDE DEF q
  <2> QED BY <1>2, <2>2, <2>3, <2>4
<1> QED BY <1>1, <1>2

(* What the other columns contribute at least, also if the column itself is *)
(* the only infinite contribution.                                          *)
LEMMA RestBelow ==
  ASSUME NEW cs, IsFiniteSet(cs), NEW k \in Coefs(cs), NEW e \in BoundsOf(cs),
         NEW x \in [cs -> Int], Within(cs, e, x), NEW ac, ac = ComputeRowActivity(k, cs, e),
         ~(ac.ninfmin > 1), NEW c \in Targets(k, cs, ac, e)
  PROVE  /\ RestOf(k, ac, e, c) \in Int
         /\ RestOf(k, ac, e, c) <= SumFunctionOnSet(Terms(k, cs, x), cs) - k[c] * x[c]
<1> DEFINE f == MinTerms(k, cs, e)
           g == Terms(k, cs, x)
           T == cs \ {c}
<1>1. c \in cs /\ k[c] \in Int /\ x[c] \in Int /\ k[c] * x[c] \in Int
  BY DEF Targets, Coefs
<1>2. IsFiniteSet(T) /\ T \in SUBSET cs
  BY FS_Subset
<1>3. SumFunctionOnSet(g, cs) = k[c] * x[c] + SumFunctionOnSet(g, T)
  <2>1. \A z \in cs : k[z] \in Int /\ x[z] \in Int
    BY DEF Coefs
  <2>2. (\A z \in cs : g[z] \in Int) /\ g[c] = k[c] * x[c]
    BY <1>1, <2>1 DEF Terms
  <2> HIDE DEF g
  <2> QED BY <1>1, <2>2, SumRemove
<1>4. RestOf(k, ac, e, c) = SumFunctionOnSet(f, T) /\ T \cap InfMin(k, cs, e) = {}
  <2>1. CASE ac.ninfmin = 1
    <3>1. IsFiniteSet(InfMin(k, cs, e)) /\ Cardinality(InfMin(k, cs, e)) = 1 /\ c \in InfMin(k, cs, e)
      BY <2>1, ActivityFields, FS_Subset DEF Targets, InfMin
    <3>2. InfMin(k, cs, e) = {c}
      BY <3>1, FS_Singleton
    <3>3. ac.min = SumFunctionOnSet(f, T) /\ ac.min \in Int
      BY <3>2, ActivityFields, ActivityTyped
    <3>4. RestOf(k, ac, e, c) = ac.min
      BY <2>1, <3>3 DEF RestOf
    <3> QED BY <3>2, <3>3, <3>4
  <2>2. CASE ac.ninfmin # 1
    <3>1. ac.ninfmin = 0 /\ InfMin(k, cs, e) = {}
      BY <2>2, ActivityTyped
    <3>2. ac.min = SumFunctionOnSet(f, cs)
      <4>1. cs \ InfMin(k, cs, e) = cs
        BY <3>1
      <4> QED BY <4>1, ActivityFields
    <3>3. (\A z \in cs : f[z] \in Int) /\ f[c] = MinTerm(k, e, c)
      BY <1>1, TermsTyped DEF MinTerms
    <3>4. SumFunctionOnSet(f, cs) = f[c] + SumFunctionOnSet(f, T)
      <4> HIDE DEF f
      <4> QED BY <1>1, <3>3, SumRemove
    <3>5. SumFunctionOnSet(f, T) \in Int
      <4>1. \A z \in T : f[z] \in Int
        BY <3>3
      <4> HIDE DEF f, T
      <4> QED BY <1>2, <4>1, SumInt
    <3>6. RestOf(k, ac, e, c) = ac.min - f[c]
      BY <2>2, <3>3 DEF RestOf
    <3>7. f[c] \in Int
      BY <1>1, <3>3
    <3> HIDE DEF f, T
    <3> QED BY <3>1, <3>2, <3>4, <3>5, <3>6, <3>7
  <2> QED BY <2>1, <2>2
<1>5. /\ SumFunctionOnSet(f, T) \in Int /\ SumFunctionOnSet(g, T) \in Int
      /\ SumFunctionOnSet(f, T) <= SumFunctionOnSet(g, T)
  <2> HIDE DEF T
  <2> QED BY <1>2, <1>4, MinSumBelow
<1> HIDE DEF f, g, T
<1> QED BY <1>1, <1>3, <1>4, <1>5 DEF f, g, T

(* A bound from the right hand side cuts off no integral point below that   *)
(* side.                                                                    *)
LEMMA RhsSound ==
  ASSUME NEW cs, IsFiniteSet(cs), NEW k \in Coefs(cs), NEW e \in BoundsOf(cs),
         NEW x \in [cs -> Int], Within(cs, e, x), NEW ac, ac = ComputeRowActivity(k, cs, e),
         NEW r, r.rhs \in Int, r.rhsInf \/ SumFunctionOnSet(Terms(k, cs, x), cs) <= r.rhs,
         NEW b, b \in FromRhs(k, cs, ac, r, e)
  PROVE  IF b.lower THEN x[b.col] >= b.val ELSE x[b.col] <= b.val
<1> DEFINE c == b.col
           rest == RestOf(k, ac, e, c)
<1>1. /\ c \in Targets(k, cs, ac, e) /\ c \in cs /\ b.lower = (k[c] < 0)
      /\ b.val = BoundOf(k, ac, r, e, c) /\ ~r.rhsInf /\ ~(ac.ninfmin > 1)
  BY RhsBoundShape
<1>2. rest \in Int /\ rest <= SumFunctionOnSet(Terms(k, cs, x), cs) - k[c] * x[c]
  <2> HIDE DEF c
  <2> QED BY <1>1, RestBelow
<1>3. k[c] \in Int /\ k[c] # 0 /\ x[c] \in Int /\ k[c] * x[c] \in Int
  BY <1>1 DEF Coefs
<1>4. SumFunctionOnSet(Terms(k, cs, x), cs) \in Int
  BY NegatedTerms
<1> DEFINE n == r.rhs - rest
<1>5. n \in Int /\ k[c] * x[c] <= n
  <2> HIDE DEF rest, c
  <2> QED BY <1>1, <1>2, <1>3, <1>4
<1>6. b.val = IF k[c] < 0 THEN CeilDiv(n, k[c]) ELSE FloorDiv(n, k[c])
  BY <1>1 DEF BoundOf
<1>7. /\ k[c] > 0 => x[c] <= FloorDiv(n, k[c])
      /\ k[c] < 0 => x[c] >= CeilDiv(n, k[c])
  <2> HIDE DEF c, n
  <2> QED BY <1>3, <1>5, DividedBound
<1>8. CASE k[c] > 0
  <2>1. ~b.lower /\ x[c] <= b.val
    <3>1. ~(k[c] < 0)
      BY <1>3, <1>8
    <3> HIDE DEF n, c
    <3>2. b.val = FloorDiv(n, k[c])
      BY <1>6, <3>1
    <3> QED BY <1>1, <1>7, <1>8, <3>1, <3>2
  <2> QED BY <2>1
<1>9. CASE k[c] < 0
  <2>1. b.lower /\ x[c] >= b.val
    <3> HIDE DEF n, c
    <3> QED BY <1>1, <1>3, <1>6, <1>7, <1>9
  <2> QED BY <2>1
<1> QED BY <1>3, <1>8, <1>9

(* Sides are integers.                                                      *)
LEMMA SidesTyped ==
  ASSUME TypeOK
  PROVE  row.lhs \in Int /\ row.rhs \in Int /\ row.lhsInf \in BOOLEAN /\ row.rhsInf \in BOOLEAN
<1>1. SideChoices \cup {0} \subseteq Int
  BY RowAssumption
<1>2. /\ row.lhs \in SideChoices \cup {0} /\ row.rhs \in SideChoices \cup {0}
      /\ row.lhsInf \in BOOLEAN /\ row.rhsInf \in BOOLEAN
  BY DEF TypeOK, Sides
<1> QED BY <1>1, <1>2

(* The points of the run fit the lemmas.                                    *)
LEMMA PointShape ==
  ASSUME TypeOK, NEW x \in Points
  PROVE  /\ x \in [Cols -> Int] /\ Within(Cols, d, x)
         /\ Activity(x) = SumFunctionOnSet(Terms(a, Cols, x), Cols)
         /\ Activity(x) \in Int
<1>1. x \in [Cols -> Int] /\ Within(Cols, d, x)
  BY RowAssumption DEF Points, InDomain, Within, Values
<1>2. Activity(x) = SumFunctionOnSet(Terms(a, Cols, x), Cols)
  BY DEF Activity, Terms
<1> QED BY <1>1, <1>2, CoefsTyped, NegatedTerms

(* Every propagated bound is an integer.                                    *)
LEMMA PropagatedValue ==
  ASSUME ActivityInv, NEW b \in PropagateRow(a, Cols, act, row, d)
  PROVE  b.val \in Int
<1>1. /\ TypeOK /\ act = ComputeRowActivity(a, Cols, d)
      /\ a \in Coefs(Cols) /\ IsFiniteSet(Cols) /\ d \in BoundsOf(Cols)
  BY CoefsTyped DEF ActivityInv, ActivityExact, TypeOK
<1>2. row.lhs \in Int /\ row.rhs \in Int
  BY <1>1, SidesTyped
<1>3. CASE b \in FromRhs(a, Cols, act, row, d)
  BY <1>1, <1>2, <1>3, RhsValue
<1>4. CASE b \in FromLhs(a, Cols, act, row, d)
  <2> DEFINE k == Negated(a)
             ac == [min |-> -act.max, max |-> -act.min,
                    ninfmin |-> act.ninfmax, ninfmax |-> act.ninfmin]
             r == [lhs |-> -row.rhs, rhs |-> -row.lhs, lhsInf |-> row.rhsInf, rhsInf |-> row.lhsInf]
  <2>1. b \in FromRhs(k, Cols, ac, r, d)
    BY <1>4 DEF FromLhs, Negated
  <2>2. k \in Coefs(Cols) /\ ac = ComputeRowActivity(k, Cols, d)
    BY <1>1, NegatedActivity
  <2>3. r.rhs \in Int
    BY <1>2
  <2> HIDE DEF k, ac, r
  <2> QED BY <1>1, <2>1, <2>2, <2>3, RhsValue
<1> QED BY <1>3, <1>4 DEF PropagateRow

(* Whatever the state, an exact activity gives sound verdicts.              *)
LEMMA StatusOfExactActivity == ActivityInv => StatusSound
<1> SUFFICES ASSUME ActivityInv, NEW x \in Points
             PROVE  /\ CheckStatus(act, row) = "redundant" => Satisfies(x)
                    /\ CheckStatus(act, row) = "redundantLhs" => Activity(x) >= row.lhs
                    /\ CheckStatus(act, row) = "redundantRhs" => Activity(x) <= row.rhs
                    /\ CheckStatus(act, row) = "infeasible" => ~Satisfies(x)
  BY DEF StatusSound
<1>1. /\ TypeOK /\ act = ComputeRowActivity(a, Cols, d)
      /\ a \in Coefs(Cols) /\ IsFiniteSet(Cols) /\ d \in BoundsOf(Cols)
  BY CoefsTyped DEF ActivityInv, ActivityExact, TypeOK
<1>2. /\ x \in [Cols -> Int] /\ Within(Cols, d, x) /\ Activity(x) \in Int
      /\ Activity(x) = SumFunctionOnSet(Terms(a, Cols, x), Cols)
  BY <1>1, PointShape
<1>3. act.min \in Int /\ act.max \in Int
  BY <1>1, ActivityTyped
<1>4. act.ninfmin = 0 => act.min <= Activity(x)
  BY <1>1, <1>2, MinActivityBelow
<1>5. act.ninfmax = 0 => act.max >= Activity(x)
  BY <1>1, <1>2, MaxActivityAbove
<1>6. row.lhs \in Int /\ row.rhs \in Int
  BY <1>1, SidesTyped
<1>7. Violated(act, row) => ~Satisfies(x)
  BY <1>2, <1>3, <1>4, <1>5, <1>6 DEF Violated, Satisfies
<1>8. /\ LhsHolds(act, row) => row.lhsInf \/ Activity(x) >= row.lhs
      /\ RhsHolds(act, row) => row.rhsInf \/ Activity(x) <= row.rhs
  BY <1>2, <1>3, <1>4, <1>5, <1>6 DEF LhsHolds, RhsHolds
<1> QED BY <1>7, <1>8 DEF CheckStatus, Satisfies

(* checkStatus never calls a row redundant or infeasible that is not, for   *)
(* any row and any bounds.                                                  *)
THEOREM StatusIsSound == Spec => []StatusSound
BY StatusOfExactActivity, ActivityInvariant, PTL

(* Whatever the state, an exact activity gives sound bounds.                *)
LEMMA PropagationOfExactActivity == ActivityInv => PropagationSound
<1> SUFFICES ASSUME ActivityInv, NEW b \in PropagateRow(a, Cols, act, row, d), NEW x \in Points,
                    Satisfies(x)
             PROVE  IF b.lower THEN x[b.col] >= b.val ELSE x[b.col] <= b.val
  BY DEF PropagationSound
<1>1. /\ TypeOK /\ act = ComputeRowActivity(a, Cols, d)
      /\ a \in Coefs(Cols) /\ IsFiniteSet(Cols) /\ d \in BoundsOf(Cols)
  BY CoefsTyped DEF ActivityInv, ActivityExact, TypeOK
<1>2. /\ x \in [Cols -> Int] /\ Within(Cols, d, x) /\ Activity(x) \in Int
      /\ Activity(x) = SumFunctionOnSet(Terms(a, Cols, x), Cols)
  BY <1>1, PointShape
<1>3. row.lhs \in Int /\ row.rhs \in Int
  BY <1>1, SidesTyped
<1>4. CASE b \in FromRhs(a, Cols, act, row, d)
  <2>1. row.rhsInf \/ SumFunctionOnSet(Terms(a, Cols, x), Cols) <= row.rhs
    BY <1>2 DEF Satisfies
  <2> QED BY <1>1, <1>2, <1>3, <1>4, <2>1, RhsSound
<1>5. CASE b \in FromLhs(a, Cols, act, row, d)
  <2> DEFINE k == Negated(a)
             ac == [min |-> -act.max, max |-> -act.min,
                    ninfmin |-> act.ninfmax, ninfmax |-> act.ninfmin]
             r == [lhs |-> -row.rhs, rhs |-> -row.lhs, lhsInf |-> row.rhsInf, rhsInf |-> row.lhsInf]
  <2>1. b \in FromRhs(k, Cols, ac, r, d)
    BY <1>5 DEF FromLhs, Negated
  <2>2. k \in Coefs(Cols) /\ ac = ComputeRowActivity(k, Cols, d)
    BY <1>1, NegatedActivity
  <2>3. r.rhs \in Int /\ r.rhs = -row.lhs /\ (r.rhsInf <=> row.lhsInf)
    BY <1>3
  <2>4. SumFunctionOnSet(Terms(k, Cols, x), Cols) = -Activity(x)
    BY <1>1, <1>2, NegatedTerms
  <2>5. r.rhsInf \/ SumFunctionOnSet(Terms(k, Cols, x), Cols) <= r.rhs
    BY <1>2, <1>3, <2>3, <2>4 DEF Satisfies
  <2> HIDE DEF k, ac, r
  <2> QED BY <1>1, <1>2, <2>1, <2>2, <2>3, <2>5, RhsSound
<1> QED BY <1>4, <1>5 DEF PropagateRow

(* propagate_row cuts off no integral point that satisfies the row, for any *)
(* row and any bounds.                                                      *)
THEOREM PropagationIsSound == Spec => []PropagationSound
BY PropagationOfExactActivity, ActivityInvariant, PTL

-----------------------------------------------------------------------------
(* The inductive invariant: a refused bound leaves the domains as they are. *)
InfeasibleInv == ActivityInv /\ InfeasibleSound

(* A step that finds the row infeasible does so from a sound bound, and no  *)
(* step follows it.                                                         *)
LEMMA InfeasibleStep == InfeasibleInv /\ [Next]_vars => InfeasibleInv'
<1> SUFFICES ASSUME InfeasibleInv, [Next]_vars PROVE InfeasibleSound'
  BY NextActivity DEF InfeasibleInv
<1>1. CASE Propagate
  <2>1. PICK b \in PropagateRow(a, Cols, act, row, d) :
          \/ b.val \in Values /\ ChangeBound(b)
          \/ Crosses(b) /\ infeasible' = TRUE /\ UNCHANGED <<a, row, d, act>>
    BY <1>1 DEF Propagate
  <2>2. CASE ChangeBound(b)
    BY <1>1, <2>2 DEF ChangeBound, Propagate, InfeasibleSound
  <2>3. CASE Crosses(b) /\ UNCHANGED <<a, row, d, act>>
    <3>1. ASSUME NEW x \in Points PROVE ~Satisfies(x)
      <4>1. TypeOK /\ x \in [Cols -> Int] /\ Within(Cols, d, x)
        BY PointShape DEF InfeasibleInv, ActivityInv
      <4>2. b.col \in Cols /\ b.lower \in BOOLEAN /\ b.val \in Int
        BY <4>1, PropagatedShape, PropagatedValue DEF InfeasibleInv
      <4>3. d.lb[b.col] \in Int /\ d.ub[b.col] \in Int /\ x[b.col] \in Int
        BY <4>1, <4>2 DEF TypeOK, BoundsOf
      <4>4. IF b.lower THEN x[b.col] < b.val ELSE x[b.col] > b.val
        BY <2>3, <4>1, <4>2, <4>3 DEF Crosses, Within
      <4>5. Satisfies(x) => IF b.lower THEN x[b.col] >= b.val ELSE x[b.col] <= b.val
        BY PropagationOfExactActivity DEF InfeasibleInv, PropagationSound
      <4> QED BY <4>2, <4>3, <4>4, <4>5
    <3> QED BY <2>3, <3>1 DEF InfeasibleSound, Points, InDomain, Satisfies, Activity
  <2> QED BY <2>1, <2>2, <2>3
<1>2. CASE Tighten
  BY <1>2 DEF Tighten, ChangeBound, InfeasibleSound
<1>3. CASE UNCHANGED vars
  BY <1>3 DEF vars, InfeasibleInv, InfeasibleSound, Points, InDomain, Satisfies, Activity
<1> QED BY <1>1, <1>2, <1>3 DEF Next

(* A row that propagation calls infeasible has no integral point.           *)
THEOREM InfeasibleIsSound == Spec => []InfeasibleSound
<1>1. Init => InfeasibleInv
  BY InitActivity DEF Init, InfeasibleInv, InfeasibleSound
<1>2. InfeasibleInv => InfeasibleSound
  BY DEF InfeasibleInv
<1> QED BY <1>1, <1>2, InfeasibleStep, PTL DEF Spec
=================================================================================
