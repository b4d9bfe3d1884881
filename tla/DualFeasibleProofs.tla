--------------------------- MODULE DualFeasibleProofs ---------------------------
(***************************************************************************)
(* Proof that undoing the records of dual postsolve leads from a feasible  *)
(* point to a feasible point (StepFeasible): for every linear program with *)
(* coefficients 0, 1 and -1, every sequence of reductions and every        *)
(* solution the solver may hand over.                                      *)
(*                                                                         *)
(* The argument: what a record stands for is a statement on points.        *)
(* Undoing it leads every solution of the program after the change to a     *)
(* solution of the program before (LeadsBack).  Two kinds of records only   *)
(* make sense together: the records of a substitution, and the rows that    *)
(* fall with a column at infinity.  Within them a point owes something      *)
(* else than to be feasible (Owed).                                         *)
(***************************************************************************)
EXTENDS DualRoundTripProofs

-----------------------------------------------------------------------------
(* What undoing a record does to a point                                    *)

Points == [Cols -> Int]
Solutions(lp) == {x \in Points : Satisfies(lp, x)}

(* The column is back, beyond its bound and far enough for each of its rows *)
FarEnough(rec, x, y) ==
  /\ y \in Points
  /\ \A d \in Cols \ {rec.col} : y[d] = x[d]
  /\ IF rec.up THEN Number(rec.bound) <= y[rec.col] ELSE y[rec.col] <= Number(rec.bound)
  /\ \A i \in DOMAIN rec.rows : LET v == ValueForRow(rec, rec.rows[i], x)
                                IN IF rec.up THEN v <= y[rec.col] ELSE y[rec.col] <= v

Split(rec, v) == Primal!SplitContinuous(WithFlags(rec), v)

Undone(rec, x, y) ==
  CASE rec.type = "fixedCol" -> y = [x EXCEPT ![rec.col] = rec.val]
    [] rec.type = "fixedInf" -> FarEnough(rec, x, y)
    [] rec.type = "substituted" -> y = [x EXCEPT ![rec.col] = SolveEquation(rec, x)]
    [] rec.type = "parallelCol" -> LET val == Split(rec, x[rec.col2])
                                   IN y = [x EXCEPT ![rec.col1] = val.val1, ![rec.col2] = val.val2]
    [] OTHER -> y = x

-----------------------------------------------------------------------------
(* What a storage promises                                                  *)

(* Record s is a substitution, the records after it up to j belong to it.   *)
InGroup(log, s, j) ==
  /\ s \in 1..(j - 1)
  /\ log[s].rec.type = "substituted"
  /\ \A k \in (s + 1)..j : BelongsToSubstitution(log, k)

(* What a point owes when record j was the last one undone                  *)
Owed(log, j, y) ==
  /\ y \in Points
  /\ IF BelongsToSubstitution(log, j)
     THEN \A s \in 1..(j - 1) : \A z : InGroup(log, s, j) /\ Undone(log[s].rec, y, z) => z \in Solutions(log[s].before)
     ELSE y \in Solutions(log[j].before)

(* The record that counts as undone last after a turn with record i         *)
Target(log, i) == IF log[i].rec.type = "fixedInf" THEN i - Len(log[i].rec.rows) ELSE i

(* Record i is a row that fell with a column at infinity: it is undone      *)
(* together with the column.                                                *)
Skipped(log, i) ==
  \E f \in (i + 1)..Len(log) : log[f].rec.type = "fixedInf" /\ i >= f - Len(log[f].rec.rows)

LeadsBack(log, i, S) ==
  \A x \in S : \A y : Undone(log[i].rec, x, y) => Owed(log, Target(log, i), y)

Carries(log, i) ==
  \/ Skipped(log, i)
  \/ BelongsToSubstitution(log, i + 1)
  \/ LeadsBack(log, i, Solutions(log[i + 1].before))

(* A record that dual fixing made of a column and its rows                  *)
MadeAtInfinity(rec) ==
  \E lp, c, up, rows : /\ WellFormed(lp) /\ c \in lp.cols /\ up \in BOOLEAN
                       /\ IsAscending(rows, ColRows(lp, c))
                       /\ rec = FixedInfRecord(lp, c, up, rows)

(* The records right before that of a column at infinity are its rows.      *)
AtInfinity(log, f) ==
  log[f].rec.type = "fixedInf" =>
    /\ MadeAtInfinity(log[f].rec)
    /\ \A j \in (f - Len(log[f].rec.rows))..(f - 1) : log[j].rec.type = "redundantRow"

(* From the points of S undoing the records leads back.                     *)
Reaches(log, S) ==
  /\ S \subseteq Points
  /\ \A i \in 1..Len(log) : AtInfinity(log, i)
  /\ \A i \in 1..(Len(log) - 1) : Carries(log, i)
  /\ Len(log) > 0 => LeadsBack(log, Len(log), S)

Carrying(t) == Reaches(t.log, Solutions(t.lp))

Extends(new, log) ==
  IsLog(new) /\ IsLog(log) /\ Len(log) <= Len(new) /\ \A i \in 1..Len(log) : new[i] = log[i]

(* The positions of a log                                                   *)
LEMMA LogDomain ==
  ASSUME NEW log, IsLog(log)
  PROVE  Len(log) \in Nat /\ DOMAIN log = 1..Len(log)
BY LenProperties DEF IsLog

(* Records that belong to a substitution follow it or one another.          *)
LEMMA BelongsChain ==
  ASSUME NEW log, IsLog(log), NEW j \in 1..Len(log), BelongsToSubstitution(log, j)
  PROVE  /\ log[j].rec.type \in {"rowBoundChange", "coefficientChange", "redundantRow"}
         /\ j - 1 \in 1..Len(log)
         /\ log[j - 1].rec.type = "substituted" \/ BelongsToSubstitution(log, j - 1)
<1> DEFINE rec == log[j].rec
<1>1. DOMAIN log = 1..Len(log) /\ Len(log) \in Nat
  BY LogDomain
<1>2. \A i \in Int : TypeAt(log, i) # "none" => i \in 1..Len(log) /\ TypeAt(log, i) = log[i].rec.type
  BY <1>1 DEF TypeAt
<1>3. \/ /\ rec.type = "rowBoundChange"
         /\ TypeAt(log, j - 1) = "coefficientChange" /\ TypeAt(log, j - 2) = "substituted"
      \/ /\ rec.type = "rowBoundChange"
         /\ TypeAt(log, j - 1) = "rowBoundChange"
         /\ TypeAt(log, j - 2) = "coefficientChange" /\ TypeAt(log, j - 3) = "substituted"
         /\ \A k \in 1..2 : rec.row = log[j - k].rec.row
         /\ rec.row = log[j - 3].rec.equation.row
      \/ /\ rec.type \in {"coefficientChange", "redundantRow"}
         /\ TypeAt(log, j - 1) = "substituted"
  BY DEF BelongsToSubstitution
<1>4. CASE rec.type = "rowBoundChange" /\ TypeAt(log, j - 1) = "coefficientChange"
           /\ TypeAt(log, j - 2) = "substituted"
  <2>1. log[j - 1].rec.type = "coefficientChange" /\ j - 1 \in 1..Len(log)
    BY <1>2, <1>4
  <2>2. j - 1 - 1 = j - 2
    OBVIOUS
  <2>3. BelongsToSubstitution(log, j - 1)
    BY <1>4, <2>1, <2>2 DEF BelongsToSubstitution
  <2> QED BY <1>4, <2>1, <2>3
<1>5. CASE /\ rec.type = "rowBoundChange"
           /\ TypeAt(log, j - 1) = "rowBoundChange"
           /\ TypeAt(log, j - 2) = "coefficientChange" /\ TypeAt(log, j - 3) = "substituted"
           /\ \A k \in 1..2 : rec.row = log[j - k].rec.row
           /\ rec.row = log[j - 3].rec.equation.row
  <2>1. log[j - 1].rec.type = "rowBoundChange" /\ j - 1 \in 1..Len(log)
    BY <1>2, <1>5
  <2>2. j - 1 - 1 = j - 2 /\ j - 1 - 2 = j - 3
    OBVIOUS
  <2>3. log[j - 1].rec.row = log[j - 2].rec.row /\ log[j - 1].rec.row = log[j - 3].rec.equation.row
    BY <1>5
  <2>4. BelongsToSubstitution(log, j - 1)
    BY <1>5, <2>1, <2>2, <2>3 DEF BelongsToSubstitution
  <2> QED BY <1>5, <2>1, <2>4
<1>6. CASE rec.type \in {"coefficientChange", "redundantRow"} /\ TypeAt(log, j - 1) = "substituted"
  BY <1>2, <1>6
<1> QED BY <1>3, <1>4, <1>5, <1>6

(* Whether a record belongs to a substitution depends on those before it.   *)
LEMMA BelongsSame ==
  ASSUME NEW new, NEW log, Extends(new, log), NEW j \in 1..Len(log)
  PROVE  BelongsToSubstitution(new, j) <=> BelongsToSubstitution(log, j)
<1>1. /\ DOMAIN log = 1..Len(log) /\ Len(log) \in Nat
      /\ DOMAIN new = 1..Len(new) /\ Len(new) \in Nat
      /\ Len(log) <= Len(new) /\ \A i \in 1..Len(log) : new[i] = log[i]
  BY LogDomain DEF Extends
<1>2. \A i \in Int : i <= j => TypeAt(new, i) = TypeAt(log, i)
  BY <1>1 DEF TypeAt
<1>3. /\ TypeAt(new, j - 1) = TypeAt(log, j - 1) /\ TypeAt(new, j - 2) = TypeAt(log, j - 2)
      /\ TypeAt(new, j - 3) = TypeAt(log, j - 3)
  BY <1>2
<1>4. \A i \in Int : i <= j /\ TypeAt(log, i) # "none" => new[i] = log[i]
  BY <1>1 DEF TypeAt
<1>5. /\ TypeAt(log, j - 1) # "none" => new[j - 1] = log[j - 1]
      /\ TypeAt(log, j - 2) # "none" => new[j - 2] = log[j - 2]
      /\ TypeAt(log, j - 3) # "none" => new[j - 3] = log[j - 3]
  BY <1>4
<1>6. TypeAt(log, j - 1) # "none" /\ TypeAt(log, j - 2) # "none" => \A k \in 1..2 : new[j - k] = log[j - k]
  <2> SUFFICES ASSUME TypeAt(log, j - 1) # "none", TypeAt(log, j - 2) # "none", NEW k \in 1..2
               PROVE  new[j - k] = log[j - k]
    OBVIOUS
  <2>1. k = 1 \/ k = 2
    OBVIOUS
  <2> QED BY <1>5, <2>1
<1>7. new[j] = log[j]
  BY <1>1
<1> QED BY <1>3, <1>5, <1>6, <1>7 DEF BelongsToSubstitution

(* Records of rows and sides leave a point as it is.                        *)
LEMMA SamePoint ==
  ASSUME NEW rec, rec.type \notin {"fixedCol", "fixedInf", "substituted", "parallelCol"}, NEW x, NEW y
  PROVE  Undone(rec, x, y) <=> y = x
BY DEF Undone

(* What is owed at a record does not depend on later ones.                  *)
LEMMA OwedSame ==
  ASSUME NEW new, NEW log, Extends(new, log), NEW j \in 1..Len(log), NEW y
  PROVE  Owed(new, j, y) <=> Owed(log, j, y)
<1>1. /\ Len(log) \in Nat /\ Len(new) \in Nat
      /\ Len(log) <= Len(new) /\ \A i \in 1..Len(log) : new[i] = log[i]
  BY LogDomain DEF Extends
<1>2. \A k \in 1..j : (BelongsToSubstitution(new, k) <=> BelongsToSubstitution(log, k)) /\ new[k] = log[k]
  BY <1>1, BelongsSame
<1>3. \A s \in 1..(j - 1) : (InGroup(new, s, j) <=> InGroup(log, s, j)) /\ new[s] = log[s]
  BY <1>2 DEF InGroup
<1>4. (BelongsToSubstitution(new, j) <=> BelongsToSubstitution(log, j)) /\ new[j] = log[j]
  <2>1. j \in 1..j
    BY <1>1
  <2> QED BY <1>2, <2>1
<1>5. CASE BelongsToSubstitution(log, j)
  BY <1>3, <1>4, <1>5 DEF Owed
<1>6. CASE ~BelongsToSubstitution(log, j)
  BY <1>4, <1>6 DEF Owed
<1> QED BY <1>5, <1>6

(* ... and neither does what a record leads back to.                        *)
LEMMA CarriesSame ==
  ASSUME NEW new, NEW log, Extends(new, log), NEW i \in 1..(Len(log) - 1), RowsBefore(log, i), Carries(log, i)
  PROVE  Carries(new, i)
<1>1. /\ Len(log) \in Nat /\ Len(new) \in Nat
      /\ Len(log) <= Len(new) /\ \A k \in 1..Len(log) : new[k] = log[k]
  BY LogDomain DEF Extends
<1>2. CASE Skipped(log, i)
  BY <1>1, <1>2 DEF Carries, Skipped
<1>3. CASE BelongsToSubstitution(log, i + 1)
  <2>1. i + 1 \in 1..Len(log)
    BY <1>1
  <2> QED BY <1>3, <2>1, BelongsSame DEF Carries
<1>4. CASE LeadsBack(log, i, Solutions(log[i + 1].before))
  <2>1. i \in 1..Len(log) /\ i + 1 \in 1..Len(log) /\ new[i] = log[i] /\ new[i + 1] = log[i + 1]
    BY <1>1
  <2>2. Target(new, i) = Target(log, i) /\ Target(log, i) \in 1..Len(log)
    BY <1>1, <2>1 DEF Target, RowsBefore
  <2>3. \A y : Owed(log, Target(log, i), y) => Owed(new, Target(new, i), y)
    BY <2>2, OwedSame
  <2>4. LeadsBack(new, i, Solutions(new[i + 1].before))
    BY <1>4, <2>1, <2>3 DEF LeadsBack
  <2> QED BY <2>4 DEF Carries
<1> QED BY <1>2, <1>3, <1>4 DEF Carries

(* ... nor does what a record of a column at infinity is made of.           *)
LEMMA InfinitySame ==
  ASSUME NEW new, NEW log, Extends(new, log), NEW i \in 1..Len(log), RowsBefore(log, i), AtInfinity(log, i)
  PROVE  AtInfinity(new, i)
<1>1. /\ Len(log) \in Nat /\ Len(new) \in Nat
      /\ Len(log) <= Len(new) /\ \A k \in 1..Len(log) : new[k] = log[k]
  BY LogDomain DEF Extends
<1>2. new[i] = log[i]
  BY <1>1
<1>3. ASSUME log[i].rec.type = "fixedInf", NEW j \in (i - Len(log[i].rec.rows))..(i - 1)
      PROVE  new[j].rec.type = "redundantRow"
  <2>1. Len(log[i].rec.rows) \in Nat /\ Len(log[i].rec.rows) < i
    BY <1>3 DEF RowsBefore
  <2>2. j \in 1..Len(log)
    BY <1>1, <2>1
  <2>3. log[j].rec.type = "redundantRow"
    BY <1>3 DEF AtInfinity
  <2> QED BY <1>1, <2>2, <2>3
<1> QED BY <1>2, <1>3 DEF AtInfinity

(* A point that leads back from the end of a log owes nothing else where a  *)
(* substitution goes on after it.                                           *)
LEMMA OwedAfter ==
  ASSUME NEW new, NEW log, Extends(new, log), Len(log) < Len(new),
         NEW S, Reaches(log, S), NEW y \in S, BelongsToSubstitution(new, Len(log) + 1)
  PROVE  Owed(new, Len(log) + 1, y)
<1> DEFINE k == Len(log)
<1>1. /\ k \in Nat /\ Len(new) \in Nat /\ IsLog(new) /\ IsLog(log)
      /\ k < Len(new) /\ \A i \in 1..k : new[i] = log[i]
  BY LogDomain DEF Extends
<1>2. BelongsToSubstitution(new, k + 1)
  OBVIOUS
<1>3. S \subseteq Points /\ (k > 0 => LeadsBack(log, k, S))
  BY DEF Reaches
<1> HIDE DEF k
<1>4. SUFFICES ASSUME NEW s \in 1..k, NEW z, InGroup(new, s, k + 1), Undone(new[s].rec, y, z)
               PROVE  z \in Solutions(new[s].before)
  BY <1>1, <1>2, <1>3 DEF Owed, k
<1>5. k \in 1..k /\ k > 0 /\ new[s] = log[s] /\ new[k] = log[k]
  BY <1>1
<1>6. LeadsBack(log, k, S) /\ log[s].rec.type = "substituted"
  BY <1>3, <1>4, <1>5 DEF InGroup
<1>7. CASE s = k
  <2>1. Target(log, k) = k
    BY <1>6, <1>7 DEF Target
  <2>2. Owed(log, k, z)
    BY <1>4, <1>5, <1>6, <1>7, <2>1 DEF LeadsBack
  <2>3. ~BelongsToSubstitution(log, k)
    BY <1>6, <1>7 DEF BelongsToSubstitution
  <2> QED BY <1>5, <1>7, <2>2, <2>3 DEF Owed
<1>8. CASE s # k
  <2>1. s \in 1..(k - 1) /\ \A j \in (s + 1)..k : j \in (s + 1)..(k + 1) /\ j \in 1..k
    BY <1>1, <1>8
  <2>2. \A j \in (s + 1)..k : BelongsToSubstitution(log, j)
    BY <1>4, <2>1, BelongsSame DEF InGroup, k
  <2>3. InGroup(log, s, k) /\ BelongsToSubstitution(log, k)
    BY <1>1, <1>6, <2>1, <2>2 DEF InGroup
  <2>4. log[k].rec.type \in {"rowBoundChange", "coefficientChange", "redundantRow"}
    BY <1>1, <1>5, <2>3, BelongsChain DEF k
  <2>5. Undone(log[k].rec, y, y) /\ Target(log, k) = k
    BY <2>4, SamePoint DEF Target
  <2>6. Owed(log, k, y)
    BY <1>6, <2>5 DEF LeadsBack
  <2> QED BY <1>4, <1>5, <2>1, <2>3, <2>6 DEF Owed
<1> QED BY <1>7, <1>8

(* The same without a substitution: the point is one of the program then.   *)
LEMMA OwedNext ==
  ASSUME NEW new, NEW log, Extends(new, log), Len(log) < Len(new),
         NEW S, Reaches(log, S), NEW y \in S,
         BelongsToSubstitution(new, Len(log) + 1) \/ S \subseteq Solutions(new[Len(log) + 1].before)
  PROVE  Owed(new, Len(log) + 1, y)
<1>1. CASE BelongsToSubstitution(new, Len(log) + 1)
  BY <1>1, OwedAfter
<1>2. CASE ~BelongsToSubstitution(new, Len(log) + 1)
  BY <1>2 DEF Owed, Reaches
<1> QED BY <1>1, <1>2

(* The last record of a log when the next one is there                      *)
LEMMA CarriesLast ==
  ASSUME NEW new, NEW log, Extends(new, log), Len(log) < Len(new), Len(log) > 0, RowsBefore(log, Len(log)),
         NEW S, Reaches(log, S),
         BelongsToSubstitution(new, Len(log) + 1) \/ Solutions(new[Len(log) + 1].before) \subseteq S
  PROVE  Carries(new, Len(log))
<1> DEFINE k == Len(log)
<1>1. /\ k \in Nat /\ Len(new) \in Nat
      /\ k < Len(new) /\ \A i \in 1..k : new[i] = log[i]
  BY LogDomain DEF Extends
<1>2. LeadsBack(log, k, S)
  BY DEF Reaches
<1>3. k > 0 /\ RowsBefore(log, k)
  OBVIOUS
<1> HIDE DEF k
<1> SUFFICES Carries(new, k)
  BY DEF k
<1>4. CASE BelongsToSubstitution(new, k + 1)
  BY <1>4 DEF Carries
<1>5. CASE ~BelongsToSubstitution(new, k + 1)
  <2>1. Solutions(new[k + 1].before) \subseteq S
    BY <1>5 DEF k
  <2>2. new[k] = log[k] /\ k \in 1..k
    BY <1>1, <1>3
  <2>3. Target(new, k) = Target(log, k) /\ Target(log, k) \in 1..k
    BY <1>1, <1>3, <2>2 DEF Target, RowsBefore
  <2>4. \A y : Owed(log, Target(log, k), y) => Owed(new, Target(new, k), y)
    BY <2>3, OwedSame DEF k
  <2>5. LeadsBack(new, k, Solutions(new[k + 1].before))
    BY <1>2, <2>1, <2>2, <2>4 DEF LeadsBack
  <2> QED BY <2>5 DEF Carries
<1> QED BY <1>4, <1>5

(* A storage that leads back still does with one record more.               *)
LEMMA Grows ==
  ASSUME NEW t, Reversible(t), NEW S, Reaches(t.log, S),
         NEW rec, rec.type # "fixedInf", NEW after, NEW S2, S2 \subseteq Points,
         BelongsToSubstitution(Stored(t, rec, after).log, Len(t.log) + 1) \/ S = Solutions(t.lp),
         \A x \in S2 : \A y : Undone(rec, x, y) => y \in S
  PROVE  Reaches(Stored(t, rec, after).log, S2)
<1> DEFINE log == t.log
           k == Len(log)
           new == Stored(t, rec, after).log
<1>1. IsLog(log) /\ \A i \in 1..k : RowsBefore(log, i)
  BY DEF Reversible
<1>2. /\ IsLog(new) /\ Len(new) = k + 1 /\ \A i \in 1..k : new[i] = log[i]
      /\ new[k + 1].rec = rec /\ new[k + 1].before = t.lp
  <2>1. new = Append(log, [rec |-> rec, before |-> t.lp])
    BY DEF Stored
  <2> HIDE DEF new
  <2> QED BY <1>1, <2>1, AppendToLog
<1>3. k \in Nat /\ Extends(new, log)
  <2>1. k \in Nat
    BY <1>1, LogDomain
  <2> QED BY <1>1, <1>2, <2>1 DEF Extends
<1>4. BelongsToSubstitution(new, k + 1) \/ Solutions(new[k + 1].before) = S
  BY <1>2
<1>5. /\ S \subseteq Points /\ Reaches(log, S) /\ (\A i \in 1..(k - 1) : Carries(log, i))
      /\ \A i \in 1..k : AtInfinity(log, i)
  BY DEF Reaches
<1> HIDE DEF new
<1>6. ASSUME NEW i \in 1..(Len(new) - 1)
      PROVE  Carries(new, i)
  <2>1. CASE i = k
    <3>1. k > 0 /\ RowsBefore(log, k) /\ k < Len(new)
      BY <1>1, <1>2, <1>3, <2>1
    <3> QED BY <1>3, <1>4, <1>5, <2>1, <3>1, CarriesLast
  <2>2. CASE i # k
    <3>1. i \in 1..(k - 1) /\ RowsBefore(log, i)
      BY <1>1, <1>2, <1>3, <2>2
    <3> QED BY <1>3, <1>5, <3>1, CarriesSame
  <2> QED BY <2>1, <2>2
<1>7. LeadsBack(new, k + 1, S2)
  <2>1. Target(new, k + 1) = k + 1
    BY <1>2 DEF Target
  <2>2. ASSUME NEW x \in S2, NEW y, Undone(rec, x, y)
        PROVE  Owed(new, k + 1, y)
    <3>1. y \in S
      BY <2>2
    <3>2. k < Len(new)
      BY <1>2, <1>3
    <3> QED BY <1>3, <1>4, <1>5, <3>1, <3>2, OwedNext
  <2> QED BY <1>2, <2>1, <2>2 DEF LeadsBack
<1>8. ASSUME NEW i \in 1..Len(new)
      PROVE  AtInfinity(new, i)
  <2>1. CASE i = k + 1
    BY <1>2, <2>1 DEF AtInfinity
  <2>2. CASE i # k + 1
    <3>1. i \in 1..k
      BY <1>2, <1>3, <2>2
    <3> QED BY <1>1, <1>3, <1>5, <3>1, InfinitySame
  <2> QED BY <2>1, <2>2
<1> HIDE DEF log, k
<1> QED BY <1>2, <1>6, <1>7, <1>8 DEF Reaches, new

(* A change of the program that takes points away, or moves them so that    *)
(* the record takes them back                                               *)
LEMMA ChangeCarries ==
  ASSUME NEW t, Reversible(t), Carrying(t), NEW rec, rec.type # "fixedInf", NEW after,
         \A x \in Solutions(after) : \A y : Undone(rec, x, y) => y \in Solutions(t.lp)
  PROVE  Carrying(Stored(t, rec, after))
<1>1. Solutions(after) \subseteq Points /\ Stored(t, rec, after).lp = after
  BY DEF Solutions, Stored
<1> QED BY <1>1, Grows DEF Carrying

(* The common case: the point stays as it is.                               *)
LEMMA NeutralCarries ==
  ASSUME NEW t, Reversible(t), Carrying(t), NEW rec,
         rec.type \notin {"fixedCol", "fixedInf", "substituted", "parallelCol"}, NEW after,
         Solutions(after) \subseteq Solutions(t.lp)
  PROVE  Carrying(Stored(t, rec, after))
<1>1. \A x, y : Undone(rec, x, y) => y = x
  BY SamePoint
<1> QED BY <1>1, ChangeCarries

-----------------------------------------------------------------------------
(* Points and programs                                                      *)

Within(lp, x, c) ==
  (lp.lb[c] # NoBound => lp.lb[c] <= x[c]) /\ (lp.ub[c] # NoBound => x[c] <= lp.ub[c])
Fulfilled(lp, x, r) ==
  (lp.lhs[r] # NoBound => lp.lhs[r] <= RowValue(lp, x, r)) /\ (lp.rhs[r] # NoBound => RowValue(lp, x, r) <= lp.rhs[r])

InBox(lp, x) == x \in Points /\ \A c \in lp.cols : Within(lp, x, c)

(* What it is to be a solution                                              *)
LEMMA SolutionParts ==
  ASSUME NEW lp, NEW x
  PROVE  x \in Solutions(lp) <=> /\ x \in Points
                                 /\ \A c \in lp.cols : Within(lp, x, c)
                                 /\ \A r \in lp.rows : Fulfilled(lp, x, r)
BY DEF Solutions, Satisfies, Within, Fulfilled

(* The value of a row at a point                                            *)
LEMMA ValueInt ==
  ASSUME NEW lp, WellFormed(lp), NEW x \in Points, NEW r \in Rows
  PROVE  RowValue(lp, x, r) \in Int
<1>1. IsFiniteSet(lp.cols) /\ lp.cols \subseteq Cols
  BY WellFormedFacts, FiniteProgram
<1>2. \A c \in lp.cols : [d \in lp.cols |-> lp.a[r][d] * x[d]][c] \in Int
  <2>1. \A c \in lp.cols : lp.a[r][c] \in Int /\ x[c] \in Int
    BY <1>1, WellFormedFacts DEF Points
  <2> QED BY <2>1
<1> QED BY <1>1, <1>2, SumInt DEF RowValue

(* Two programs with the same columns and matrix give a row the same value. *)
LEMMA SameValue ==
  ASSUME NEW p, NEW q, p.cols = q.cols, p.a = q.a, NEW x, NEW r
  PROVE  RowValue(p, x, r) = RowValue(q, x, r)
BY DEF RowValue

(* One column taken out of a row                                            *)
LEMMA ValueWithout ==
  ASSUME NEW lp, WellFormed(lp), NEW x \in Points, NEW r \in Rows, NEW c \in lp.cols
  PROVE  RowValue(lp, x, r) = lp.a[r][c] * x[c] + RowValue([lp EXCEPT !.cols = @ \ {c}], x, r)
<1> DEFINE without == [lp EXCEPT !.cols = @ \ {c}]
           C == lp.cols
           f == [d \in C |-> lp.a[r][d] * x[d]]
           g == [d \in C \ {c} |-> lp.a[r][d] * x[d]]
<1>1. IsFiniteSet(C) /\ C \subseteq Cols
  BY WellFormedFacts, FiniteProgram
<1>2. without.cols = C \ {c} /\ without.a = lp.a
  BY WellFormedFacts
<1>3. RowValue(without, x, r) = SumFunctionOnSet(g, C \ {c})
  BY <1>2 DEF RowValue
<1>4. \A d \in C : f[d] \in Int
  <2>1. \A d \in C : lp.a[r][d] \in Int /\ x[d] \in Int
    BY <1>1, WellFormedFacts DEF Points
  <2> QED BY <2>1
<1>5. RowValue(lp, x, r) = SumFunctionOnSet(f, C)
  BY DEF RowValue
<1>6. SumFunctionOnSet(f, C \ {c}) = SumFunctionOnSet(g, C \ {c})
  <2>1. IsFiniteSet(C \ {c}) /\ \A d \in C \ {c} : f[d] = g[d]
    BY <1>1, FS_Subset
  <2> HIDE DEF f, g
  <2> QED BY <2>1, SumEqual
<1>7. f[c] = lp.a[r][c] * x[c]
  OBVIOUS
<1> HIDE DEF f, g, C, without
<1>8. SumFunctionOnSet(f, C) = f[c] + SumFunctionOnSet(f, C \ {c})
  BY <1>1, <1>4, SumRemove DEF C
<1> QED BY <1>3, <1>5, <1>6, <1>7, <1>8 DEF without

(* A row does not notice a column it has no coefficient for.                *)
LEMMA SameElsewhere ==
  ASSUME NEW lp, WellFormed(lp), NEW r \in Rows, NEW x, NEW y,
         \A c \in lp.cols : lp.a[r][c] * x[c] = lp.a[r][c] * y[c]
  PROVE  RowValue(lp, x, r) = RowValue(lp, y, r)
<1>1. IsFiniteSet(lp.cols)
  BY WellFormedFacts, FiniteProgram
<1> QED BY <1>1, SumEqual DEF RowValue

-----------------------------------------------------------------------------
(* Tighter bounds                                                           *)

(* The same program but for its bounds, which leave fewer points            *)
Narrower(p, q) ==
  /\ p.rows = q.rows /\ p.cols = q.cols /\ p.obj = q.obj /\ p.lhs = q.lhs /\ p.rhs = q.rhs /\ p.a = q.a
  /\ \A x : InBox(p, x) => InBox(q, x)

OnSide(isLower, v, w) == IF isLower THEN v <= w ELSE w <= v

(* ... and fewer solutions                                                  *)
LEMMA NarrowerSolutions ==
  ASSUME NEW p, NEW q, Narrower(p, q)
  PROVE  Solutions(p) \subseteq Solutions(q)
<1> SUFFICES ASSUME NEW x \in Solutions(p)
             PROVE  x \in Solutions(q)
  OBVIOUS
<1>1. InBox(p, x) /\ \A r \in p.rows : Fulfilled(p, x, r)
  BY SolutionParts DEF InBox
<1>2. InBox(q, x) /\ q.rows = p.rows
  BY <1>1 DEF Narrower
<1>3. \A r \in p.rows : Fulfilled(q, x, r)
  <2>1. \A r \in p.rows : RowValue(p, x, r) = RowValue(q, x, r)
    BY SameValue DEF Narrower
  <2> QED BY <1>1, <2>1 DEF Fulfilled, Narrower
<1> QED BY <1>2, <1>3, SolutionParts DEF InBox

(* changeLB, changeUB: the points left are among those before and respect   *)
(* the new bound.                                                           *)
LEMMA TightenCarries ==
  ASSUME NEW t, Reversible(t), Carrying(t), NEW isLower \in BOOLEAN, NEW c \in t.lp.cols, NEW v \in Int
  PROVE  /\ Carrying(Tighten(t, isLower, c, v))
         /\ Narrower(Tighten(t, isLower, c, v).lp, t.lp)
         /\ \A x : InBox(Tighten(t, isLower, c, v).lp, x) => OnSide(isLower, v, x[c])
<1> DEFINE old == IF isLower THEN t.lp.lb[c] ELSE t.lp.ub[c]
           lower == [t.lp EXCEPT !.lb[c] = v]
           upper == [t.lp EXCEPT !.ub[c] = v]
           after == IF isLower THEN lower ELSE upper
           rec == BoundRecord(isLower, c, old, v)
           new == Tighten(t, isLower, c, v)
<1>1. /\ c \in Cols /\ WellFormed(t.lp) /\ t.lp.lb \in [Cols -> Limits] /\ t.lp.ub \in [Cols -> Limits]
      /\ t.lp.cols \subseteq Cols
  BY WellFormedFacts DEF Reversible
<1>2. /\ after.rows = t.lp.rows /\ after.cols = t.lp.cols /\ after.obj = t.lp.obj
      /\ after.lhs = t.lp.lhs /\ after.rhs = t.lp.rhs /\ after.a = t.lp.a
  <2>1. CASE isLower
    BY <1>1, <2>1, WellFormedFacts
  <2>2. CASE ~isLower
    BY <1>1, <2>2, WellFormedFacts
  <2> QED BY <2>1, <2>2
<1>3. \A d \in Cols : /\ after.lb[d] = IF isLower /\ d = c THEN v ELSE t.lp.lb[d]
                      /\ after.ub[d] = IF ~isLower /\ d = c THEN v ELSE t.lp.ub[d]
  <2>1. CASE isLower
    <3>1. after = lower
      BY <2>1
    <3>2. \A d \in Cols : lower.lb[d] = (IF d = c THEN v ELSE t.lp.lb[d]) /\ lower.ub[d] = t.lp.ub[d]
      BY <1>1, WellFormedFacts
    <3> QED BY <2>1, <3>1, <3>2
  <2>2. CASE ~isLower
    <3>1. after = upper
      BY <2>2
    <3>2. \A d \in Cols : upper.ub[d] = (IF d = c THEN v ELSE t.lp.ub[d]) /\ upper.lb[d] = t.lp.lb[d]
      BY <1>1, WellFormedFacts
    <3> QED BY <2>2, <3>1, <3>2
  <2> QED BY <2>1, <2>2
<1>4. Tighten(t, isLower, c, v) =
        IF old = NoBound \/ (IF isLower THEN v > old ELSE v < old) THEN Stored(t, rec, after) ELSE t
  BY DEF Tighten, ChangeBound
<1> HIDE DEF after
<1>5. CASE old = NoBound \/ (IF isLower THEN v > old ELSE v < old)
  <2>1. ASSUME NEW x, InBox(after, x)
        PROVE  InBox(t.lp, x) /\ OnSide(isLower, v, x[c])
    <3>1. x \in Points /\ \A d \in t.lp.cols : Within(after, x, d)
      BY <1>2, <2>1 DEF InBox
    <3>3. v # NoBound /\ Within(after, x, c) /\ x[c] \in Int
      BY <1>1, <3>1, ProgramAssumption DEF Points
    <3>4. OnSide(isLower, v, x[c])
      BY <1>1, <1>3, <3>3 DEF Within, OnSide
    <3>5. old \in Limits
      BY <1>1
    <3>6. Within(t.lp, x, c)
      <4>1. old # NoBound => OnSide(isLower, old, x[c])
        <5>1. CASE isLower
          BY <1>5, <3>3, <3>4, <3>5, <5>1 DEF OnSide, Limits
        <5>2. CASE ~isLower
          BY <1>5, <3>3, <3>4, <3>5, <5>2 DEF OnSide, Limits
        <5> QED BY <5>1, <5>2
      <4> QED BY <1>1, <1>3, <3>3, <4>1 DEF Within, OnSide
    <3>7. \A d \in t.lp.cols : Within(t.lp, x, d)
      <4> SUFFICES ASSUME NEW d \in t.lp.cols, d # c
                   PROVE  Within(t.lp, x, d)
        BY <3>6
      <4>1. after.lb[d] = t.lp.lb[d] /\ after.ub[d] = t.lp.ub[d]
        BY <1>1, <1>3
      <4> QED BY <3>1, <4>1 DEF Within
    <3> QED BY <3>1, <3>4, <3>7 DEF InBox
  <2>2. rec.type = "varBoundChange"
    BY DEF BoundRecord
  <2>3. new = Stored(t, rec, after)
    BY <1>4, <1>5
  <2>4. Narrower(after, t.lp)
    BY <1>2, <2>1 DEF Narrower
  <2> HIDE DEF new, rec
  <2>5. Carrying(new)
    BY <2>2, <2>3, <2>4, NarrowerSolutions, NeutralCarries
  <2>6. new.lp = after
    BY <2>3 DEF Stored
  <2> QED BY <2>1, <2>4, <2>5, <2>6 DEF new
<1>6. CASE ~(old = NoBound \/ (IF isLower THEN v > old ELSE v < old))
  <2>1. Tighten(t, isLower, c, v) = t
    BY <1>4, <1>6
  <2>2. old \in Int
    BY <1>1, <1>6 DEF Limits
  <2>3. ASSUME NEW x, InBox(t.lp, x)
        PROVE  OnSide(isLower, v, x[c])
    <3>1. x[c] \in Int /\ Within(t.lp, x, c)
      BY <1>1, <2>3 DEF InBox, Points
    <3>2. CASE isLower
      BY <1>6, <2>2, <3>1, <3>2 DEF Within, OnSide
    <3>3. CASE ~isLower
      BY <1>6, <2>2, <3>1, <3>3 DEF Within, OnSide
    <3> QED BY <3>2, <3>3
  <2> QED BY <2>1, <2>3 DEF Narrower
<1> QED BY <1>5, <1>6

(* A fixed column has its value in all points left.                         *)
LEMMA FixColCarries ==
  ASSUME NEW t, Reversible(t), Carrying(t), NEW c \in t.lp.cols, NEW v \in Int
  PROVE  /\ Carrying(FixCol(t, c, v))
         /\ Narrower(FixCol(t, c, v).lp, t.lp)
         /\ \A x : InBox(FixCol(t, c, v).lp, x) => x[c] = v
<1> DEFINE one == Tighten(t, TRUE, c, v)
           two == Tighten(one, FALSE, c, v)
<1>1. c \in Cols /\ v \in Limits /\ t.lp.cols \subseteq Cols /\ FixCol(t, c, v) = two
  BY WellFormedFacts DEF Reversible, Limits, FixCol
<1>2. /\ Carrying(one) /\ Narrower(one.lp, t.lp) /\ Reversible(one) /\ c \in one.lp.cols
      /\ \A x : InBox(one.lp, x) => v <= x[c]
  BY <1>1, TightenCarries, TightenReversible DEF Narrower, OnSide
<1> HIDE DEF one
<1>3. Carrying(two) /\ Narrower(two.lp, one.lp) /\ \A x : InBox(two.lp, x) => x[c] <= v
  BY <1>2, TightenCarries DEF OnSide
<1> HIDE DEF two
<1>4. \A x : InBox(two.lp, x) => x[c] \in Int /\ x[c] <= v /\ v <= x[c]
  BY <1>1, <1>2, <1>3 DEF Narrower, InBox, Points
<1> QED BY <1>1, <1>2, <1>3, <1>4 DEF Narrower

(* A saved row changes nothing.                                             *)
LEMMA SaveRowCarries ==
  ASSUME NEW t, Reversible(t), Carrying(t), NEW r
  PROVE  Carrying(SaveRow(t, r)) /\ SaveRow(t, r).lp = t.lp
<1>1. SavedRowRecord(t.lp, r).type = "saveRow"
  BY DEF SavedRowRecord
<1> QED BY <1>1, NeutralCarries DEF SaveRow, Stored

-----------------------------------------------------------------------------
(* Rows and sides that go                                                   *)

SideHolds(lp, x, r, isLhs) ==
  IF isLhs THEN lp.lhs[r] # NoBound => lp.lhs[r] <= RowValue(lp, x, r)
           ELSE lp.rhs[r] # NoBound => RowValue(lp, x, r) <= lp.rhs[r]

(* A row can go if the bounds and the other rows imply it.                  *)
LEMMA MarkRowCarries ==
  ASSUME NEW t, Reversible(t), Carrying(t), NEW r,
         \A x : InBox(t.lp, x) /\ (\A q \in t.lp.rows \ {r} : Fulfilled(t.lp, x, q)) => Fulfilled(t.lp, x, r)
  PROVE  Carrying(MarkRowRedundant(t, r))
<1> DEFINE after == [t.lp EXCEPT !.rows = @ \ {r}]
<1>1. /\ after.rows = t.lp.rows \ {r} /\ after.cols = t.lp.cols /\ after.a = t.lp.a
      /\ after.lb = t.lp.lb /\ after.ub = t.lp.ub /\ after.lhs = t.lp.lhs /\ after.rhs = t.lp.rhs
  BY WellFormedFacts DEF Reversible
<1>2. RedundantRecord(r).type = "redundantRow" /\ MarkRowRedundant(t, r) = Stored(t, RedundantRecord(r), after)
  BY DEF RedundantRecord, MarkRowRedundant
<1> HIDE DEF after
<1>3. ASSUME NEW x \in Solutions(after)
      PROVE  x \in Solutions(t.lp)
  <2>1. /\ x \in Points /\ \A c \in after.cols : Within(after, x, c)
        /\ \A q \in after.rows : Fulfilled(after, x, q)
    BY SolutionParts
  <2>2. InBox(t.lp, x)
    BY <1>1, <2>1 DEF InBox, Within
  <2>3. \A q \in t.lp.rows \ {r} : Fulfilled(t.lp, x, q)
    BY <1>1, <2>1, SameValue DEF Fulfilled
  <2> QED BY <2>2, <2>3, SolutionParts DEF InBox
<1> QED BY <1>2, <1>3, NeutralCarries

(* A side can change if the bounds imply the old one.                       *)
LEMMA ChangeSideCarries ==
  ASSUME NEW t, Reversible(t), Carrying(t), NEW isLhs \in BOOLEAN, NEW r \in Rows, NEW v,
         \A x : InBox(t.lp, x) => SideHolds(t.lp, x, r, isLhs)
  PROVE  Carrying(ChangeSide(t, isLhs, r, v))
<1> DEFINE lhs == [t.lp EXCEPT !.lhs[r] = v]
           rhs == [t.lp EXCEPT !.rhs[r] = v]
           after == IF isLhs THEN lhs ELSE rhs
<1>1. t.lp.lhs \in [Rows -> Limits] /\ t.lp.rhs \in [Rows -> Limits] /\ t.lp.rows \subseteq Rows
  BY WellFormedFacts DEF Reversible
<1>2. /\ after.rows = t.lp.rows /\ after.cols = t.lp.cols /\ after.a = t.lp.a
      /\ after.lb = t.lp.lb /\ after.ub = t.lp.ub
      /\ \A q \in Rows : /\ q # r \/ ~isLhs => after.lhs[q] = t.lp.lhs[q]
                         /\ q # r \/ isLhs => after.rhs[q] = t.lp.rhs[q]
  <2>1. CASE isLhs
    BY <1>1, <2>1, WellFormedFacts DEF Reversible
  <2>2. CASE ~isLhs
    BY <1>1, <2>2, WellFormedFacts DEF Reversible
  <2> QED BY <2>1, <2>2
<1>3. SideRecord(isLhs, r).type = "rowBoundChange" /\ ChangeSide(t, isLhs, r, v) = Stored(t, SideRecord(isLhs, r), after)
  BY DEF SideRecord, ChangeSide
<1> HIDE DEF after
<1>4. ASSUME NEW x \in Solutions(after)
      PROVE  x \in Solutions(t.lp)
  <2>1. /\ x \in Points /\ \A c \in t.lp.cols : Within(after, x, c)
        /\ \A q \in t.lp.rows : Fulfilled(after, x, q)
    BY <1>2, SolutionParts
  <2>2. InBox(t.lp, x)
    BY <1>2, <2>1 DEF InBox, Within
  <2>3. SideHolds(t.lp, x, r, isLhs)
    BY <2>2
  <2>4. ASSUME NEW q \in t.lp.rows
        PROVE  Fulfilled(t.lp, x, q)
    <3>1. Fulfilled(after, x, q) /\ RowValue(after, x, q) = RowValue(t.lp, x, q) /\ q \in Rows
      BY <1>1, <1>2, <2>1, SameValue
    <3>2. CASE q # r
      BY <1>2, <3>1, <3>2 DEF Fulfilled
    <3>3. CASE q = r /\ isLhs
      BY <1>2, <2>3, <3>1, <3>3 DEF Fulfilled, SideHolds
    <3>4. CASE q = r /\ ~isLhs
      BY <1>2, <2>3, <3>1, <3>4 DEF Fulfilled, SideHolds
    <3> QED BY <3>2, <3>3, <3>4
  <2> QED BY <2>2, <2>4, SolutionParts DEF InBox
<1> QED BY <1>3, <1>4, NeutralCarries

-----------------------------------------------------------------------------
(* Fixed columns that leave                                                 *)

(* The part of the column that the sides lose is what the row loses.        *)
LEMMA ShiftedSide ==
  ASSUME NEW side \in Limits, NEW v \in Int, NEW w \in Int
  PROVE  /\ Shifted(side, v) # NoBound => Shifted(side, v) \in Int
         /\ (Shifted(side, v) # NoBound => Shifted(side, v) <= w) <=> (side # NoBound => side <= v + w)
         /\ (Shifted(side, v) # NoBound => w <= Shifted(side, v)) <=> (side # NoBound => v + w <= side)
<1>1. CASE side = NoBound
  BY <1>1 DEF Shifted
<1>2. CASE side # NoBound
  <2>1. side \in Int /\ Shifted(side, v) = side - v /\ side - v \in Int
    BY <1>2 DEF Limits, Shifted
  <2>2. side - v # NoBound
    BY <2>1, ProgramAssumption
  <2> QED BY <1>2, <2>1, <2>2
<1> QED BY <1>1, <1>2

(* A solution without the column is one with it.                            *)
LEMMA RemoveFixedColCarries ==
  ASSUME NEW t, Reversible(t), Carrying(t), NEW c \in t.lp.cols, t.lp.lb[c] = t.lp.ub[c], t.lp.lb[c] \in Int
  PROVE  Carrying(RemoveFixedCol(t, c)) /\ RemoveFixedCol(t, c).lp.cols = t.lp.cols \ {c}
<1> DEFINE v == t.lp.lb[c]
           rows == ColRows(t.lp, c)
           rec == FixedRecord(t.lp, c, v)
           without == [t.lp EXCEPT !.cols = @ \ {c}]
           left == [r \in Rows |-> IF r \in rows THEN Shifted(t.lp.lhs[r], t.lp.a[r][c] * v) ELSE t.lp.lhs[r]]
           right == [r \in Rows |-> IF r \in rows THEN Shifted(t.lp.rhs[r], t.lp.a[r][c] * v) ELSE t.lp.rhs[r]]
           after == [t.lp EXCEPT !.cols = @ \ {c}, !.lhs = left, !.rhs = right]
<1>1. /\ WellFormed(t.lp) /\ c \in Cols /\ t.lp.cols \subseteq Cols /\ t.lp.rows \subseteq Rows
      /\ t.lp.a \in [Rows -> [Cols -> Int]]
      /\ t.lp.lhs \in [Rows -> Limits] /\ t.lp.rhs \in [Rows -> Limits]
  BY WellFormedFacts DEF Reversible
<1>2. /\ after.rows = t.lp.rows /\ after.cols = t.lp.cols \ {c} /\ after.a = t.lp.a
      /\ after.lb = t.lp.lb /\ after.ub = t.lp.ub /\ after.lhs = left /\ after.rhs = right
      /\ without.cols = t.lp.cols \ {c} /\ without.a = t.lp.a
  BY <1>1, WellFormedFacts
<1>3. RemoveFixedCol(t, c) = Stored(t, rec, after)
  BY <1>1, WellFormedFacts DEF RemoveFixedCol
<1>4. rec.type = "fixedCol" /\ rec.col = c /\ rec.val = v
  BY DEF FixedRecord
<1>5. v \in Int /\ t.lp.lb[c] = v /\ t.lp.ub[c] = v
  OBVIOUS
<1>6. \A r \in Rows : /\ left[r] = IF r \in rows THEN Shifted(t.lp.lhs[r], t.lp.a[r][c] * v) ELSE t.lp.lhs[r]
                      /\ right[r] = IF r \in rows THEN Shifted(t.lp.rhs[r], t.lp.a[r][c] * v) ELSE t.lp.rhs[r]
  OBVIOUS
<1> HIDE DEF after, rec, left, right, v
<1>7. ASSUME NEW x \in Solutions(after), NEW y, Undone(rec, x, y)
      PROVE  y \in Solutions(t.lp)
  <2>1. y = [x EXCEPT ![c] = v]
    BY <1>4, <1>7 DEF Undone
  <2>2. /\ x \in Points /\ \A d \in t.lp.cols \ {c} : Within(after, x, d)
        /\ \A r \in t.lp.rows : Fulfilled(after, x, r)
    BY <1>2, SolutionParts
  <2>3. y \in Points /\ y[c] = v /\ \A d \in Cols \ {c} : y[d] = x[d]
    BY <1>1, <1>5, <2>1, <2>2 DEF Points
  <2>4. ASSUME NEW d \in t.lp.cols
        PROVE  Within(t.lp, y, d)
    <3>1. CASE d = c
      BY <1>5, <2>3, <3>1 DEF Within
    <3>2. CASE d # c
      BY <1>1, <1>2, <2>2, <2>3, <3>2 DEF Within
    <3> QED BY <3>1, <3>2
  <2>5. ASSUME NEW r \in t.lp.rows
        PROVE  Fulfilled(t.lp, y, r)
    <3> DEFINE part == t.lp.a[r][c] * v
               w == RowValue(after, x, r)
    <3>1. r \in Rows /\ t.lp.a[r][c] \in Int /\ part \in Int
      BY <1>1, <1>5
    <3>2. RowValue(t.lp, y, r) = part + RowValue(without, y, r)
      <4>1. RowValue(t.lp, y, r) = t.lp.a[r][c] * y[c] + RowValue(without, y, r)
        <5>1. WellFormed(t.lp) /\ y \in Points /\ r \in Rows /\ c \in t.lp.cols
          BY <1>1, <2>3
        <5> QED BY ONLY <5>1, ValueWithout
      <4> HIDE DEF without
      <4> QED BY <2>3, <4>1
    <3>3. RowValue(without, y, r) = RowValue(without, x, r)
      <4>1. WellFormed(without)
        BY <1>1, OneLeaves
      <4>2. \A d \in without.cols : t.lp.a[r][d] * x[d] = t.lp.a[r][d] * y[d]
        BY <1>1, <1>2, <2>3
      <4> HIDE DEF without
      <4> QED BY <1>2, <3>1, <4>1, <4>2, SameElsewhere
    <3>4. RowValue(without, x, r) = w
      <4> HIDE DEF without
      <4> QED BY <1>2, SameValue
    <3>5. w \in Int
      <4>1. WellFormed(without)
        BY <1>1, OneLeaves
      <4> HIDE DEF without
      <4> QED BY <2>2, <3>1, <3>4, <4>1, ValueInt
    <3>6. RowValue(t.lp, y, r) = part + w
      BY <3>2, <3>3, <3>4
    <3>7. t.lp.lhs[r] \in Limits /\ t.lp.rhs[r] \in Limits /\ Fulfilled(after, x, r)
      BY <1>1, <2>2, <3>1
    <3>8. CASE r \in rows
      <4>1. after.lhs[r] = Shifted(t.lp.lhs[r], part) /\ after.rhs[r] = Shifted(t.lp.rhs[r], part)
        BY <1>2, <1>6, <3>1, <3>8
      <4> HIDE DEF part, w
      <4>2. /\ t.lp.lhs[r] # NoBound => t.lp.lhs[r] <= part + w
            /\ t.lp.rhs[r] # NoBound => part + w <= t.lp.rhs[r]
        BY <3>1, <3>5, <3>7, <4>1, ShiftedSide DEF Fulfilled, w
      <4> QED BY <3>6, <4>2 DEF Fulfilled
    <3>9. CASE r \notin rows
      <4>1. after.lhs[r] = t.lp.lhs[r] /\ after.rhs[r] = t.lp.rhs[r]
        BY <1>2, <1>6, <3>1, <3>9
      <4>2. t.lp.a[r][c] = 0
        BY <3>9 DEF ColRows
      <4>3. part = 0
        BY <1>5, <4>2
      <4> HIDE DEF part, w
      <4>4. part + w = w
        BY <3>5, <4>3
      <4> QED BY <3>6, <3>7, <4>1, <4>4 DEF Fulfilled, w
    <3> QED BY <3>8, <3>9
  <2> QED BY <2>3, <2>4, <2>5, SolutionParts
<1>8. rec.type # "fixedInf"
  BY <1>4
<1>9. Carrying(Stored(t, rec, after))
  BY <1>7, <1>8, ChangeCarries
<1>10. Stored(t, rec, after).lp = after
  BY DEF Stored
<1> QED BY <1>2, <1>3, <1>9, <1>10

(* The columns leave one after the other, each one once.                    *)
LEMMA RemoveFixedColsCarries ==
  ASSUME NEW t, Reversible(t), Carrying(t)
  PROVE  Carrying(RemoveFixedCols(t))
<1> DEFINE F == FixedCols(t.lp)
           seq == Ascending(F)
           D == 1..Cardinality(F)
           kind == "columns"
           At0(T) == After(kind, 0, t, seq, T)
           Fine(x, T) == /\ Reversible(x) /\ Carrying(x) /\ x.lp.lb = t.lp.lb /\ x.lp.ub = t.lp.ub
                         /\ x.lp.cols = t.lp.cols \ {seq[i] : i \in T}
           Good == {T \in SUBSET D : Fine(At0(T), T)}
<1>1. F \subseteq Cols /\ F \subseteq t.lp.cols /\ \A c \in F : t.lp.lb[c] = t.lp.ub[c] /\ t.lp.lb[c] \in Int
  <2>1. WellFormed(t.lp)
    BY DEF Reversible
  <2> QED BY <2>1, WellFormedFacts DEF FixedCols, Limits
<1>2. IsFiniteSet(F) /\ F \subseteq Int
  BY <1>1, FiniteProgram
<1> HIDE DEF F
<1>3. seq \in [D -> F] /\ \A i, j \in D : i < j => seq[i] < seq[j]
  BY <1>2, AscendingOrder DEF IsAscending
<1>4. IsFiniteSet(D) /\ D \subseteq Int
  <2>1. Cardinality(F) \in Nat
    BY <1>2, FS_CardinalityType
  <2> QED BY <2>1, FS_Interval
<1> HIDE DEF D, seq, kind
<1>5. \A i, j \in D : i # j => seq[i] # seq[j]
  <2> SUFFICES ASSUME NEW i \in D, NEW j \in D, i # j
               PROVE  seq[i] # seq[j]
    OBVIOUS
  <2>1. seq[i] \in Int /\ seq[j] \in Int /\ i \in Int /\ j \in Int
    BY <1>2, <1>3, <1>4
  <2> QED BY <1>3, <2>1
<1>6. ASSUME NEW T \in SUBSET D, \A U \in SUBSET T : U # T => U \in Good
      PROVE  T \in Good
  <2>1. IsFiniteSet(T) /\ T \subseteq Int
    BY <1>4, FS_Subset
  <2>2. CASE T = {}
    <3>1. At0(T) = t
      BY <2>2, LoopStart
    <3>2. t.lp.cols = t.lp.cols \ {seq[i] : i \in T}
      BY <2>2
    <3> HIDE DEF At0
    <3> QED BY <3>1, <3>2
  <2>3. CASE T # {}
    <3> DEFINE m == Max(T)
               V == T \ {m}
               x == At0(V)
    <3>1. m \in T /\ At0(T) = RemoveFixedCol(x, seq[m])
      <4>1. m \in T /\ At0(T) = Turn(kind, 0, x, seq[m])
        <5>1. Positions(T)
          BY <2>1 DEF Positions
        <5>2. m \in T /\ IsLast(m, T) /\ AreOthers(V, T, m)
          BY <2>3, <5>1, LastPosition
        <5> HIDE DEF m, V
        <5> QED BY <5>1, <5>2, LoopTurn
      <4> HIDE DEF m, x, At0
      <4> QED BY <4>1 DEF Turn, kind
    <3>2. V \in Good
      BY <1>6, <3>1
    <3>3. Fine(x, V)
      BY <3>2
    <3>4. V = T \ {m}
      OBVIOUS
    <3> HIDE DEF x, m, V
    <3>5. seq[m] \in F /\ m \in D
      BY <1>3, <3>1
    <3>6. seq[m] \in x.lp.cols
      <4>1. \A i \in V : seq[i] # seq[m]
        BY <1>5, <3>4, <3>5
      <4> QED BY <1>1, <3>3, <3>5, <4>1
    <3>7. seq[m] \in Cols /\ x.lp.lb[seq[m]] = x.lp.ub[seq[m]] /\ x.lp.lb[seq[m]] \in Int
      BY <1>1, <3>3, <3>5
    <3> DEFINE y == RemoveFixedCol(x, seq[m])
    <3>8. /\ Reversible(y) /\ Carrying(y) /\ y.lp.lb = x.lp.lb /\ y.lp.ub = x.lp.ub
          /\ y.lp.cols = x.lp.cols \ {seq[m]}
      BY <3>3, <3>6, <3>7, RemoveFixedColReversible, RemoveFixedColCarries
    <3> HIDE DEF y
    <3>9. {seq[i] : i \in T} = {seq[i] : i \in V} \cup {seq[m]}
      BY <3>1, <3>4
    <3>10. Fine(y, T)
      BY <3>3, <3>8, <3>9
    <3>11. At0(T) = y
      BY <3>1 DEF y
    <3> HIDE DEF Fine, At0
    <3> QED BY <3>10, <3>11
  <2> QED BY <2>2, <2>3
<1>7. D \in Good
  <2> HIDE DEF Good
  <2> QED BY <1>4, <1>6, SubsetInduction
<1>8. RemoveFixedCols(t) = At0(D)
  <2>1. DOMAIN seq = D
    BY <1>3
  <2> QED BY <2>1, LoopOverColumns DEF F, seq, kind
<1> QED BY <1>7, <1>8

-----------------------------------------------------------------------------
(* Rows of coefficients 1 and -1                                            *)

(* The coefficients are 0, 1 and -1 as they never change.                   *)
LEMMA UnitCoefficient ==
  ASSUME NEW lp, WellFormed(lp), NEW r \in Rows, NEW c \in Cols
  PROVE  /\ lp.a[r][c] \in {-1, 0, 1}
         /\ c \in RowCols(lp, r) => lp.a[r][c] \in {-1, 1}
BY CoefficientAssumption DEF WellFormed, RowCols

(* Division by such a coefficient is exact.                                 *)
LEMMA ExactUnit ==
  ASSUME NEW n \in Int, NEW d \in {-1, 1}
  PROVE  Exact(n, d) = d * n /\ d * Exact(n, d) = n /\ Exact(n, d) \in Int
<1>1. CASE d = 1
  BY <1>1 DEF Exact
<1>2. CASE d = -1
  BY <1>2 DEF Exact
<1> QED BY <1>1, <1>2

-----------------------------------------------------------------------------
(* What bounds say of a row                                                 *)

(* The value of row r without column c (0: with all)                        *)
Rest(lp, x, r, c) == SumFunctionOnSet([d \in RowCols(lp, r) \ {c} |-> lp.a[r][d] * x[d]], RowCols(lp, r) \ {c})

(* Columns without a coefficient do not count.                              *)
LEMMA SumOfEntries ==
  ASSUME NEW lp, WellFormed(lp), NEW x \in Points, NEW r \in Rows
  PROVE  RowValue(lp, x, r) = SumFunctionOnSet([d \in RowCols(lp, r) |-> lp.a[r][d] * x[d]], RowCols(lp, r))
<1> DEFINE C == lp.cols
           f == [d \in C |-> lp.a[r][d] * x[d]]
           g == [d \in RowCols(lp, r) |-> lp.a[r][d] * x[d]]
           Good == {T \in SUBSET C : SumFunctionOnSet(f, T) = SumFunctionOnSet(f, T \cap RowCols(lp, r))}
<1>1. IsFiniteSet(C) /\ C \subseteq Cols
  BY WellFormedFacts, FiniteProgram
<1>2. \A d \in C : f[d] \in Int /\ (d \notin RowCols(lp, r) => f[d] = 0)
  <2>1. \A d \in C : lp.a[r][d] \in Int /\ x[d] \in Int /\ (d \notin RowCols(lp, r) => lp.a[r][d] = 0)
    BY <1>1, WellFormedFacts DEF Points, RowCols
  <2> QED BY <2>1
<1>3. SumFunctionOnSet(f, RowCols(lp, r)) = SumFunctionOnSet(g, RowCols(lp, r))
  <2>1. IsFiniteSet(RowCols(lp, r)) /\ \A d \in RowCols(lp, r) : f[d] = g[d]
    BY <1>1, FS_Subset DEF RowCols
  <2> HIDE DEF f, g
  <2> QED BY <2>1, SumEqual
<1>4. RowValue(lp, x, r) = SumFunctionOnSet(f, C)
  BY DEF RowValue
<1> HIDE DEF f, g
<1>5. ASSUME NEW T \in SUBSET C, \A U \in SUBSET T : U # T => U \in Good
      PROVE  T \in Good
  <2>1. IsFiniteSet(T)
    BY <1>1, FS_Subset
  <2>2. CASE T \subseteq RowCols(lp, r)
    <3>1. T \cap RowCols(lp, r) = T
      BY <2>2
    <3> QED BY <3>1
  <2>3. CASE ~(T \subseteq RowCols(lp, r))
    <3>1. PICK d \in T : d \notin RowCols(lp, r)
      BY <2>3
    <3>2. T \ {d} \in Good /\ (T \ {d}) \cap RowCols(lp, r) = T \cap RowCols(lp, r)
      BY <1>5, <3>1
    <3>3. SumFunctionOnSet(f, T) = f[d] + SumFunctionOnSet(f, T \ {d})
      BY <1>2, <2>1, SumRemove
    <3>4. SumFunctionOnSet(f, T \ {d}) \in Int /\ f[d] = 0
      <4>1. IsFiniteSet(T \ {d}) /\ \A e \in T \ {d} : f[e] \in Int
        BY <1>2, <2>1, FS_Subset
      <4> QED BY <1>2, <3>1, <4>1, SumInt
    <3> QED BY <3>2, <3>3, <3>4
  <2> QED BY <2>2, <2>3
<1>6. C \in Good
  <2> HIDE DEF Good
  <2> QED BY <1>1, <1>5, SubsetInduction
<1>7. C \cap RowCols(lp, r) = RowCols(lp, r)
  BY DEF RowCols
<1>8. SumFunctionOnSet(f, C) = SumFunctionOnSet(f, C \cap RowCols(lp, r))
  BY <1>6
<1> HIDE DEF Good, C
<1> QED BY <1>3, <1>4, <1>7, <1>8 DEF g

(* A column and the rest of its row                                         *)
LEMMA ColumnAndRest ==
  ASSUME NEW lp, WellFormed(lp), NEW x \in Points, NEW r \in Rows, NEW c
  PROVE  /\ Rest(lp, x, r, c) \in Int
         /\ c \in RowCols(lp, r) => RowValue(lp, x, r) = lp.a[r][c] * x[c] + Rest(lp, x, r, c)
         /\ c \notin RowCols(lp, r) => RowValue(lp, x, r) = Rest(lp, x, r, c)
<1> DEFINE R == RowCols(lp, r)
           f == [d \in R |-> lp.a[r][d] * x[d]]
           g == [d \in R \ {c} |-> lp.a[r][d] * x[d]]
<1>1. IsFiniteSet(R) /\ IsFiniteSet(R \ {c}) /\ R \subseteq Cols
  <2>1. R \subseteq Cols
    BY WellFormedFacts DEF RowCols
  <2> QED BY <2>1, FiniteProgram
<1>2. \A d \in R : f[d] \in Int
  <2>1. \A d \in R : lp.a[r][d] \in Int /\ x[d] \in Int
    BY <1>1, WellFormedFacts DEF Points
  <2> QED BY <2>1
<1>3. \A d \in R \ {c} : f[d] = g[d]
  OBVIOUS
<1>4. c \in R => f[c] = lp.a[r][c] * x[c]
  OBVIOUS
<1>5. RowValue(lp, x, r) = SumFunctionOnSet(f, R) /\ Rest(lp, x, r, c) = SumFunctionOnSet(g, R \ {c})
  BY SumOfEntries DEF Rest
<1> HIDE DEF f, g, R
<1>6. SumFunctionOnSet(f, R \ {c}) = SumFunctionOnSet(g, R \ {c})
  BY <1>1, <1>3, SumEqual
<1>7. Rest(lp, x, r, c) \in Int
  <2>1. \A d \in R \ {c} : g[d] \in Int
    BY <1>2, <1>3
  <2> QED BY <1>1, <1>5, <2>1, SumInt
<1>8. c \in R => SumFunctionOnSet(f, R) = f[c] + SumFunctionOnSet(f, R \ {c})
  BY <1>1, <1>2, SumRemove
<1>9. c \notin R => R \ {c} = R
  OBVIOUS
<1> QED BY <1>4, <1>5, <1>6, <1>7, <1>8, <1>9 DEF R

(* No value of the other columns leaves the activity.                       *)
LEMMA ActivityBounds ==
  ASSUME NEW lp, WellFormed(lp), NEW x \in Points, NEW r \in Rows, NEW c,
         \A d \in RowCols(lp, r) \ {c} : Within(lp, x, d),
         NEW smallest \in BOOLEAN, Activity(lp, r, c, smallest) # NoBound
  PROVE  /\ Activity(lp, r, c, smallest) \in Int
         /\ OnSide(smallest, Activity(lp, r, c, smallest), Rest(lp, x, r, c))
<1> DEFINE R == RowCols(lp, r) \ {c}
           f == [d \in R |-> lp.a[r][d] * Reached(lp, r, d, smallest)]
           g == [d \in R |-> lp.a[r][d] * x[d]]
<1>1. IsFiniteSet(R)
  <2>1. R \subseteq Cols
    BY WellFormedFacts DEF RowCols
  <2> QED BY <2>1, FiniteProgram
<1>2. Activity(lp, r, c, smallest) = SumFunctionOnSet(f, R) /\ \A d \in R : Reached(lp, r, d, smallest) # NoBound
  BY DEF Activity
<1>3. Rest(lp, x, r, c) = SumFunctionOnSet(g, R)
  BY DEF Rest
<1>4. \A d \in R : f[d] \in Int /\ g[d] \in Int /\ OnSide(smallest, f[d], g[d])
  <2> SUFFICES ASSUME NEW d \in R
               PROVE  f[d] \in Int /\ g[d] \in Int /\ OnSide(smallest, f[d], g[d])
    OBVIOUS
  <2> DEFINE a == lp.a[r][d]
             w == Reached(lp, r, d, smallest)
             v == x[d]
  <2>1. d \in RowCols(lp, r) /\ d \in Cols
    BY WellFormedFacts DEF RowCols
  <2>2. a \in {-1, 1} /\ v \in Int /\ lp.lb[d] \in Limits /\ lp.ub[d] \in Limits /\ Within(lp, x, d)
    BY <2>1, UnitCoefficient, WellFormedFacts DEF Points
  <2>3. w # NoBound /\ w = IF (a > 0) <=> smallest THEN lp.lb[d] ELSE lp.ub[d]
    BY <1>2 DEF Reached
  <2>4. f[d] = a * w /\ g[d] = a * v
    OBVIOUS
  <2> HIDE DEF a, w, v, f, g
  <2>5. w \in Int /\ (IF (a > 0) <=> smallest THEN w <= v ELSE v <= w)
    BY <2>2, <2>3 DEF Within, Limits, v
  <2>6. CASE a = 1
    BY <2>2, <2>4, <2>5, <2>6 DEF OnSide
  <2>7. CASE a = -1
    BY <2>2, <2>4, <2>5, <2>7 DEF OnSide
  <2> QED BY <2>2, <2>6, <2>7
<1> HIDE DEF f, g, R
<1>5. SumFunctionOnSet(f, R) \in Int
  BY <1>1, <1>4, SumInt
<1>6. CASE smallest
  <2>1. SumFunctionOnSet(f, R) <= SumFunctionOnSet(g, R)
    BY <1>1, <1>4, <1>6, SumLeq DEF OnSide
  <2> QED BY <1>2, <1>3, <1>5, <1>6, <2>1 DEF OnSide
<1>7. CASE ~smallest
  <2>1. SumFunctionOnSet(g, R) <= SumFunctionOnSet(f, R)
    BY <1>1, <1>4, <1>7, SumLeq DEF OnSide
  <2> QED BY <1>2, <1>3, <1>5, <1>7, <2>1 DEF OnSide
<1> QED BY <1>6, <1>7

(* A bound implied by a row and the bounds of its other columns             *)
LEMMA ImpliedBoundHolds ==
  ASSUME NEW lp, WellFormed(lp), NEW x \in Points, NEW r \in Rows, NEW c \in RowCols(lp, r),
         \A d \in RowCols(lp, r) \ {c} : Within(lp, x, d), Fulfilled(lp, x, r),
         NEW isLower \in BOOLEAN, ImpliedBound(lp, r, c, isLower) # NoBound
  PROVE  ImpliedBound(lp, r, c, isLower) \in Int /\ OnSide(isLower, ImpliedBound(lp, r, c, isLower), x[c])
<1> DEFINE a == lp.a[r][c]
           fromLhs == (a > 0) <=> isLower
           side == IF fromLhs THEN lp.lhs[r] ELSE lp.rhs[r]
           rest == Activity(lp, r, c, ~fromLhs)
           w == Rest(lp, x, r, c)
           v == ImpliedBound(lp, r, c, isLower)
           y == x[c]
<1>1. a \in {-1, 1} /\ y \in Int /\ lp.lhs[r] \in Limits /\ lp.rhs[r] \in Limits
  <2>1. c \in Cols
    BY WellFormedFacts DEF RowCols
  <2> QED BY <2>1, UnitCoefficient, WellFormedFacts DEF Points
<1>2. side # NoBound /\ rest # NoBound /\ v = Exact(side - rest, a)
  BY DEF ImpliedBound
<1>3. side \in Int
  BY <1>1, <1>2 DEF Limits
<1>4. w \in Int /\ RowValue(lp, x, r) = a * y + w
  BY ColumnAndRest
<1>5. rest \in Int /\ OnSide(~fromLhs, rest, w)
  <2>1. (~fromLhs) \in BOOLEAN
    OBVIOUS
  <2> HIDE DEF fromLhs
  <2> QED BY <1>2, <2>1, ActivityBounds
<1>6. IF fromLhs THEN side <= a * y + w ELSE a * y + w <= side
  BY <1>2, <1>4 DEF Fulfilled
<1> HIDE DEF rest, w, v, y, side
<1>7. v = a * (side - rest) /\ v \in Int
  <2>1. side - rest \in Int
    BY <1>3, <1>5
  <2> HIDE DEF a
  <2> QED BY <1>1, <1>2, <2>1, ExactUnit
<1>8. CASE a = 1
  BY <1>1, <1>3, <1>4, <1>5, <1>6, <1>7, <1>8 DEF OnSide, v, y
<1>9. CASE a = -1
  BY <1>1, <1>3, <1>4, <1>5, <1>6, <1>7, <1>9 DEF OnSide, v, y
<1> QED BY <1>1, <1>8, <1>9

(* A side no value of the row can leave                                     *)
LEMMA SideFulfilled ==
  ASSUME NEW lp, WellFormed(lp), NEW x, InBox(lp, x), NEW r \in Rows
  PROVE  /\ LhsFulfilled(lp, r) => SideHolds(lp, x, r, TRUE)
         /\ RhsFulfilled(lp, r) => SideHolds(lp, x, r, FALSE)
<1>1. x \in Points /\ \A d \in RowCols(lp, r) \ {0} : Within(lp, x, d)
  BY DEF InBox, RowCols
<1>2. 0 \notin RowCols(lp, r)
  BY WellFormedFacts DEF RowCols, Cols
<1>3. RowValue(lp, x, r) = Rest(lp, x, r, 0) /\ RowValue(lp, x, r) \in Int
  BY <1>1, <1>2, ColumnAndRest
<1>4. lp.lhs[r] \in Limits /\ lp.rhs[r] \in Limits
  BY WellFormedFacts
<1>5. ASSUME LhsFulfilled(lp, r)
      PROVE  SideHolds(lp, x, r, TRUE)
  <2>1. SUFFICES ASSUME lp.lhs[r] # NoBound
                 PROVE  lp.lhs[r] <= RowValue(lp, x, r)
    BY DEF SideHolds
  <2>2. Activity(lp, r, 0, TRUE) # NoBound /\ lp.lhs[r] <= Activity(lp, r, 0, TRUE)
    BY <1>5, <2>1 DEF LhsFulfilled
  <2>3. Activity(lp, r, 0, TRUE) \in Int /\ Activity(lp, r, 0, TRUE) <= Rest(lp, x, r, 0)
    BY <1>1, <2>2, ActivityBounds DEF OnSide
  <2> DEFINE act == Activity(lp, r, 0, TRUE)
             w == RowValue(lp, x, r)
             side == lp.lhs[r]
  <2>4. act \in Int /\ w \in Int /\ side \in Int
    BY <1>3, <1>4, <2>1, <2>3 DEF Limits
  <2>5. side <= act /\ act <= w
    BY <1>3, <2>2, <2>3
  <2> HIDE DEF act, w, side
  <2>6. side <= w
    BY <2>4, <2>5
  <2> QED BY <2>6 DEF w, side
<1>6. ASSUME RhsFulfilled(lp, r)
      PROVE  SideHolds(lp, x, r, FALSE)
  <2>1. SUFFICES ASSUME lp.rhs[r] # NoBound
                 PROVE  RowValue(lp, x, r) <= lp.rhs[r]
    BY DEF SideHolds
  <2>2. Activity(lp, r, 0, FALSE) # NoBound /\ Activity(lp, r, 0, FALSE) <= lp.rhs[r]
    BY <1>6, <2>1 DEF RhsFulfilled
  <2>3. Activity(lp, r, 0, FALSE) \in Int /\ Rest(lp, x, r, 0) <= Activity(lp, r, 0, FALSE)
    BY <1>1, <2>2, ActivityBounds DEF OnSide
  <2> DEFINE act == Activity(lp, r, 0, FALSE)
             w == RowValue(lp, x, r)
             side == lp.rhs[r]
  <2>4. act \in Int /\ w \in Int /\ side \in Int
    BY <1>3, <1>4, <2>1, <2>3 DEF Limits
  <2>5. w <= act /\ act <= side
    BY <1>3, <2>2, <2>3
  <2> HIDE DEF act, w, side
  <2>6. w <= side
    BY <2>4, <2>5
  <2> QED BY <2>6 DEF w, side
<1> QED BY <1>5, <1>6

(* Sides that are fulfilled anyway                                          *)
LEMMA DropSidesCarries ==
  ASSUME NEW t, Reversible(t), Carrying(t), NEW r \in t.lp.rows,
         LhsFulfilled(t.lp, r) \/ RhsFulfilled(t.lp, r)
  PROVE  Carrying(DropSides(t, r))
<1>1. WellFormed(t.lp) /\ r \in Rows
  BY WellFormedFacts DEF Reversible
<1>2. CASE LhsFulfilled(t.lp, r) /\ RhsFulfilled(t.lp, r)
  <2>1. \A x : InBox(t.lp, x) => Fulfilled(t.lp, x, r)
    BY <1>1, <1>2, SideFulfilled DEF SideHolds, Fulfilled
  <2> QED BY <1>2, <2>1, MarkRowCarries DEF DropSides
<1>3. CASE LhsFulfilled(t.lp, r) /\ ~RhsFulfilled(t.lp, r)
  BY <1>1, <1>3, SideFulfilled, ChangeSideCarries DEF DropSides
<1>4. CASE ~LhsFulfilled(t.lp, r) /\ RhsFulfilled(t.lp, r)
  BY <1>1, <1>4, SideFulfilled, ChangeSideCarries DEF DropSides
<1> QED BY <1>2, <1>3, <1>4

-----------------------------------------------------------------------------
(* Trivial presolve                                                         *)

(* The row of one column is that column.                                    *)
LEMMA SingletonValue ==
  ASSUME NEW lp, WellFormed(lp), NEW x \in Points, NEW r \in Rows, NEW c, RowCols(lp, r) = {c}
  PROVE  RowValue(lp, x, r) = lp.a[r][c] * x[c]
<1>1. Rest(lp, x, r, c) = 0
  <2>1. RowCols(lp, r) \ {c} = {}
    OBVIOUS
  <2> QED BY <2>1, SumEmpty DEF Rest
<1>2. lp.a[r][c] \in {-1, 1} /\ x[c] \in Int
  <2>1. c \in Cols /\ c \in RowCols(lp, r)
    BY WellFormedFacts DEF RowCols
  <2> QED BY <2>1, UnitCoefficient DEF Points
<1>3. RowValue(lp, x, r) = lp.a[r][c] * x[c] + Rest(lp, x, r, c)
  BY ColumnAndRest
<1> DEFINE v == lp.a[r][c] * x[c]
<1>4. v \in Int
  BY <1>2
<1> HIDE DEF v
<1> QED BY <1>1, <1>3, <1>4 DEF v

(* The bound a side gives, whatever the sign of the coefficient             *)
LEMMA BoundIsSide ==
  ASSUME NEW side \in Int, NEW a \in {-1, 1}, NEW w \in Int, NEW isLhs \in BOOLEAN,
         OnSide(isLhs <=> a > 0, Exact(side, a), w)
  PROVE  IF isLhs THEN side <= a * w ELSE a * w <= side
<1>1. Exact(side, a) = a * side
  BY ExactUnit
<1>2. CASE a = 1
  BY <1>1, <1>2 DEF OnSide
<1>3. CASE a = -1
  BY <1>1, <1>3 DEF OnSide
<1> QED BY <1>2, <1>3

(* The bound one side of a singleton row gives implies that side.           *)
LEMMA BoundFromSideCarries ==
  ASSUME NEW t, Reversible(t), Carrying(t), NEW r \in Rows, NEW c, RowCols(t.lp, r) = {c}, NEW isLhs \in BOOLEAN
  PROVE  /\ Carrying(BoundFromSide(t, r, isLhs))
         /\ Narrower(BoundFromSide(t, r, isLhs).lp, t.lp)
         /\ \A x : InBox(BoundFromSide(t, r, isLhs).lp, x) => SideHolds(t.lp, x, r, isLhs)
<1> DEFINE d == CHOOSE e \in RowCols(t.lp, r) : TRUE
           side == IF isLhs THEN t.lp.lhs[r] ELSE t.lp.rhs[r]
           a == t.lp.a[r][c]
           new == Tighten(SaveRow(t, r), isLhs <=> a > 0, c, Exact(side, a))
<1>1. d = c
  OBVIOUS
<1>2. BoundFromSide(t, r, isLhs) = IF side = NoBound THEN t ELSE new
  BY <1>1 DEF BoundFromSide
<1>3. c \in t.lp.cols /\ c \in Cols /\ WellFormed(t.lp) /\ a \in {-1, 1} /\ side \in Limits
  <2>1. WellFormed(t.lp) /\ c \in RowCols(t.lp, r)
    BY DEF Reversible
  <2>2. c \in t.lp.cols /\ c \in Cols
    BY <2>1, WellFormedFacts DEF RowCols
  <2> QED BY <2>1, <2>2, UnitCoefficient, WellFormedFacts
<1>4. CASE side = NoBound
  BY <1>2, <1>4 DEF Narrower, SideHolds
<1>5. CASE side # NoBound
  <2>1. side \in Int /\ Exact(side, a) \in Int /\ (isLhs <=> a > 0) \in BOOLEAN
    BY <1>3, <1>5, ExactUnit DEF Limits
  <2>2. Reversible(SaveRow(t, r)) /\ Carrying(SaveRow(t, r)) /\ SaveRow(t, r).lp = t.lp
    BY SaveRowReversible, SaveRowCarries
  <2> DEFINE low == isLhs <=> a > 0
             v == Exact(side, a)
  <2>3. /\ Carrying(new) /\ Narrower(new.lp, t.lp)
        /\ \A x : InBox(new.lp, x) => OnSide(low, v, x[c])
    <3> HIDE DEF low, v
    <3> QED BY <1>3, <2>1, <2>2, TightenCarries DEF low, v
  <2> HIDE DEF new
  <2>4. ASSUME NEW x, InBox(new.lp, x)
        PROVE  SideHolds(t.lp, x, r, isLhs)
    <3>1. x \in Points /\ x[c] \in Int
      BY <1>3, <2>4 DEF InBox, Points
    <3>2. RowValue(t.lp, x, r) = a * x[c]
      BY <1>3, <3>1, SingletonValue
    <3>3. IF isLhs THEN side <= a * x[c] ELSE a * x[c] <= side
      <4> HIDE DEF a, side
      <4> QED BY <1>3, <2>1, <2>3, <2>4, <3>1, BoundIsSide
    <3> QED BY <3>2, <3>3 DEF SideHolds
  <2> QED BY <1>2, <1>5, <2>3, <2>4
<1> QED BY <1>4, <1>5

(* removeSingletonRow                                                       *)
LEMMA SingletonRowCarries ==
  ASSUME NEW t, Reversible(t), Carrying(t), NEW r \in t.lp.rows, NEW c, RowCols(t.lp, r) = {c}
  PROVE  Carrying(RemoveSingletonRow(t, r))
<1> DEFINE d == CHOOSE e \in RowCols(t.lp, r) : TRUE
           a == t.lp.a[r][c]
           v == Exact(t.lp.rhs[r], a)
           fixed == FixCol(SaveRow(t, r), c, v)
           one == BoundFromSide(t, r, TRUE)
           two == BoundFromSide(one, r, FALSE)
           bounded == IF Equation(t.lp, r) THEN fixed ELSE two
<1>1. d = c
  OBVIOUS
<1>2. RemoveSingletonRow(t, r) = RemoveFixedCols(MarkRowRedundant(bounded, r))
  BY <1>1 DEF RemoveSingletonRow
<1>3. /\ WellFormed(t.lp) /\ r \in Rows /\ c \in t.lp.cols /\ c \in Cols /\ a \in {-1, 1}
      /\ t.lp.lhs[r] \in Limits /\ t.lp.rhs[r] \in Limits
  <2>1. WellFormed(t.lp) /\ c \in RowCols(t.lp, r) /\ r \in Rows
    BY WellFormedFacts DEF Reversible
  <2>2. c \in t.lp.cols /\ c \in Cols
    BY <2>1, WellFormedFacts DEF RowCols
  <2> QED BY <2>1, <2>2, UnitCoefficient, WellFormedFacts
<1>4. /\ Reversible(bounded) /\ Carrying(bounded) /\ Narrower(bounded.lp, t.lp)
      /\ \A x : InBox(bounded.lp, x) => Fulfilled(t.lp, x, r)
  <2>1. CASE Equation(t.lp, r)
    <3>1. t.lp.rhs[r] \in Int /\ t.lp.lhs[r] = t.lp.rhs[r]
      BY <1>3, <2>1 DEF Equation, Limits
    <3>2. v \in Int /\ v \in Limits /\ a * v = t.lp.rhs[r]
      BY <1>3, <3>1, ExactUnit DEF Limits
    <3>3. Reversible(SaveRow(t, r)) /\ Carrying(SaveRow(t, r)) /\ SaveRow(t, r).lp = t.lp
      BY SaveRowReversible, SaveRowCarries
    <3> HIDE DEF v
    <3>4. /\ Reversible(fixed) /\ Carrying(fixed) /\ Narrower(fixed.lp, t.lp)
          /\ \A x : InBox(fixed.lp, x) => x[c] = v
      BY <1>3, <3>2, <3>3, FixColCarries, FixColReversible
    <3>5. bounded = fixed
      BY <2>1
    <3> HIDE DEF fixed, bounded
    <3>6. ASSUME NEW x, InBox(fixed.lp, x)
          PROVE  Fulfilled(t.lp, x, r)
      <4>1. x \in Points /\ x[c] = v
        BY <3>4, <3>6 DEF InBox
      <4>2. RowValue(t.lp, x, r) = t.lp.rhs[r]
        BY <1>3, <3>2, <4>1, SingletonValue
      <4> QED BY <3>1, <4>2 DEF Fulfilled
    <3> QED BY <3>4, <3>5, <3>6
  <2>2. CASE ~Equation(t.lp, r)
    <3>1. /\ Reversible(one) /\ Carrying(one) /\ Narrower(one.lp, t.lp) /\ RowCols(one.lp, r) = {c}
          /\ \A x : InBox(one.lp, x) => SideHolds(t.lp, x, r, TRUE)
      BY <1>3, BoundFromSideReversible, BoundFromSideCarries
    <3> HIDE DEF one
    <3>2. /\ Reversible(two) /\ Carrying(two) /\ Narrower(two.lp, one.lp)
          /\ \A x : InBox(two.lp, x) => SideHolds(one.lp, x, r, FALSE)
      BY <1>3, <3>1, BoundFromSideReversible, BoundFromSideCarries
    <3>3. bounded = two
      BY <2>2
    <3> HIDE DEF two, bounded
    <3>4. ASSUME NEW x, InBox(two.lp, x)
          PROVE  Fulfilled(t.lp, x, r)
      <4>1. SideHolds(t.lp, x, r, TRUE) /\ SideHolds(one.lp, x, r, FALSE)
        BY <3>1, <3>2, <3>4 DEF Narrower
      <4>2. RowValue(one.lp, x, r) = RowValue(t.lp, x, r) /\ one.lp.rhs = t.lp.rhs
        BY <3>1, SameValue DEF Narrower
      <4> QED BY <4>1, <4>2 DEF SideHolds, Fulfilled
    <3> QED BY <3>1, <3>2, <3>3, <3>4 DEF Narrower
  <2> QED BY <2>1, <2>2
<1> HIDE DEF bounded
<1>5. \A x : InBox(bounded.lp, x) => Fulfilled(bounded.lp, x, r)
  <2>1. \A x : RowValue(bounded.lp, x, r) = RowValue(t.lp, x, r)
    BY <1>4, SameValue DEF Narrower
  <2> QED BY <1>4, <2>1 DEF Fulfilled, Narrower
<1>6. Carrying(MarkRowRedundant(bounded, r)) /\ Reversible(MarkRowRedundant(bounded, r))
  BY <1>4, <1>5, MarkRowCarries, MarkRowReversible
<1> QED BY <1>2, <1>6, RemoveFixedColsCarries

(* An empty column with any value is one the rows do not notice.            *)
LEMMA EmptyColumnCarries ==
  ASSUME NEW t, Reversible(t), Carrying(t), ~Crossed(t.lp), NEW c \in t.lp.cols, EmptyColumnValue(t.lp, c) # NoBound
  PROVE  Carrying(RemoveEmptyColumn(t, c))
<1> DEFINE v == EmptyColumnValue(t.lp, c)
           fixed == FixCol(t, c, v)
<1>1. c \in Cols /\ WellFormed(t.lp)
  BY WellFormedFacts DEF Reversible
<1>2. /\ v \in Int /\ v \in Limits
      /\ (t.lp.lb[c] # NoBound => t.lp.lb[c] <= v) /\ (t.lp.ub[c] # NoBound => v <= t.lp.ub[c])
  BY <1>1, EmptyColumnValueFits DEF Limits
<1> HIDE DEF v
<1>3. /\ Reversible(fixed) /\ Carrying(fixed) /\ fixed.lp.cols = t.lp.cols
      /\ fixed.lp.lb[c] = v /\ fixed.lp.ub[c] = v
  BY <1>1, <1>2, FixColReversible, FixColCarries, FixColWithin
<1> HIDE DEF fixed
<1>4. Carrying(RemoveFixedCol(fixed, c))
  BY <1>2, <1>3, RemoveFixedColCarries
<1> QED BY <1>4 DEF RemoveEmptyColumn, fixed, v

(* A column fixed to a bound it has                                         *)
LEMMA DualFixCarries ==
  ASSUME NEW t, Reversible(t), Carrying(t), NEW c \in t.lp.cols, NEW below \in BOOLEAN,
         BoundOf(t.lp, c, below) # NoBound
  PROVE  Carrying(DualFix(t, c, below))
<1> DEFINE v == IF below THEN t.lp.lb[c] ELSE t.lp.ub[c]
<1>1. v \in Int /\ v \in Limits /\ c \in Cols
  BY WellFormedFacts DEF Reversible, BoundOf, Limits
<1>2. DualFix(t, c, below) = RemoveFixedCols(FixCol(t, c, v))
  BY DEF DualFix
<1> HIDE DEF v
<1> QED BY <1>1, <1>2, FixColReversible, FixColCarries, RemoveFixedColsCarries

(* Bounds of propagation only take points away.                             *)
LEMMA PropagateCarries ==
  ASSUME NEW t, Reversible(t), Carrying(t), NEW r \in Rows, NEW c \in RowCols(t.lp, r),
         NEW isLower \in BOOLEAN, NEW keepBasis
  PROVE  Carrying(Propagate(t, r, c, isLower, keepBasis))
<1> DEFINE v == ImpliedBound(t.lp, r, c, isLower)
           w == Weakened(v, isLower)
           saved == SaveRow(t, r)
           new == Propagate(t, r, c, isLower, keepBasis)
<1>1. c \in t.lp.cols /\ c \in Cols /\ v \in Limits
  BY ColumnOfRow, ImpliedBoundType DEF Reversible
<1>2. Reversible(saved) /\ Carrying(saved) /\ saved.lp = t.lp
  BY SaveRowReversible, SaveRowCarries
<1>3. \/ new = t
      \/ v # NoBound /\ \/ new = RemoveFixedCols(FixCol(saved, c, v))
                        \/ new = Tighten(saved, isLower, c, v)
                        \/ new = Tighten(saved, isLower, c, w)
  BY DEF Propagate
<1>4. v # NoBound => v \in Int /\ w \in Int
  BY <1>1, WeakenedInt DEF Limits
<1> HIDE DEF v, w, saved, new
<1>5. CASE v # NoBound /\ new = RemoveFixedCols(FixCol(saved, c, v))
  BY <1>1, <1>2, <1>4, <1>5, FixColReversible, FixColCarries, RemoveFixedColsCarries DEF new
<1>6. CASE v # NoBound /\ new = Tighten(saved, isLower, c, v)
  BY <1>1, <1>2, <1>4, <1>6, TightenCarries DEF new
<1>7. CASE v # NoBound /\ new = Tighten(saved, isLower, c, w)
  BY <1>1, <1>2, <1>4, <1>7, TightenCarries DEF new
<1> QED BY <1>3, <1>5, <1>6, <1>7 DEF new

-----------------------------------------------------------------------------
(* Parallel rows                                                            *)

(* The value of the row kept is the multiple of the other one.              *)
LEMMA ParallelValues ==
  ASSUME NEW lp, WellFormed(lp), NEW kept \in Rows, NEW r \in Rows, ParallelRows(lp, kept, r), NEW x \in Points
  PROVE  Ratio(lp, kept, r) \in {-1, 1} /\ RowValue(lp, x, kept) = Ratio(lp, kept, r) * RowValue(lp, x, r)
<1> DEFINE R == RowCols(lp, r)
           ratio == Ratio(lp, kept, r)
           f == [d \in R |-> lp.a[r][d] * x[d]]
           g == [d \in R |-> lp.a[kept][d] * x[d]]
           c == CHOOSE d \in R : TRUE
<1>1. /\ IsFiniteSet(R) /\ R \subseteq Cols /\ RowCols(lp, kept) = R
      /\ \A d \in R : lp.a[kept][d] = ratio * lp.a[r][d]
  <2>1. R \subseteq Cols
    BY WellFormedFacts DEF RowCols
  <2> QED BY <2>1, FiniteProgram DEF ParallelRows
<1>2. c \in R
  <2>1. R # {}
    BY FS_EmptySet DEF ParallelRows
  <2> QED BY <2>1
<1>3. \A d \in R : lp.a[kept][d] \in {-1, 1} /\ lp.a[r][d] \in {-1, 1} /\ x[d] \in Int
  BY <1>1, UnitCoefficient DEF Points
<1>4. ratio \in {-1, 1}
  <2>1. ratio = Exact(lp.a[kept][c], lp.a[r][c])
    BY DEF Ratio
  <2>2. ratio = lp.a[r][c] * lp.a[kept][c]
    BY <1>2, <1>3, <2>1, ExactUnit
  <2> HIDE DEF c, ratio, R
  <2> QED BY <1>2, <1>3, <2>2
<1>5. \A d \in R : f[d] \in Int /\ g[d] = ratio * f[d]
  <2> SUFFICES ASSUME NEW d \in R
               PROVE  f[d] \in Int /\ g[d] = ratio * f[d]
    OBVIOUS
  <2> DEFINE a == lp.a[r][d]
             b == lp.a[kept][d]
             v == x[d]
  <2>1. a \in {-1, 1} /\ b = ratio * a /\ v \in Int
    BY <1>1, <1>3
  <2>2. f[d] = a * v /\ g[d] = b * v
    OBVIOUS
  <2> HIDE DEF a, b, v, f, g, ratio, R
  <2>3. CASE ratio = 1
    BY <2>1, <2>2, <2>3
  <2>4. CASE ratio = -1
    BY <2>1, <2>2, <2>4
  <2> QED BY <1>4, <2>3, <2>4
<1>6. RowValue(lp, x, r) = SumFunctionOnSet(f, R) /\ RowValue(lp, x, kept) = SumFunctionOnSet(g, R)
  BY <1>1, SumOfEntries
<1> HIDE DEF f, g, R, ratio
<1>7. ratio \in Int
  BY <1>4
<1>8. SumFunctionOnSet(g, R) = ratio * SumFunctionOnSet(f, R)
  BY <1>1, <1>5, <1>7, SumScaled
<1> QED BY <1>4, <1>6, <1>8 DEF ratio

(* A side taken over from a parallel row is only ever a tighter one.        *)
LEMMA TakeSideCarries ==
  ASSUME NEW t, Reversible(t), Carrying(t), NEW kept \in t.lp.rows, NEW r \in Rows, ParallelRows(t.lp, kept, r),
         NEW isLhs \in BOOLEAN
  PROVE  /\ Carrying(TakeSide(t, kept, r, isLhs))
         /\ LET new == TakeSide(t, kept, r, isLhs).lp
            IN /\ new.rows = t.lp.rows /\ new.cols = t.lp.cols /\ new.a = t.lp.a
               /\ new.lb = t.lp.lb /\ new.ub = t.lp.ub
               /\ \A q \in Rows \ {kept} : new.lhs[q] = t.lp.lhs[q] /\ new.rhs[q] = t.lp.rhs[q]
         /\ \A x \in Points : Fulfilled(TakeSide(t, kept, r, isLhs).lp, x, kept) =>
              /\ Fulfilled(t.lp, x, kept)
              /\ ScaledSide(t.lp, kept, r, isLhs) # NoBound =>
                   OnSide(isLhs, ScaledSide(t.lp, kept, r, isLhs), RowValue(t.lp, x, kept))
<1> DEFINE v == ScaledSide(t.lp, kept, r, isLhs)
           own == IF isLhs THEN t.lp.lhs[kept] ELSE t.lp.rhs[kept]
           rec == ReasonRecord(kept, r, Ratio(t.lp, kept, r))
           reason == Stored(t, rec, t.lp)
           side == ForcedSideRecord(isLhs, kept)
           lhs == [t.lp EXCEPT !.lhs[kept] = v]
           rhs == [t.lp EXCEPT !.rhs[kept] = v]
           after == IF isLhs THEN lhs ELSE rhs
           better == v # NoBound /\ (own = NoBound \/ (IF isLhs THEN v > own ELSE v < own))
           new == TakeSide(t, kept, r, isLhs)
<1>1. /\ WellFormed(t.lp) /\ kept \in Rows /\ t.lp.rows \subseteq Rows
      /\ t.lp.lhs \in [Rows -> Limits] /\ t.lp.rhs \in [Rows -> Limits]
  BY WellFormedFacts DEF Reversible
<1>2. v \in Limits
  BY <1>1, ScaledSideType
<1>3. new = IF better THEN Stored(reason, side, after) ELSE t
  BY DEF TakeSide
<1>4. rec.type = "reason" /\ side.type = "forcedByRow"
  BY DEF ReasonRecord, ForcedSideRecord
<1> HIDE DEF v
<1>5. /\ after.rows = t.lp.rows /\ after.cols = t.lp.cols /\ after.a = t.lp.a
      /\ after.lb = t.lp.lb /\ after.ub = t.lp.ub
      /\ \A q \in Rows : /\ after.lhs[q] = IF q = kept /\ isLhs THEN v ELSE t.lp.lhs[q]
                         /\ after.rhs[q] = IF q = kept /\ ~isLhs THEN v ELSE t.lp.rhs[q]
  <2>1. CASE isLhs
    <3>1. after = lhs
      BY <2>1
    <3>2. /\ lhs.rows = t.lp.rows /\ lhs.cols = t.lp.cols /\ lhs.a = t.lp.a /\ lhs.lb = t.lp.lb /\ lhs.ub = t.lp.ub
          /\ \A q \in Rows : lhs.lhs[q] = (IF q = kept THEN v ELSE t.lp.lhs[q]) /\ lhs.rhs[q] = t.lp.rhs[q]
      BY <1>1, WellFormedFacts
    <3> QED BY <2>1, <3>1, <3>2
  <2>2. CASE ~isLhs
    <3>1. after = rhs
      BY <2>2
    <3>2. /\ rhs.rows = t.lp.rows /\ rhs.cols = t.lp.cols /\ rhs.a = t.lp.a /\ rhs.lb = t.lp.lb /\ rhs.ub = t.lp.ub
          /\ \A q \in Rows : rhs.rhs[q] = (IF q = kept THEN v ELSE t.lp.rhs[q]) /\ rhs.lhs[q] = t.lp.lhs[q]
      BY <1>1, WellFormedFacts
    <3> QED BY <2>2, <3>1, <3>2
  <2> QED BY <2>1, <2>2
<1>6. own \in Limits
  BY <1>1
<1> HIDE DEF after, reason, side, rec
<1>7. CASE better
  <2>1. v \in Int
    BY <1>2, <1>7 DEF Limits
  <2>2. ASSUME NEW x \in Points, Fulfilled(after, x, kept)
        PROVE  Fulfilled(t.lp, x, kept) /\ OnSide(isLhs, v, RowValue(t.lp, x, kept))
    <3> DEFINE w == RowValue(t.lp, x, kept)
    <3>1. w \in Int /\ RowValue(after, x, kept) = w
      BY <1>1, <1>5, ValueInt, SameValue
    <3> HIDE DEF w
    <3>2. /\ after.lhs[kept] = IF isLhs THEN v ELSE t.lp.lhs[kept]
          /\ after.rhs[kept] = IF ~isLhs THEN v ELSE t.lp.rhs[kept]
      BY <1>1, <1>5
    <3>3. OnSide(isLhs, v, w)
      BY <1>7, <2>2, <3>1, <3>2 DEF Fulfilled, OnSide
    <3>4. CASE isLhs
      <4>1. t.lp.rhs[kept] # NoBound => w <= t.lp.rhs[kept]
        BY <2>2, <3>1, <3>2, <3>4 DEF Fulfilled
      <4>2. own # NoBound => own <= w
        BY <1>6, <1>7, <2>1, <3>1, <3>3, <3>4 DEF OnSide, Limits
      <4> QED BY <3>3, <3>4, <4>1, <4>2 DEF Fulfilled, w
    <3>5. CASE ~isLhs
      <4>1. t.lp.lhs[kept] # NoBound => t.lp.lhs[kept] <= w
        BY <2>2, <3>1, <3>2, <3>5 DEF Fulfilled
      <4>2. own # NoBound => w <= own
        BY <1>6, <1>7, <2>1, <3>1, <3>3, <3>5 DEF OnSide, Limits
      <4> QED BY <3>3, <3>5, <4>1, <4>2 DEF Fulfilled, w
    <3> QED BY <3>4, <3>5
  <2>3. Solutions(after) \subseteq Solutions(t.lp)
    <3> SUFFICES ASSUME NEW x \in Solutions(after)
                 PROVE  x \in Solutions(t.lp)
      OBVIOUS
    <3>1. /\ x \in Points /\ \A d \in t.lp.cols : Within(after, x, d)
          /\ \A q \in t.lp.rows : Fulfilled(after, x, q)
      BY <1>5, SolutionParts
    <3>2. \A d \in t.lp.cols : Within(t.lp, x, d)
      BY <1>5, <3>1 DEF Within
    <3>3. ASSUME NEW q \in t.lp.rows, q # kept
          PROVE  Fulfilled(t.lp, x, q)
      <4>1. /\ q \in Rows /\ after.lhs[q] = t.lp.lhs[q] /\ after.rhs[q] = t.lp.rhs[q]
            /\ RowValue(after, x, q) = RowValue(t.lp, x, q)
        BY <1>1, <1>5, <3>3, SameValue
      <4> QED BY <3>1, <4>1 DEF Fulfilled
    <3> QED BY <2>2, <3>1, <3>2, <3>3, SolutionParts
  <2>4. Carrying(reason) /\ reason.lp = t.lp /\ Reversible(reason)
    <3>1. WellFormed(t.lp) /\ SameBounds(t.lp, t.lp) /\ Neutral(rec)
      BY <1>1, <1>4 DEF SameBounds, Neutral
    <3>2. Reversible(Stored(t, rec, t.lp))
      BY <3>1, NeutralStored
    <3> QED BY <1>4, <3>2, NeutralCarries DEF reason, Stored
  <2>5. new = Stored(reason, side, after)
    BY <1>3, <1>7
  <2>6. Carrying(new)
    BY <1>4, <2>3, <2>4, <2>5, NeutralCarries
  <2>7. new.lp = after
    BY <2>5 DEF Stored
  <2> HIDE DEF new
  <2>8. \A q \in Rows \ {kept} : after.lhs[q] = t.lp.lhs[q] /\ after.rhs[q] = t.lp.rhs[q]
    BY <1>5
  <2> QED BY <1>5, <2>2, <2>6, <2>7, <2>8 DEF new, v
<1>8. CASE ~better
  <2>1. new = t
    BY <1>3, <1>8
  <2>2. ASSUME NEW x \in Points, Fulfilled(t.lp, x, kept), v # NoBound
        PROVE  OnSide(isLhs, v, RowValue(t.lp, x, kept))
    <3> DEFINE w == RowValue(t.lp, x, kept)
    <3>1. w \in Int /\ v \in Int /\ own \in Int
      BY <1>1, <1>2, <1>6, <1>8, <2>2, ValueInt DEF Limits
    <3>2. OnSide(isLhs, own, w)
      BY <1>8, <2>2 DEF Fulfilled, OnSide
    <3>3. ~(IF isLhs THEN v > own ELSE v < own)
      BY <1>8, <2>2
    <3> HIDE DEF w, own
    <3> QED BY <3>1, <3>2, <3>3 DEF OnSide, w
  <2> HIDE DEF new
  <2> QED BY <2>1, <2>2 DEF new, v
<1> QED BY <1>7, <1>8

(* Where the kept row respects the scaled side, the other one does the side. *)
LEMMA ScaledSideHolds ==
  ASSUME NEW lp, WellFormed(lp), NEW kept \in Rows, NEW r \in Rows, ParallelRows(lp, kept, r), NEW x \in Points,
         NEW isLhs \in BOOLEAN,
         ScaledSide(lp, kept, r, isLhs) # NoBound => OnSide(isLhs, ScaledSide(lp, kept, r, isLhs), RowValue(lp, x, kept))
  PROVE  SideHolds(lp, x, r, (Ratio(lp, kept, r) > 0) <=> isLhs)
<1> DEFINE ratio == Ratio(lp, kept, r)
           low == (ratio > 0) <=> isLhs
           side == IF low THEN lp.lhs[r] ELSE lp.rhs[r]
           w == RowValue(lp, x, r)
<1>1. ratio \in {-1, 1} /\ RowValue(lp, x, kept) = ratio * w /\ w \in Int /\ side \in Limits
  BY ParallelValues, ValueInt, WellFormedFacts
<1>2. ScaledSide(lp, kept, r, isLhs) = IF side = NoBound THEN NoBound ELSE ratio * side
  BY DEF ScaledSide
<1>3. CASE side = NoBound
  BY <1>3 DEF SideHolds
<1>4. CASE side # NoBound
  <2> HIDE DEF ratio, w, side
  <2>1. side \in Int /\ ratio * side \in Int
    BY <1>1, <1>4 DEF Limits
  <2>2. ratio * side # NoBound
    BY <2>1, ProgramAssumption
  <2>3. OnSide(isLhs, ratio * side, ratio * w)
    BY <1>1, <1>2, <1>4, <2>2
  <2>4. OnSide(low, side, w)
    <3>1. CASE ratio = 1
      BY <1>1, <2>1, <2>3, <3>1 DEF OnSide
    <3>2. CASE ratio = -1
      BY <1>1, <2>1, <2>3, <3>2 DEF OnSide
    <3> QED BY <1>1, <3>1, <3>2
  <2> QED BY <2>4 DEF SideHolds, OnSide, side, w, ratio
<1> QED BY <1>3, <1>4

(* The row kept implies the parallel one that goes.                         *)
LEMMA ParallelRowCarries ==
  ASSUME NEW t, Reversible(t), Carrying(t), NEW kept \in t.lp.rows, NEW r \in t.lp.rows, kept # r,
         ParallelRows(t.lp, kept, r)
  PROVE  Carrying(RemoveParallelRow(t, kept, r))
<1> DEFINE one == TakeSide(t, kept, r, TRUE)
           two == TakeSide(one, kept, r, FALSE)
           low(isLhs) == (Ratio(t.lp, kept, r) > 0) <=> isLhs
<1>1. WellFormed(t.lp) /\ kept \in Rows /\ r \in Rows
  BY WellFormedFacts DEF Reversible
<1>2. /\ Reversible(one) /\ Carrying(one)
      /\ one.lp.rows = t.lp.rows /\ one.lp.cols = t.lp.cols /\ one.lp.a = t.lp.a
      /\ one.lp.lhs[r] = t.lp.lhs[r] /\ one.lp.rhs[r] = t.lp.rhs[r]
      /\ \A x \in Points : Fulfilled(one.lp, x, kept) /\ ScaledSide(t.lp, kept, r, TRUE) # NoBound =>
             OnSide(TRUE, ScaledSide(t.lp, kept, r, TRUE), RowValue(t.lp, x, kept))
  <2>1. r \in Rows \ {kept}
    BY <1>1
  <2>2. \A isLhs : Reversible(TakeSide(t, kept, r, isLhs))
    BY <1>1, TakeSideReversible
  <2>3. /\ Carrying(TakeSide(t, kept, r, TRUE))
        /\ LET new == TakeSide(t, kept, r, TRUE).lp
           IN /\ new.rows = t.lp.rows /\ new.cols = t.lp.cols /\ new.a = t.lp.a
              /\ new.lb = t.lp.lb /\ new.ub = t.lp.ub
              /\ \A q \in Rows \ {kept} : new.lhs[q] = t.lp.lhs[q] /\ new.rhs[q] = t.lp.rhs[q]
        /\ \A x \in Points : Fulfilled(TakeSide(t, kept, r, TRUE).lp, x, kept) =>
             /\ Fulfilled(t.lp, x, kept)
             /\ ScaledSide(t.lp, kept, r, TRUE) # NoBound =>
                  OnSide(TRUE, ScaledSide(t.lp, kept, r, TRUE), RowValue(t.lp, x, kept))
    BY <1>1, TakeSideCarries
  <2> QED BY <2>1, <2>2, <2>3
<1> HIDE DEF one
<1>3. ParallelRows(one.lp, kept, r) /\ Ratio(one.lp, kept, r) = Ratio(t.lp, kept, r)
  BY <1>2, StillParallel
<1>4. ScaledSide(one.lp, kept, r, FALSE) = ScaledSide(t.lp, kept, r, FALSE)
  BY <1>2, <1>3 DEF ScaledSide
<1>5. /\ Reversible(two) /\ Carrying(two)
      /\ two.lp.rows = t.lp.rows /\ two.lp.cols = t.lp.cols /\ two.lp.a = t.lp.a
      /\ two.lp.lhs[r] = t.lp.lhs[r] /\ two.lp.rhs[r] = t.lp.rhs[r]
      /\ \A x \in Points : Fulfilled(two.lp, x, kept) =>
           /\ Fulfilled(one.lp, x, kept)
           /\ ScaledSide(t.lp, kept, r, FALSE) # NoBound =>
                OnSide(FALSE, ScaledSide(t.lp, kept, r, FALSE), RowValue(t.lp, x, kept))
  <2>1. r \in Rows \ {kept} /\ kept \in one.lp.rows
    BY <1>1, <1>2
  <2>2. \A x : RowValue(one.lp, x, kept) = RowValue(t.lp, x, kept)
    BY <1>2, SameValue
  <2>3. Reversible(two)
    BY <1>1, <1>2, <1>3, TakeSideReversible
  <2>4. /\ Carrying(two)
        /\ two.lp.rows = one.lp.rows /\ two.lp.cols = one.lp.cols /\ two.lp.a = one.lp.a
        /\ two.lp.lhs[r] = one.lp.lhs[r] /\ two.lp.rhs[r] = one.lp.rhs[r]
    <3>1. Reversible(one) /\ Carrying(one) /\ ParallelRows(one.lp, kept, r)
      BY <1>2, <1>3
    <3>2. /\ Carrying(TakeSide(one, kept, r, FALSE))
          /\ LET new == TakeSide(one, kept, r, FALSE).lp
             IN /\ new.rows = one.lp.rows /\ new.cols = one.lp.cols /\ new.a = one.lp.a
                /\ \A q \in Rows \ {kept} : new.lhs[q] = one.lp.lhs[q] /\ new.rhs[q] = one.lp.rhs[q]
      BY <2>1, <3>1, TakeSideCarries
    <3>3. two = TakeSide(one, kept, r, FALSE)
      OBVIOUS
    <3> HIDE DEF two
    <3> QED BY <2>1, <3>2, <3>3
  <2>5. \A x \in Points : Fulfilled(two.lp, x, kept) =>
           /\ Fulfilled(one.lp, x, kept)
           /\ ScaledSide(one.lp, kept, r, FALSE) # NoBound =>
                OnSide(FALSE, ScaledSide(one.lp, kept, r, FALSE), RowValue(one.lp, x, kept))
    BY <1>1, <1>2, <1>3, <2>1, TakeSideCarries
  <2> HIDE DEF two
  <2> QED BY <1>2, <1>4, <2>2, <2>3, <2>4, <2>5
<1> HIDE DEF two
<1>6. ASSUME NEW x, InBox(two.lp, x), \A q \in two.lp.rows \ {r} : Fulfilled(two.lp, x, q)
      PROVE  Fulfilled(two.lp, x, r)
  <2>1. x \in Points /\ Fulfilled(two.lp, x, kept)
    BY <1>5, <1>6 DEF InBox
  <2>2. SideHolds(t.lp, x, r, low(TRUE))
    <3>1. ScaledSide(t.lp, kept, r, TRUE) # NoBound =>
             OnSide(TRUE, ScaledSide(t.lp, kept, r, TRUE), RowValue(t.lp, x, kept))
      BY <1>2, <1>5, <2>1
    <3> QED BY <1>1, <2>1, <3>1, ScaledSideHolds
  <2>3. SideHolds(t.lp, x, r, low(FALSE))
    <3>1. ScaledSide(t.lp, kept, r, FALSE) # NoBound =>
             OnSide(FALSE, ScaledSide(t.lp, kept, r, FALSE), RowValue(t.lp, x, kept))
      BY <1>5, <2>1
    <3> QED BY <1>1, <2>1, <3>1, ScaledSideHolds
  <2>4. RowValue(two.lp, x, r) = RowValue(t.lp, x, r)
    BY <1>5, SameValue
  <2>5. SideHolds(t.lp, x, r, TRUE) /\ SideHolds(t.lp, x, r, FALSE)
    <3>1. CASE Ratio(t.lp, kept, r) > 0
      BY <2>2, <2>3, <3>1
    <3>2. CASE ~(Ratio(t.lp, kept, r) > 0)
      BY <2>2, <2>3, <3>2
    <3> QED BY <3>1, <3>2
  <2> QED BY <1>5, <2>4, <2>5 DEF SideHolds, Fulfilled
<1>7. Carrying(MarkRowRedundant(two, r))
  BY <1>5, <1>6, MarkRowCarries
<1> QED BY <1>7 DEF RemoveParallelRow, one, two

-----------------------------------------------------------------------------
(* Parallel columns                                                         *)

BetweenLimits(lower, upper, v) == (lower # NoBound => lower <= v) /\ (upper # NoBound => v <= upper)

(* A value of a merged column splits into values of its columns.            *)
LEMMA SplitWithin ==
  ASSUME NEW rec, rec.scale \in {-1, 1},
         rec.lb1 \in Limits, rec.ub1 \in Limits, rec.lb2 \in Limits, rec.ub2 \in Limits,
         rec.lb1 # NoBound /\ rec.ub1 # NoBound => rec.lb1 <= rec.ub1,
         rec.lb2 # NoBound /\ rec.ub2 # NoBound => rec.lb2 <= rec.ub2,
         NEW m \in Int,
         LET least == IF rec.scale > 0 THEN rec.lb1 ELSE rec.ub1
         IN rec.lb2 # NoBound /\ least # NoBound => rec.lb2 + rec.scale * least <= m,
         LET most == IF rec.scale > 0 THEN rec.ub1 ELSE rec.lb1
         IN rec.ub2 # NoBound /\ most # NoBound => m <= rec.ub2 + rec.scale * most
  PROVE  /\ Split(rec, m).val1 \in Int /\ Split(rec, m).val2 \in Int
         /\ rec.scale * Split(rec, m).val1 + Split(rec, m).val2 = m
         /\ BetweenLimits(rec.lb1, rec.ub1, Split(rec, m).val1)
         /\ BetweenLimits(rec.lb2, rec.ub2, Split(rec, m).val2)
<1> DEFINE s == rec.scale
           r == WithFlags(rec)
           guess == IF rec.lb2 # NoBound THEN rec.lb2 ELSE IF rec.ub2 # NoBound THEN rec.ub2 ELSE 0
           quotient == s * (m - guess)
           low == rec.lb1 # NoBound /\ quotient < rec.lb1
           high == rec.ub1 # NoBound /\ quotient > rec.ub1
           v1 == IF low THEN rec.lb1 ELSE IF high THEN rec.ub1 ELSE quotient
           v2 == IF low \/ high THEN m - s * v1 ELSE guess
<1>1. /\ r.lb1 = (IF rec.lb1 = NoBound THEN 0 ELSE rec.lb1) /\ r.lbInf1 = (rec.lb1 = NoBound)
      /\ r.ub1 = (IF rec.ub1 = NoBound THEN 0 ELSE rec.ub1) /\ r.ubInf1 = (rec.ub1 = NoBound)
      /\ r.lb2 = (IF rec.lb2 = NoBound THEN 0 ELSE rec.lb2) /\ r.lbInf2 = (rec.lb2 = NoBound)
      /\ r.ub2 = (IF rec.ub2 = NoBound THEN 0 ELSE rec.ub2) /\ r.ubInf2 = (rec.ub2 = NoBound)
      /\ r.int2 = FALSE /\ r.scale = s
  BY DEF WithFlags, Number
<1>2. guess \in Int
  BY DEF Limits
<1> HIDE DEF r
<1>3. Primal!Guess(r) = guess
  BY <1>1 DEF Primal!Guess
<1>4. Primal!FloorOf(m - Primal!Guess(r), r.scale) = quotient
  <2>1. m - guess \in Int
    BY <1>2
  <2>2. Primal!FloorOf(m - guess, s) = Exact(m - guess, s)
    BY DEF Primal!FloorOf, Exact
  <2> HIDE DEF guess
  <2> QED BY <1>1, <1>3, <2>1, <2>2, ExactUnit
<1>5. Split(rec, m) = [val1 |-> v1, val2 |-> v2]
  <2> HIDE DEF guess, quotient
  <2>1. Split(rec, m) = Primal!SplitContinuous(r, m)
    BY DEF Split, r
  <2> QED BY <1>1, <1>3, <1>4, <2>1 DEF Primal!SplitContinuous
<1>6. Split(rec, m).val1 = v1 /\ Split(rec, m).val2 = v2
  <2> HIDE DEF v1, v2
  <2> QED BY <1>5
<1>7. quotient \in Int
  BY <1>2
<1>8. /\ v1 \in Int /\ v2 \in Int /\ s * v1 + v2 = m
      /\ BetweenLimits(rec.lb1, rec.ub1, v1) /\ BetweenLimits(rec.lb2, rec.ub2, v2)
  <2>1. CASE s = 1
    BY <1>2, <1>7, <2>1 DEF Limits, BetweenLimits
  <2>2. CASE s = -1
    BY <1>2, <1>7, <2>2 DEF Limits, BetweenLimits
  <2> QED BY <2>1, <2>2
<1> HIDE DEF v1, v2
<1> QED BY <1>6, <1>8

(* Everywhere the first column is the same multiple of the second.          *)
LEMMA ColumnsParallel ==
  ASSUME NEW lp, WellFormed(lp), NEW c1 \in lp.cols, NEW c2 \in lp.cols, ParallelCols(lp, c1, c2)
  PROVE  LET r == CHOOSE q \in ColRows(lp, c1) : TRUE
             scale == Exact(lp.a[r][c1], lp.a[r][c2])
         IN scale \in {-1, 1} /\ \A q \in lp.rows : lp.a[q][c1] = scale * lp.a[q][c2]
<1> DEFINE r == CHOOSE q \in ColRows(lp, c1) : TRUE
           scale == Exact(lp.a[r][c1], lp.a[r][c2])
<1>1. /\ c1 \in Cols /\ c2 \in Cols /\ lp.rows \subseteq Rows
      /\ ColRows(lp, c1) = ColRows(lp, c2) /\ r \in ColRows(lp, c1)
  BY WellFormedFacts DEF ParallelCols
<1>2. \A q \in lp.rows : lp.a[q][c1] \in {-1, 0, 1} /\ lp.a[q][c2] \in {-1, 0, 1}
  BY <1>1, UnitCoefficient
<1>3. r \in lp.rows /\ lp.a[r][c1] \in {-1, 1} /\ lp.a[r][c2] \in {-1, 1}
  <2> HIDE DEF r
  <2> QED BY <1>1, <1>2 DEF ColRows
<1>4. scale = lp.a[r][c2] * lp.a[r][c1]
  <2> DEFINE a == lp.a[r][c1]
             b == lp.a[r][c2]
  <2>1. a \in Int /\ b \in {-1, 1} /\ scale = Exact(a, b)
    BY <1>3
  <2> HIDE DEF a, b, scale
  <2>2. scale = b * a
    BY <2>1, ExactUnit
  <2> QED BY <2>2 DEF a, b
<1>5. \A q \in ColRows(lp, c1) : lp.a[q][c1] * lp.a[r][c2] = lp.a[r][c1] * lp.a[q][c2]
  <2> HIDE DEF r
  <2> QED BY <1>1 DEF ParallelCols
<1> HIDE DEF r, scale
<1>6. scale \in {-1, 1}
  <2> DEFINE a == lp.a[r][c1]
             b == lp.a[r][c2]
  <2>1. a \in {-1, 1} /\ b \in {-1, 1} /\ scale = b * a
    BY <1>3, <1>4
  <2> HIDE DEF a, b
  <2> QED BY <2>1
<1>7. ASSUME NEW q \in lp.rows
      PROVE  lp.a[q][c1] = scale * lp.a[q][c2]
  <2> DEFINE a == lp.a[r][c1]
             b == lp.a[r][c2]
             x == lp.a[q][c1]
             y == lp.a[q][c2]
  <2>1. a \in {-1, 1} /\ b \in {-1, 1} /\ scale = b * a /\ x \in {-1, 0, 1} /\ y \in {-1, 0, 1}
    BY <1>2, <1>3, <1>4
  <2>2. CASE q \in ColRows(lp, c1)
    <3>1. x * b = a * y
      BY <1>5, <2>2
    <3> HIDE DEF a, b, x, y
    <3>2. x = scale * y
      BY <2>1, <3>1
    <3> QED BY <3>2 DEF x, y
  <2>3. CASE q \notin ColRows(lp, c1)
    <3>1. x = 0 /\ y = 0
      BY <1>1, <2>3 DEF ColRows
    <3> HIDE DEF x, y
    <3>2. x = scale * y
      BY <1>6, <3>1
    <3> QED BY <3>2 DEF x, y
  <2> QED BY <2>2, <2>3
<1> QED BY <1>6, <1>7 DEF r, scale

(* Two parallel columns have the part in a row that the merged one has.     *)
LEMMA MergedPart ==
  ASSUME NEW a1 \in Int, NEW a2 \in Int, NEW scale \in {-1, 1}, a1 = scale * a2,
         NEW v1 \in Int, NEW v2 \in Int, NEW m \in Int, scale * v1 + v2 = m, NEW w \in Int
  PROVE  a1 * v1 + (a2 * v2 + w) = a2 * m + w
<1>1. CASE scale = 1
  BY <1>1
<1>2. CASE scale = -1
  <2>1. a1 = -a2 /\ m = v2 - v1
    BY <1>2
  <2> QED BY <2>1
<1> QED BY <1>1, <1>2

(* A solution of the program with the merged column splits into one of the  *)
(* program with both.                                                       *)
LEMMA MergeCarries ==
  ASSUME NEW t, Reversible(t), Carrying(t), ~Crossed(t.lp), NEW c1 \in t.lp.cols, NEW c2 \in t.lp.cols,
         ParallelCols(t.lp, c1, c2)
  PROVE  Carrying(MergeParallelCols(t, c1, c2))
<1> DEFINE r0 == CHOOSE q \in ColRows(t.lp, c1) : TRUE
           scale == Exact(t.lp.a[r0][c1], t.lp.a[r0][c2])
           rec == ParallelRecord(t.lp, c1, c2, scale)
           least == MergedBound(t.lp, c1, c2, scale, TRUE)
           most == MergedBound(t.lp, c1, c2, scale, FALSE)
           after == [t.lp EXCEPT !.cols = @ \ {c1}, !.lb[c2] = least, !.ub[c2] = most]
           without == [t.lp EXCEPT !.cols = @ \ {c1}]
           neither == [without EXCEPT !.cols = @ \ {c2}]
<1>1. MergeParallelCols(t, c1, c2) = Stored(t, rec, after)
  BY DEF MergeParallelCols
<1>2. /\ WellFormed(t.lp) /\ c1 \in Cols /\ c2 \in Cols /\ c1 # c2
      /\ t.lp.cols \subseteq Cols /\ t.lp.rows \subseteq Rows
      /\ t.lp.lb \in [Cols -> Limits] /\ t.lp.ub \in [Cols -> Limits]
  BY WellFormedFacts DEF Reversible, ParallelCols
<1>3. scale \in {-1, 1} /\ \A q \in t.lp.rows : t.lp.a[q][c1] = scale * t.lp.a[q][c2]
  BY <1>2, ColumnsParallel
<1> HIDE DEF r0, scale
<1>4. /\ rec.type = "parallelCol" /\ rec.col1 = c1 /\ rec.col2 = c2 /\ rec.scale = scale
      /\ rec.lb1 = t.lp.lb[c1] /\ rec.ub1 = t.lp.ub[c1] /\ rec.lb2 = t.lp.lb[c2] /\ rec.ub2 = t.lp.ub[c2]
  BY DEF ParallelRecord
<1>5. /\ after.rows = t.lp.rows /\ after.cols = t.lp.cols \ {c1} /\ after.a = t.lp.a
      /\ after.lhs = t.lp.lhs /\ after.rhs = t.lp.rhs
      /\ after.lb[c2] = least /\ after.ub[c2] = most
      /\ \A d \in Cols \ {c2} : after.lb[d] = t.lp.lb[d] /\ after.ub[d] = t.lp.ub[d]
  <2> HIDE DEF least, most
  <2> QED BY <1>2, WellFormedFacts
<1>6. WellFormed(without) /\ without.cols = t.lp.cols \ {c1} /\ without.a = t.lp.a
  BY <1>2, OneLeaves, WellFormedFacts
<1>7. least = (LET other == IF scale > 0 THEN t.lp.lb[c1] ELSE t.lp.ub[c1]
               IN IF t.lp.lb[c2] = NoBound \/ other = NoBound THEN NoBound ELSE t.lp.lb[c2] + scale * other)
  BY DEF MergedBound
<1>8. most = (LET other == IF scale > 0 THEN t.lp.ub[c1] ELSE t.lp.lb[c1]
              IN IF t.lp.ub[c2] = NoBound \/ other = NoBound THEN NoBound ELSE t.lp.ub[c2] + scale * other)
  BY DEF MergedBound
<1>9. \A c \in t.lp.cols : t.lp.lb[c] # NoBound /\ t.lp.ub[c] # NoBound => t.lp.lb[c] <= t.lp.ub[c]
  <2> SUFFICES ASSUME NEW c \in t.lp.cols, t.lp.lb[c] # NoBound, t.lp.ub[c] # NoBound
               PROVE  t.lp.lb[c] <= t.lp.ub[c]
    OBVIOUS
  <2>1. t.lp.lb[c] \in Int /\ t.lp.ub[c] \in Int
    BY <1>2 DEF Limits
  <2>2. ~(t.lp.lb[c] > t.lp.ub[c])
    BY DEF Crossed
  <2> QED BY <2>1, <2>2
<1> HIDE DEF rec, after, without, least, most
<1>10. ASSUME NEW x \in Solutions(after), NEW y, Undone(rec, x, y)
       PROVE  y \in Solutions(t.lp)
  <2> DEFINE m == x[c2]
             v1 == Split(rec, m).val1
             v2 == Split(rec, m).val2
  <2>1. y = [x EXCEPT ![c1] = v1, ![c2] = v2]
    BY <1>4, <1>10 DEF Undone
  <2>2. /\ x \in Points /\ \A d \in t.lp.cols \ {c1} : Within(after, x, d)
        /\ \A q \in t.lp.rows : Fulfilled(after, x, q)
    BY <1>5, SolutionParts
  <2>3. m \in Int /\ Within(after, x, c2)
    BY <1>2, <2>2 DEF Points
  <2>4. /\ v1 \in Int /\ v2 \in Int /\ scale * v1 + v2 = m
        /\ BetweenLimits(t.lp.lb[c1], t.lp.ub[c1], v1) /\ BetweenLimits(t.lp.lb[c2], t.lp.ub[c2], v2)
    <3>1. rec.lb1 \in Limits /\ rec.ub1 \in Limits /\ rec.lb2 \in Limits /\ rec.ub2 \in Limits
      BY <1>2, <1>4
    <3>2. /\ rec.lb1 # NoBound /\ rec.ub1 # NoBound => rec.lb1 <= rec.ub1
          /\ rec.lb2 # NoBound /\ rec.ub2 # NoBound => rec.lb2 <= rec.ub2
      BY <1>4, <1>9
    <3> DEFINE down == IF rec.scale > 0 THEN rec.lb1 ELSE rec.ub1
               up == IF rec.scale > 0 THEN rec.ub1 ELSE rec.lb1
    <3>3. rec.lb2 # NoBound /\ down # NoBound => rec.lb2 + rec.scale * down <= m
      <4>1. SUFFICES ASSUME rec.lb2 # NoBound, down # NoBound
                     PROVE  rec.lb2 + rec.scale * down <= m
        OBVIOUS
      <4>2. down = IF scale > 0 THEN t.lp.lb[c1] ELSE t.lp.ub[c1]
        BY <1>4
      <4> DEFINE v == rec.lb2 + rec.scale * down
      <4>3. least = v
        BY <1>4, <1>7, <4>1, <4>2
      <4>4. down \in Int /\ rec.lb2 \in Int
        BY <3>1, <4>1 DEF Limits
      <4>5. v \in Int
        BY <1>3, <1>4, <4>4
      <4> HIDE DEF v, m
      <4>6. v # NoBound
        BY <4>5, ProgramAssumption
      <4>7. after.lb[c2] = v
        BY <1>5, <4>3
      <4>8. v <= m
        BY <2>3, <4>6, <4>7 DEF Within, m
      <4> QED BY <4>8 DEF v
    <3>4. rec.ub2 # NoBound /\ up # NoBound => m <= rec.ub2 + rec.scale * up
      <4>1. SUFFICES ASSUME rec.ub2 # NoBound, up # NoBound
                     PROVE  m <= rec.ub2 + rec.scale * up
        OBVIOUS
      <4>2. up = IF scale > 0 THEN t.lp.ub[c1] ELSE t.lp.lb[c1]
        BY <1>4
      <4> DEFINE v == rec.ub2 + rec.scale * up
      <4>3. most = v
        BY <1>4, <1>8, <4>1, <4>2
      <4>4. up \in Int /\ rec.ub2 \in Int
        BY <3>1, <4>1 DEF Limits
      <4>5. v \in Int
        BY <1>3, <1>4, <4>4
      <4> HIDE DEF v, m
      <4>6. v # NoBound
        BY <4>5, ProgramAssumption
      <4>7. after.ub[c2] = v
        BY <1>5, <4>3
      <4>8. m <= v
        BY <2>3, <4>6, <4>7 DEF Within, m
      <4> QED BY <4>8 DEF v
    <3>5. rec.scale \in {-1, 1}
      BY <1>3, <1>4
    <3> HIDE DEF m
    <3> QED BY <1>4, <2>3, <3>1, <3>2, <3>3, <3>4, <3>5, SplitWithin
  <2> HIDE DEF v1, v2, m
  <2>5. /\ y \in Points /\ y[c1] = v1 /\ y[c2] = v2
        /\ \A d \in Cols : d # c1 /\ d # c2 => y[d] = x[d]
    BY <1>2, <2>1, <2>2, <2>4 DEF Points
  <2>6. ASSUME NEW d \in t.lp.cols
        PROVE  Within(t.lp, y, d)
    <3>1. CASE d = c1
      BY <2>4, <2>5, <3>1 DEF Within, BetweenLimits
    <3>2. CASE d = c2
      BY <2>4, <2>5, <3>2 DEF Within, BetweenLimits
    <3>3. CASE d # c1 /\ d # c2
      <4>1. Within(after, x, d) /\ y[d] = x[d] /\ after.lb[d] = t.lp.lb[d] /\ after.ub[d] = t.lp.ub[d]
        BY <1>2, <1>5, <2>2, <2>5, <3>3
      <4> QED BY <4>1 DEF Within
    <3> QED BY <3>1, <3>2, <3>3
  <2>7. ASSUME NEW q \in t.lp.rows
        PROVE  Fulfilled(t.lp, y, q)
    <3> DEFINE a1 == t.lp.a[q][c1]
               a2 == t.lp.a[q][c2]
               w == RowValue(neither, x, q)
    <3>1. q \in Rows /\ a1 \in Int /\ a2 \in Int /\ a1 = scale * a2
      <4>1. q \in Rows
        BY <1>2
      <4> QED BY <1>2, <1>3, <4>1, WellFormedFacts
    <3>2. /\ WellFormed(neither) /\ neither.cols = t.lp.cols \ {c1, c2} /\ neither.a = t.lp.a
      <4>1. WellFormed(neither)
        BY <1>6, OneLeaves
      <4>2. neither.cols = without.cols \ {c2} /\ neither.a = without.a
        BY <1>6, WellFormedFacts
      <4> HIDE DEF neither
      <4> QED BY <1>6, <4>1, <4>2
    <3>3. RowValue(t.lp, y, q) = a1 * y[c1] + RowValue(without, y, q)
      <4> QED BY ONLY <1>2, <2>5, <3>1, ValueWithout DEF without
    <3>4. \A z \in Points : RowValue(without, z, q) = a2 * z[c2] + RowValue(neither, z, q)
      <4>1. c2 \in without.cols /\ without.a = t.lp.a
        BY <1>2, <1>6
      <4> QED BY <1>6, <3>1, <4>1, ValueWithout
    <3>5. RowValue(neither, y, q) = w
      <4>1. \A d \in neither.cols : y[d] = x[d]
        BY <1>2, <2>5, <3>2
      <4> HIDE DEF neither
      <4> QED BY <3>1, <3>2, <4>1, SameElsewhere
    <3>6. RowValue(after, x, q) = RowValue(without, x, q)
      BY <1>5, <1>6, SameValue
    <3>7. w \in Int
      <4> HIDE DEF neither
      <4> QED BY <2>2, <3>1, <3>2, ValueInt
    <3> HIDE DEF a1, a2, w, neither
    <3>8. RowValue(without, y, q) = a2 * v2 + w
      BY <2>5, <3>4, <3>5
    <3>9. RowValue(t.lp, y, q) = a1 * v1 + (a2 * v2 + w)
      BY <2>5, <3>3, <3>8
    <3>10. RowValue(without, x, q) = a2 * m + w
      BY <2>2, <3>4 DEF m, w
    <3>11. a1 * v1 + (a2 * v2 + w) = a2 * m + w
      BY ONLY <1>3, <2>3, <2>4, <3>1, <3>7, MergedPart
    <3>12. RowValue(t.lp, y, q) = RowValue(after, x, q)
      BY <3>6, <3>9, <3>10, <3>11
    <3> QED BY <1>5, <2>2, <3>12 DEF Fulfilled
  <2> QED BY <2>5, <2>6, <2>7, SolutionParts
<1>11. rec.type # "fixedInf"
  BY <1>4
<1> QED BY <1>1, <1>10, <1>11, ChangeCarries

(* The record of the reduced bounds                                         *)
LEMMA ReducedBoundsCarries ==
  ASSUME NEW t, Reversible(t), Carrying(t)
  PROVE  Carrying(StoreReducedBounds(t)) /\ StoreReducedBounds(t).lp = t.lp
<1>1. ReducedRecord(t.lp).type = "reducedBounds"
  BY DEF ReducedRecord
<1> QED BY <1>1, NeutralCarries DEF StoreReducedBounds, Stored

-----------------------------------------------------------------------------
(* Substitution of a column singleton                                       *)

(* What changeSide does to the program                                      *)
LEMMA ChangeSideProgram ==
  ASSUME NEW t, WellFormed(t.lp), NEW isLhs \in BOOLEAN, NEW r \in Rows, NEW v
  PROVE  LET new == ChangeSide(t, isLhs, r, v).lp
         IN /\ new.rows = t.lp.rows /\ new.cols = t.lp.cols /\ new.a = t.lp.a
            /\ new.lb = t.lp.lb /\ new.ub = t.lp.ub
            /\ \A q \in Rows : /\ new.lhs[q] = IF q = r /\ isLhs THEN v ELSE t.lp.lhs[q]
                               /\ new.rhs[q] = IF q = r /\ ~isLhs THEN v ELSE t.lp.rhs[q]
<1> DEFINE new == ChangeSide(t, isLhs, r, v).lp
<1>1. t.lp.lhs \in [Rows -> Limits] /\ t.lp.rhs \in [Rows -> Limits]
  BY WellFormedFacts
<1>2. CASE isLhs
  <2> DEFINE after == [t.lp EXCEPT !.lhs[r] = v]
  <2>1. new = after
    BY <1>2 DEF ChangeSide, Stored
  <2>2. /\ after.rows = t.lp.rows /\ after.cols = t.lp.cols /\ after.a = t.lp.a
        /\ after.lb = t.lp.lb /\ after.ub = t.lp.ub
        /\ \A q \in Rows : after.lhs[q] = (IF q = r THEN v ELSE t.lp.lhs[q]) /\ after.rhs[q] = t.lp.rhs[q]
    BY <1>1, WellFormedFacts
  <2> HIDE DEF new, after
  <2> QED BY <1>2, <2>1, <2>2 DEF new
<1>3. CASE ~isLhs
  <2> DEFINE after == [t.lp EXCEPT !.rhs[r] = v]
  <2>1. new = after
    BY <1>3 DEF ChangeSide, Stored
  <2>2. /\ after.rows = t.lp.rows /\ after.cols = t.lp.cols /\ after.a = t.lp.a
        /\ after.lb = t.lp.lb /\ after.ub = t.lp.ub
        /\ \A q \in Rows : after.rhs[q] = (IF q = r THEN v ELSE t.lp.rhs[q]) /\ after.lhs[q] = t.lp.lhs[q]
    BY <1>1, WellFormedFacts
  <2> HIDE DEF new, after
  <2> QED BY <1>3, <2>1, <2>2 DEF new
<1> QED BY <1>2, <1>3

(* A record that belongs to a substitution carries the same debt on.        *)
LEMMA GroupGrows ==
  ASSUME NEW t, Reversible(t), NEW S, Reaches(t.log, S), NEW rec,
         rec.type \notin {"fixedCol", "fixedInf", "substituted", "parallelCol"}, NEW after,
         BelongsToSubstitution(Stored(t, rec, after).log, Len(t.log) + 1)
  PROVE  Reaches(Stored(t, rec, after).log, S)
<1>1. \A x \in S : \A y : Undone(rec, x, y) => y \in S
  BY SamePoint
<1>2. S \subseteq Points
  BY DEF Reaches
<1> QED BY <1>1, <1>2, Grows

(* The last records of a log                                                *)
LastIs(log, type, r) == Len(log) > 0 /\ log[Len(log)].rec.type = type /\ log[Len(log)].rec.row = r

AfterSubstituted(log, r) ==
  Len(log) > 0 /\ log[Len(log)].rec.type = "substituted" /\ log[Len(log)].rec.equation.row = r

AfterCoefficient(log, r) ==
  /\ Len(log) > 1 /\ LastIs(log, "coefficientChange", r)
  /\ log[Len(log) - 1].rec.type = "substituted" /\ log[Len(log) - 1].rec.equation.row = r

AfterSide(log, r) ==
  /\ Len(log) > 2 /\ LastIs(log, "rowBoundChange", r)
  /\ log[Len(log) - 1].rec.type = "coefficientChange" /\ log[Len(log) - 1].rec.row = r
  /\ log[Len(log) - 2].rec.type = "substituted" /\ log[Len(log) - 2].rec.equation.row = r

(* The log with one record more                                             *)
LEMMA StoredLog ==
  ASSUME NEW t, IsLog(t.log), NEW rec, NEW after
  PROVE  LET new == Stored(t, rec, after).log
         IN /\ IsLog(new) /\ Len(t.log) \in Nat /\ Len(new) = Len(t.log) + 1 /\ DOMAIN new = 1..Len(new)
            /\ \A i \in 1..Len(t.log) : new[i] = t.log[i]
            /\ new[Len(t.log) + 1].rec = rec
            /\ new[Len(t.log) + 1].before = t.lp
<1> DEFINE new == Stored(t, rec, after).log
<1>1. new = Append(t.log, [rec |-> rec, before |-> t.lp])
  BY DEF Stored
<1>2. Len(t.log) \in Nat
  BY DEF IsLog
<1> HIDE DEF new
<1>3. IsLog(new) /\ Len(new) = Len(t.log) + 1 /\ (\A i \in 1..Len(t.log) : new[i] = t.log[i])
      /\ new[Len(t.log) + 1] = [rec |-> rec, before |-> t.lp]
  BY <1>1, AppendToLog
<1>4. DOMAIN new = 1..Len(new)
  BY <1>3, LogDomain
<1> QED BY <1>2, <1>3, <1>4 DEF new

(* A row or a coefficient change right after a substitution belongs to it.  *)
LEMMA BelongsAfterSubstituted ==
  ASSUME NEW t, IsLog(t.log), NEW rec, rec.type \in {"coefficientChange", "redundantRow"}, NEW after, NEW r,
         AfterSubstituted(t.log, r)
  PROVE  /\ BelongsToSubstitution(Stored(t, rec, after).log, Len(t.log) + 1)
         /\ rec.type = "coefficientChange" /\ rec.row = r => AfterCoefficient(Stored(t, rec, after).log, r)
<1> DEFINE new == Stored(t, rec, after).log
           k == Len(t.log)
<1>1. /\ k \in Nat /\ Len(new) = k + 1 /\ DOMAIN new = 1..Len(new)
      /\ \A i \in 1..k : new[i] = t.log[i]
      /\ new[k + 1].rec = rec
  BY StoredLog
<1>2. k > 0 /\ t.log[k].rec.type = "substituted" /\ t.log[k].rec.equation.row = r
  BY DEF AfterSubstituted
<1> HIDE DEF new, k
<1>3. k + 1 - 1 = k /\ new[k] = t.log[k] /\ k \in DOMAIN new
  BY <1>1, <1>2
<1>4. BelongsToSubstitution(new, k + 1)
  BY <1>1, <1>2, <1>3 DEF BelongsToSubstitution, TypeAt
<1>5. rec.type = "coefficientChange" /\ rec.row = r => AfterCoefficient(new, r)
  BY <1>1, <1>2, <1>3 DEF AfterCoefficient, LastIs
<1> QED BY <1>4, <1>5 DEF new, k

(* The sides changed after that belong to it, two of them at most.          *)
LEMMA BelongsAfterCoefficient ==
  ASSUME NEW t, IsLog(t.log), NEW rec, rec.type = "rowBoundChange", NEW after, NEW r, rec.row = r,
         AfterCoefficient(t.log, r) \/ AfterSide(t.log, r)
  PROVE  /\ BelongsToSubstitution(Stored(t, rec, after).log, Len(t.log) + 1)
         /\ AfterCoefficient(t.log, r) => AfterSide(Stored(t, rec, after).log, r)
<1> DEFINE new == Stored(t, rec, after).log
           k == Len(t.log)
<1>1. /\ k \in Nat /\ Len(new) = k + 1 /\ DOMAIN new = 1..Len(new)
      /\ \A i \in 1..k : new[i] = t.log[i]
      /\ new[k + 1].rec = rec
  BY StoredLog
<1>2. k + 1 - 1 = k /\ k + 1 - 2 = k - 1 /\ k + 1 - 3 = k - 2
  BY <1>1
<1>3. CASE AfterCoefficient(t.log, r)
  <2>1. /\ k > 1 /\ t.log[k].rec.type = "coefficientChange" /\ t.log[k].rec.row = r
        /\ t.log[k - 1].rec.type = "substituted" /\ t.log[k - 1].rec.equation.row = r
    BY <1>3 DEF AfterCoefficient, LastIs
  <2> HIDE DEF new, k
  <2>2. k \in DOMAIN new /\ k - 1 \in DOMAIN new /\ new[k] = t.log[k] /\ new[k - 1] = t.log[k - 1]
    BY <1>1, <2>1
  <2>3. TypeAt(new, k) = "coefficientChange" /\ TypeAt(new, k - 1) = "substituted"
    BY <2>1, <2>2 DEF TypeAt
  <2>4. BelongsToSubstitution(new, k + 1)
    <3> DEFINE j == k + 1
    <3>0. j - 1 = k /\ j - 2 = k - 1
      BY <1>1
    <3>1. TypeAt(new, j - 1) = "coefficientChange" /\ TypeAt(new, j - 2) = "substituted"
      BY <2>3, <3>0
    <3>2. new[j].rec.type = "rowBoundChange" /\ new[j].rec.row = r
      BY <1>1
    <3>3. new[j - 1].rec.row = r /\ new[j - 2].rec.equation.row = r
      BY <2>1, <2>2, <3>0
    <3> HIDE DEF j
    <3>4. /\ TypeAt(new, j - 1) = "coefficientChange" /\ TypeAt(new, j - 2) = "substituted"
          /\ new[j].rec.row = new[j - 1].rec.row /\ new[j].rec.row = new[j - 2].rec.equation.row
      BY <3>1, <3>2, <3>3
    <3>5. BelongsToSubstitution(new, j)
      BY <3>2, <3>4, Zenon DEF BelongsToSubstitution
    <3> QED BY <3>5 DEF j
  <2>5. AfterSide(new, r)
    BY <1>1, <1>2, <2>1, <2>2 DEF AfterSide, LastIs
  <2> QED BY <2>4, <2>5 DEF new, k
<1>4. CASE AfterSide(t.log, r) /\ ~AfterCoefficient(t.log, r)
  <2>1. /\ k > 2 /\ t.log[k].rec.type = "rowBoundChange" /\ t.log[k].rec.row = r
        /\ t.log[k - 1].rec.type = "coefficientChange" /\ t.log[k - 1].rec.row = r
        /\ t.log[k - 2].rec.type = "substituted" /\ t.log[k - 2].rec.equation.row = r
    BY <1>4 DEF AfterSide, LastIs
  <2> HIDE DEF new, k
  <2>2. /\ k \in DOMAIN new /\ k - 1 \in DOMAIN new /\ k - 2 \in DOMAIN new
        /\ new[k] = t.log[k] /\ new[k - 1] = t.log[k - 1] /\ new[k - 2] = t.log[k - 2]
    BY <1>1, <2>1
  <2>3. TypeAt(new, k) = "rowBoundChange" /\ TypeAt(new, k - 1) = "coefficientChange"
        /\ TypeAt(new, k - 2) = "substituted"
    BY <2>1, <2>2 DEF TypeAt
  <2>4. \A j \in 1..2 : new[k + 1].rec.row = new[k + 1 - j].rec.row
    <3> SUFFICES ASSUME NEW j \in 1..2
                 PROVE  new[k + 1].rec.row = new[k + 1 - j].rec.row
      OBVIOUS
    <3>1. j = 1 \/ j = 2
      OBVIOUS
    <3> QED BY <1>1, <1>2, <2>1, <2>2, <3>1
  <2>5. BelongsToSubstitution(new, k + 1)
    BY <1>1, <1>2, <2>1, <2>2, <2>3, <2>4 DEF BelongsToSubstitution
  <2> QED BY <1>4, <2>5 DEF new, k
<1> QED BY <1>3, <1>4

(* What a stored row says of the other columns                              *)
LEMMA ScalarWithout ==
  ASSUME NEW lp, WellFormed(lp), NEW x \in Points, NEW r \in Rows, NEW c \in RowCols(lp, r)
  PROVE  Scalar(RowPart(lp, r).coefs, [x EXCEPT ![c] = 0]) = Rest(lp, x, r, c)
<1> DEFINE x0 == [x EXCEPT ![c] = 0]
           coefs == [d \in RowCols(lp, r) |-> lp.a[r][d]]
<1>1. c \in lp.cols /\ c \in Cols /\ lp.a[r][c] \in Int /\ RowCols(lp, r) \subseteq Cols
  BY ColumnOfRow, WellFormedFacts DEF RowCols
<1>2. x0 \in Points /\ x0[c] = 0 /\ \A d \in Cols \ {c} : x0[d] = x[d]
  BY <1>1 DEF Points
<1>3. RowPart(lp, r).coefs = coefs /\ DOMAIN coefs = RowCols(lp, r)
  BY DEF RowPart
<1>4. Rest(lp, x0, r, c) = Rest(lp, x, r, c)
  <2>1. [d \in RowCols(lp, r) \ {c} |-> lp.a[r][d] * x0[d]] = [d \in RowCols(lp, r) \ {c} |-> lp.a[r][d] * x[d]]
    <3> HIDE DEF x0
    <3>1. \A d \in RowCols(lp, r) \ {c} : x0[d] = x[d]
      BY <1>1, <1>2
    <3> QED BY <3>1
  <2> QED BY <2>1 DEF Rest
<1>5. Scalar(coefs, x0) = RowValue(lp, x0, r)
  <2>1. [d \in RowCols(lp, r) |-> coefs[d] * x0[d]] = [d \in RowCols(lp, r) |-> lp.a[r][d] * x0[d]]
    <3> HIDE DEF x0
    <3> QED OBVIOUS
  <2> HIDE DEF x0, coefs
  <2>2. RowValue(lp, x0, r) = SumFunctionOnSet([d \in RowCols(lp, r) |-> lp.a[r][d] * x0[d]], RowCols(lp, r))
    BY <1>2, SumOfEntries
  <2> QED BY <1>3, <2>1, <2>2 DEF Scalar
<1> HIDE DEF x0, coefs
<1>6. RowValue(lp, x0, r) = lp.a[r][c] * x0[c] + Rest(lp, x0, r, c) /\ Rest(lp, x0, r, c) \in Int
  BY <1>2, ColumnAndRest
<1>7. lp.a[r][c] * x0[c] = 0
  BY <1>1, <1>2
<1> QED BY <1>3, <1>4, <1>5, <1>6, <1>7 DEF x0

(* The row of a column singleton without it                                 *)
LEMMA WithoutIsRest ==
  ASSUME NEW lp, WellFormed(lp), NEW x \in Points, NEW r \in Rows, NEW c \in RowCols(lp, r)
  PROVE  RowValue([lp EXCEPT !.cols = @ \ {c}], x, r) = Rest(lp, x, r, c)
<1> DEFINE w == RowValue([lp EXCEPT !.cols = @ \ {c}], x, r)
           p == lp.a[r][c] * x[c]
<1>1. c \in lp.cols /\ c \in Cols /\ lp.a[r][c] \in Int
  BY ColumnOfRow
<1>2. RowValue(lp, x, r) = p + w /\ RowValue(lp, x, r) = p + Rest(lp, x, r, c) /\ Rest(lp, x, r, c) \in Int
  BY <1>1, ValueWithout, ColumnAndRest
<1>3. w \in Int
  BY <1>1, OneLeaves, ValueInt
<1>4. p \in Int
  BY <1>1, ValueInt, UnitCoefficient DEF Points
<1> HIDE DEF w, p
<1>5. w = Rest(lp, x, r, c)
  BY <1>2, <1>3, <1>4
<1> QED BY <1>5 DEF w

(* The room for the others, on the side that a bound of the column makes    *)
Room(lp, c, r, ofLhs) == RoomOf(lp, c, r, ofLhs, RowImplies(lp, r, c, (lp.a[r][c] < 0) <=> ofLhs))

(* The solved value respects a bound of the column: the row implies it, or  *)
(* the room for the others does.                                            *)
LEMMA SolvedWithin ==
  ASSUME NEW bound \in Int, NEW a \in {-1, 1}, NEW rhs \in Int, NEW rest \in Int, NEW isLower \in BOOLEAN,
         OnSide((a < 0) <=> isLower, rhs - bound * a, rest)
  PROVE  OnSide(isLower, bound, a * (rhs - rest))
<1>1. CASE a = 1
  <2>1. bound * a = bound /\ a * (rhs - rest) = rhs - rest
    BY <1>1
  <2>2. CASE isLower
    BY <1>1, <2>1, <2>2 DEF OnSide
  <2>3. CASE ~isLower
    BY <1>1, <2>1, <2>3 DEF OnSide
  <2> QED BY <2>2, <2>3
<1>2. CASE a = -1
  <2>1. bound * a = -bound /\ a * (rhs - rest) = rest - rhs
    BY <1>2
  <2>2. CASE isLower
    BY <1>2, <2>1, <2>2 DEF OnSide
  <2>3. CASE ~isLower
    BY <1>2, <2>1, <2>3 DEF OnSide
  <2> QED BY <2>2, <2>3
<1> QED BY <1>1, <1>2

(* Solving the equation for the column gives a solution of the program with *)
(* it.                                                                      *)
LEMMA SolvedPoint ==
  ASSUME NEW lp, WellFormed(lp), NEW r \in lp.rows, NEW c \in lp.cols, ColRows(lp, c) = {r}, Equation(lp, r),
         NEW x \in Points, \A d \in lp.cols \ {c} : Within(lp, x, d), \A q \in lp.rows \ {r} : Fulfilled(lp, x, q),
         \A ofLhs \in BOOLEAN : Room(lp, c, r, ofLhs) # NoBound => OnSide(ofLhs, Room(lp, c, r, ofLhs), Rest(lp, x, r, c))
  PROVE  [x EXCEPT ![c] = SolveEquation(SubstitutedRecord(lp, c, r), x)] \in Solutions(lp)
<1> DEFINE a == lp.a[r][c]
           rest == Rest(lp, x, r, c)
           rhs == lp.rhs[r]
           v == SolveEquation(SubstitutedRecord(lp, c, r), x)
           y == [x EXCEPT ![c] = v]
<1>1. /\ r \in Rows /\ c \in Cols /\ c \in RowCols(lp, r) /\ lp.cols \subseteq Cols /\ lp.rows \subseteq Rows
      /\ lp.lb[c] \in Limits /\ lp.ub[c] \in Limits /\ rhs \in Int /\ lp.lhs[r] = rhs
  <2>1. r \in ColRows(lp, c)
    OBVIOUS
  <2>2. r \in Rows /\ c \in Cols /\ lp.a[r][c] # 0 /\ lp.rhs[r] \in Limits /\ lp.lb[c] \in Limits /\ lp.ub[c] \in Limits
    BY <2>1, WellFormedFacts DEF ColRows
  <2> QED BY <2>2, WellFormedFacts DEF RowCols, Equation, Limits
<1>2. a \in {-1, 1} /\ rest \in Int
  BY <1>1, UnitCoefficient, ColumnAndRest
<1>3. v = a * (rhs - rest) /\ a * v = rhs - rest /\ v \in Int
  <2> DEFINE rec == SubstitutedRecord(lp, c, r)
  <2>1. rec.equation = RowPart(lp, r) /\ rec.col = c
    BY DEF SubstitutedRecord
  <2>2. RowPart(lp, r).rhs = rhs /\ RowPart(lp, r).coefs[c] = a
    BY <1>1 DEF RowPart
  <2>3. Scalar(RowPart(lp, r).coefs, [x EXCEPT ![c] = 0]) = rest
    BY <1>1, ScalarWithout
  <2>4. v = Exact(rhs - rest, a)
    <3> HIDE DEF rhs, rest, a, rec
    <3> QED BY <2>1, <2>2, <2>3 DEF SolveEquation, rec
  <2> HIDE DEF rhs, rest, a, v
  <2>5. rhs - rest \in Int
    BY <1>1, <1>2
  <2> QED BY <1>2, <2>4, <2>5, ExactUnit
<1>4. y \in Points /\ y[c] = v /\ \A d \in Cols \ {c} : y[d] = x[d]
  <2> HIDE DEF v
  <2> QED BY <1>1, <1>3 DEF Points
<1> HIDE DEF y, v
<1>5. Rest(lp, y, r, c) = rest
  <2>1. \A d \in RowCols(lp, r) \ {c} : y[d] = x[d]
    BY <1>1, <1>4 DEF RowCols
  <2>2. [d \in RowCols(lp, r) \ {c} |-> lp.a[r][d] * y[d]] = [d \in RowCols(lp, r) \ {c} |-> lp.a[r][d] * x[d]]
    BY <2>1
  <2> QED BY <2>2 DEF Rest
<1>6. RowValue(lp, y, r) = rhs
  <2>1. RowValue(lp, y, r) = lp.a[r][c] * y[c] + Rest(lp, y, r, c)
    BY <1>1, <1>4, ColumnAndRest
  <2>2. lp.a[r][c] * y[c] = rhs - rest
    BY <1>3, <1>4
  <2> HIDE DEF rhs, rest
  <2> QED BY <1>1, <1>2, <1>5, <2>1, <2>2
<1>7. Fulfilled(lp, y, r)
  <2> HIDE DEF rhs
  <2>1. rhs <= rhs
    BY <1>1
  <2> QED BY <1>1, <1>6, <2>1 DEF Fulfilled, rhs
<1>8. ASSUME NEW q \in lp.rows \ {r}
      PROVE  Fulfilled(lp, y, q)
  <2>1. q \in Rows /\ lp.a[q][c] = 0
    <3>1. q \notin ColRows(lp, c)
      OBVIOUS
    <3> QED BY <1>1, <3>1 DEF ColRows
  <2>2. \A d \in lp.cols : lp.a[q][d] * y[d] = lp.a[q][d] * x[d]
    <3> SUFFICES ASSUME NEW d \in lp.cols
                 PROVE  lp.a[q][d] * y[d] = lp.a[q][d] * x[d]
      OBVIOUS
    <3>1. CASE d = c
      <4>1. x[c] \in Int /\ y[c] \in Int
        BY <1>1, <1>4 DEF Points
      <4> QED BY <2>1, <3>1, <4>1
    <3>2. CASE d # c
      BY <1>1, <1>4, <3>2
    <3> QED BY <3>1, <3>2
  <2>3. RowValue(lp, y, q) = RowValue(lp, x, q)
    BY <2>1, <2>2, SameElsewhere
  <2> QED BY <2>3 DEF Fulfilled
<1>9. \A d \in lp.cols \ {c} : Within(lp, y, d)
  BY <1>1, <1>4 DEF Within
<1>10. ASSUME NEW isLower \in BOOLEAN, BoundOf(lp, c, isLower) # NoBound
       PROVE  OnSide(isLower, BoundOf(lp, c, isLower), v)
  <2> DEFINE bound == BoundOf(lp, c, isLower)
  <2>1. bound \in Int
    BY <1>1, <1>10 DEF BoundOf, Limits
  <2>2. CASE RowImplies(lp, r, c, isLower)
    <3> DEFINE implied == ImpliedBound(lp, r, c, isLower)
    <3>1. implied # NoBound /\ OnSide(isLower, bound, implied)
      BY <1>10, <2>2 DEF RowImplies, BoundOf, OnSide
    <3>2. \A d \in RowCols(lp, r) \ {c} : Within(lp, y, d)
      BY <1>9 DEF RowCols
    <3>3. implied \in Int /\ OnSide(isLower, implied, y[c])
      BY <1>1, <1>4, <1>7, <3>1, <3>2, ImpliedBoundHolds
    <3> HIDE DEF implied, bound
    <3>4. OnSide(isLower, bound, v)
      BY <1>3, <1>4, <2>1, <3>1, <3>3 DEF OnSide
    <3> QED BY <3>4 DEF bound
  <2>3. CASE ~RowImplies(lp, r, c, isLower)
    <3> DEFINE ofLhs == (a < 0) <=> isLower
    <3>1. ofLhs \in BOOLEAN /\ (((lp.a[r][c] < 0) <=> ofLhs) <=> isLower)
      OBVIOUS
    <3>2. Room(lp, c, r, ofLhs) = rhs - bound * a
      <4>1. ((lp.a[r][c] < 0) <=> ofLhs) = isLower
        BY <3>1
      <4>2. ~RowImplies(lp, r, c, (lp.a[r][c] < 0) <=> ofLhs)
        BY <2>3, <4>1
      <4> QED BY <4>1, <4>2 DEF Room, RoomOf, BoundOf
    <3> HIDE DEF bound, rhs, a, rest
    <3>3. rhs - bound * a \in Int /\ rhs - bound * a # NoBound
      <4>1. rhs - bound * a \in Int
        BY <1>1, <1>2, <2>1
      <4> QED BY <4>1, ProgramAssumption
    <3>4. OnSide(ofLhs, rhs - bound * a, rest)
      BY <3>1, <3>2, <3>3 DEF rest
    <3>5. OnSide(isLower, bound, a * (rhs - rest))
      BY <1>1, <1>2, <2>1, <3>4, SolvedWithin
    <3> QED BY <1>3, <3>5 DEF bound
  <2> QED BY <2>2, <2>3
<1>11. Within(lp, y, c)
  <2>1. (lp.lb[c] # NoBound => OnSide(TRUE, lp.lb[c], v)) /\ (lp.ub[c] # NoBound => OnSide(FALSE, lp.ub[c], v))
    BY <1>10 DEF BoundOf
  <2> QED BY <1>4, <2>1 DEF Within, OnSide
<1>12. y \in Solutions(lp)
  BY <1>4, <1>7, <1>8, <1>9, <1>11, SolutionParts
<1> QED BY <1>12 DEF y, v

(* A row gets these sides, the rest of the program stays.                   *)
SidesAre(new, lp, r, lhs, rhs) ==
  /\ new.rows = lp.rows /\ new.cols = lp.cols /\ new.a = lp.a /\ new.lb = lp.lb /\ new.ub = lp.ub
  /\ new.lhs[r] = lhs /\ new.rhs[r] = rhs
  /\ \A q \in Rows \ {r} : new.lhs[q] = lp.lhs[q] /\ new.rhs[q] = lp.rhs[q]

(* A side of the row of a substitution                                      *)
LEMMA ChangeSideInGroup ==
  ASSUME NEW t, Reversible(t), NEW S, Reaches(t.log, S), NEW r \in Rows,
         AfterCoefficient(t.log, r) \/ AfterSide(t.log, r), NEW isLhs \in BOOLEAN, NEW v \in Limits
  PROVE  LET new == ChangeSide(t, isLhs, r, v)
         IN /\ Reversible(new) /\ Reaches(new.log, S)
            /\ AfterCoefficient(t.log, r) => AfterSide(new.log, r)
            /\ SidesAre(new.lp, t.lp, r, IF isLhs THEN v ELSE t.lp.lhs[r], IF isLhs THEN t.lp.rhs[r] ELSE v)
<1> DEFINE rec == SideRecord(isLhs, r)
           after == IF isLhs THEN [t.lp EXCEPT !.lhs[r] = v] ELSE [t.lp EXCEPT !.rhs[r] = v]
           new == ChangeSide(t, isLhs, r, v)
<1>1. new = Stored(t, rec, after)
  BY DEF ChangeSide
<1>2. rec.type = "rowBoundChange" /\ rec.row = r
  BY DEF SideRecord
<1>3. WellFormed(t.lp) /\ IsLog(t.log)
  BY DEF Reversible
<1>4. SidesAre(new.lp, t.lp, r, IF isLhs THEN v ELSE t.lp.lhs[r], IF isLhs THEN t.lp.rhs[r] ELSE v)
  <2>1. /\ new.lp.rows = t.lp.rows /\ new.lp.cols = t.lp.cols /\ new.lp.a = t.lp.a
        /\ new.lp.lb = t.lp.lb /\ new.lp.ub = t.lp.ub
        /\ \A q \in Rows : /\ new.lp.lhs[q] = IF q = r /\ isLhs THEN v ELSE t.lp.lhs[q]
                           /\ new.lp.rhs[q] = IF q = r /\ ~isLhs THEN v ELSE t.lp.rhs[q]
    BY <1>3, ChangeSideProgram
  <2> HIDE DEF new
  <2> QED BY <2>1 DEF SidesAre
<1>5. Reversible(new)
  BY ChangeSideReversible
<1> HIDE DEF rec, after
<1>6. /\ BelongsToSubstitution(Stored(t, rec, after).log, Len(t.log) + 1)
      /\ AfterCoefficient(t.log, r) => AfterSide(Stored(t, rec, after).log, r)
  BY <1>2, <1>3, BelongsAfterCoefficient
<1>7. Reaches(Stored(t, rec, after).log, S)
  BY <1>2, <1>6, GroupGrows
<1> HIDE DEF new
<1> QED BY <1>1, <1>4, <1>5, <1>6, <1>7 DEF new

(* ... if it has to change at all                                           *)
LEMMA ChangeSideFromInGroup ==
  ASSUME NEW t, Reversible(t), NEW S, Reaches(t.log, S), NEW r \in Rows,
         AfterCoefficient(t.log, r) \/ AfterSide(t.log, r), NEW isLhs \in BOOLEAN, NEW v \in Limits
  PROVE  LET new == ChangeSideFrom(t, isLhs, r, v)
         IN /\ Reversible(new) /\ Reaches(new.log, S)
            /\ AfterCoefficient(t.log, r) => AfterCoefficient(new.log, r) \/ AfterSide(new.log, r)
            /\ SidesAre(new.lp, t.lp, r, IF isLhs THEN v ELSE t.lp.lhs[r], IF isLhs THEN t.lp.rhs[r] ELSE v)
<1>1. CASE v = (IF isLhs THEN t.lp.lhs[r] ELSE t.lp.rhs[r])
  <2>1. ChangeSideFrom(t, isLhs, r, v) = t
    BY <1>1 DEF ChangeSideFrom
  <2>2. SidesAre(t.lp, t.lp, r, IF isLhs THEN v ELSE t.lp.lhs[r], IF isLhs THEN t.lp.rhs[r] ELSE v)
    BY <1>1 DEF SidesAre
  <2> QED BY <2>1, <2>2
<1>2. CASE v # (IF isLhs THEN t.lp.lhs[r] ELSE t.lp.rhs[r])
  <2>1. ChangeSideFrom(t, isLhs, r, v) = ChangeSide(t, isLhs, r, v)
    BY <1>2 DEF ChangeSideFrom
  <2> QED BY <2>1, ChangeSideInGroup
<1> QED BY <1>1, <1>2

(* The inequality that takes the place of the equation                      *)
LEMMA ToInequalityInGroup ==
  ASSUME NEW t, Reversible(t), NEW S, Reaches(t.log, S), NEW r \in Rows, AfterSubstituted(t.log, r),
         NEW lhs \in Limits, NEW rhs \in Limits, ~(lhs = NoBound /\ rhs = NoBound)
  PROVE  /\ Reaches(ToInequality(t, r, lhs, rhs).log, S)
         /\ SidesAre(ToInequality(t, r, lhs, rhs).lp, t.lp, r, lhs, rhs)
<1> DEFINE Open(x) == IF lhs = NoBound THEN ChangeSide(x, TRUE, r, NoBound)
                      ELSE IF rhs = NoBound THEN ChangeSide(x, FALSE, r, NoBound) ELSE x
           Lhs(x) == IF lhs = NoBound THEN x ELSE ChangeSideFrom(x, TRUE, r, lhs)
           Rhs(x) == IF rhs = NoBound THEN x ELSE ChangeSideFrom(x, FALSE, r, rhs)
           rec == CoefficientRecord(r)
           base == Stored(t, rec, t.lp)
           open == Open(base)
           new == ToInequality(t, r, lhs, rhs)
<1>1. new = IF lhs # NoBound /\ lhs > t.lp.rhs[r] THEN Lhs(Rhs(open)) ELSE Rhs(Lhs(open))
  BY DEF ToInequality
<1>2. /\ Reversible(base) /\ Reaches(base.log, S) /\ AfterCoefficient(base.log, r) /\ base.lp = t.lp
  <2>1. rec.type = "coefficientChange" /\ rec.row = r /\ Neutral(rec)
    BY DEF CoefficientRecord, Neutral
  <2>2. WellFormed(t.lp) /\ SameBounds(t.lp, t.lp) /\ IsLog(t.log)
    BY DEF Reversible, SameBounds
  <2>3. base.lp = t.lp
    BY DEF Stored
  <2> HIDE DEF rec
  <2>4. Reversible(base)
    BY <2>1, <2>2, NeutralStored
  <2>5. BelongsToSubstitution(base.log, Len(t.log) + 1) /\ AfterCoefficient(base.log, r)
    BY <2>1, <2>2, BelongsAfterSubstituted
  <2>6. Reaches(base.log, S)
    BY <2>1, <2>5, GroupGrows
  <2> QED BY <2>3, <2>4, <2>5, <2>6
<1>3. NoBound \in Limits
  BY DEF Limits
<1> HIDE DEF base, new
<1>4. CASE lhs = NoBound
  <2> DEFINE opened == ChangeSide(base, TRUE, r, NoBound)
             result == ChangeSideFrom(opened, FALSE, r, rhs)
  <2>1. new = result
    BY <1>1, <1>4
  <2>2. /\ Reversible(opened) /\ Reaches(opened.log, S) /\ AfterSide(opened.log, r)
        /\ SidesAre(opened.lp, base.lp, r, NoBound, base.lp.rhs[r])
    BY <1>2, <1>3, ChangeSideInGroup
  <2> HIDE DEF opened
  <2>3. Reaches(result.log, S) /\ SidesAre(result.lp, opened.lp, r, opened.lp.lhs[r], rhs)
    BY <2>2, ChangeSideFromInGroup
  <2> HIDE DEF result
  <2>4. SidesAre(result.lp, t.lp, r, lhs, rhs)
    BY <1>2, <1>4, <2>2, <2>3 DEF SidesAre
  <2> QED BY <2>1, <2>3, <2>4 DEF new
<1>5. CASE lhs # NoBound /\ rhs = NoBound
  <2> DEFINE opened == ChangeSide(base, FALSE, r, NoBound)
             result == ChangeSideFrom(opened, TRUE, r, lhs)
  <2>1. new = result
    BY <1>1, <1>5
  <2>2. /\ Reversible(opened) /\ Reaches(opened.log, S) /\ AfterSide(opened.log, r)
        /\ SidesAre(opened.lp, base.lp, r, base.lp.lhs[r], NoBound)
    BY <1>2, <1>3, ChangeSideInGroup
  <2> HIDE DEF opened
  <2>3. Reaches(result.log, S) /\ SidesAre(result.lp, opened.lp, r, lhs, opened.lp.rhs[r])
    BY <2>2, ChangeSideFromInGroup
  <2> HIDE DEF result
  <2>4. SidesAre(result.lp, t.lp, r, lhs, rhs)
    BY <1>2, <1>5, <2>2, <2>3 DEF SidesAre
  <2> QED BY <2>1, <2>3, <2>4 DEF new
<1>6. CASE lhs # NoBound /\ rhs # NoBound
  <2>1. open = base
    BY <1>6
  <2>2. CASE lhs > t.lp.rhs[r]
    <3> DEFINE one == ChangeSideFrom(base, FALSE, r, rhs)
               result == ChangeSideFrom(one, TRUE, r, lhs)
    <3>1. new = result
      BY <1>1, <1>6, <2>1, <2>2
    <3>2. /\ Reversible(one) /\ Reaches(one.log, S) /\ (AfterCoefficient(one.log, r) \/ AfterSide(one.log, r))
          /\ SidesAre(one.lp, base.lp, r, base.lp.lhs[r], rhs)
      BY <1>2, ChangeSideFromInGroup
    <3> HIDE DEF one
    <3>3. Reaches(result.log, S) /\ SidesAre(result.lp, one.lp, r, lhs, one.lp.rhs[r])
      BY <3>2, ChangeSideFromInGroup
    <3> HIDE DEF result
    <3>4. SidesAre(result.lp, t.lp, r, lhs, rhs)
      BY <1>2, <3>2, <3>3 DEF SidesAre
    <3> QED BY <3>1, <3>3, <3>4 DEF new
  <2>3. CASE ~(lhs > t.lp.rhs[r])
    <3> DEFINE one == ChangeSideFrom(base, TRUE, r, lhs)
               result == ChangeSideFrom(one, FALSE, r, rhs)
    <3>1. new = result
      BY <1>1, <1>6, <2>1, <2>3
    <3>2. /\ Reversible(one) /\ Reaches(one.log, S) /\ (AfterCoefficient(one.log, r) \/ AfterSide(one.log, r))
          /\ SidesAre(one.lp, base.lp, r, lhs, base.lp.rhs[r])
      BY <1>2, ChangeSideFromInGroup
    <3> HIDE DEF one
    <3>3. Reaches(result.log, S) /\ SidesAre(result.lp, one.lp, r, one.lp.lhs[r], rhs)
      BY <3>2, ChangeSideFromInGroup
    <3> HIDE DEF result
    <3>4. SidesAre(result.lp, t.lp, r, lhs, rhs)
      BY <1>2, <3>2, <3>3 DEF SidesAre
    <3> QED BY <3>1, <3>3, <3>4 DEF new
  <2> QED BY <2>2, <2>3
<1> QED BY <1>4, <1>5, <1>6

(* The column goes, and comes back by solving the equation.                 *)
LEMMA SubstituteInObjectiveLeads ==
  ASSUME NEW t, Reversible(t), Carrying(t), NEW r \in Rows, NEW c \in RowCols(t.lp, r), NEW S, S \subseteq Points,
         \A x \in S : [x EXCEPT ![c] = SolveEquation(SubstitutedRecord(t.lp, c, r), x)] \in Solutions(t.lp)
  PROVE  LET new == SubstituteInObjective(t, c, r)
         IN /\ Reaches(new.log, S) /\ AfterSubstituted(new.log, r)
            /\ new.lp.rows = t.lp.rows /\ new.lp.cols = t.lp.cols \ {c} /\ new.lp.a = t.lp.a
            /\ new.lp.lb = t.lp.lb /\ new.lp.ub = t.lp.ub /\ new.lp.lhs = t.lp.lhs /\ new.lp.rhs = t.lp.rhs
<1> DEFINE rec == SubstitutedRecord(t.lp, c, r)
           obj == ObjectiveWithout(t.lp, c, r)
           after == [t.lp EXCEPT !.cols = @ \ {c}, !.obj = obj]
           new == SubstituteInObjective(t, c, r)
<1>1. new = Stored(t, rec, after) /\ new.lp = after
  BY DEF SubstituteInObjective, Stored
<1>2. rec.type = "substituted" /\ rec.equation.row = r /\ rec.col = c
  BY DEF SubstitutedRecord, RowPart
<1>3. /\ after.rows = t.lp.rows /\ after.cols = t.lp.cols \ {c} /\ after.a = t.lp.a
      /\ after.lb = t.lp.lb /\ after.ub = t.lp.ub /\ after.lhs = t.lp.lhs /\ after.rhs = t.lp.rhs
  <2> HIDE DEF obj
  <2> QED BY WellFormedFacts DEF Reversible
<1>4. \A x \in S : \A y : Undone(rec, x, y) => y \in Solutions(t.lp)
  <2> SUFFICES ASSUME NEW x \in S, NEW y, Undone(rec, x, y)
               PROVE  y \in Solutions(t.lp)
    OBVIOUS
  <2>1. [x EXCEPT ![c] = SolveEquation(rec, x)] \in Solutions(t.lp)
    OBVIOUS
  <2> HIDE DEF rec
  <2>2. y = [x EXCEPT ![c] = SolveEquation(rec, x)]
    BY <1>2 DEF Undone
  <2> QED BY <2>1, <2>2
<1> HIDE DEF rec, after, new
<1>5. Reaches(Stored(t, rec, after).log, S)
  BY <1>2, <1>4, Grows DEF Carrying
<1>6. AfterSubstituted(Stored(t, rec, after).log, r)
  <2> DEFINE log == Stored(t, rec, after).log
  <2>1. Len(t.log) \in Nat /\ Len(log) = Len(t.log) + 1 /\ log[Len(t.log) + 1].rec = rec
    BY StoredLog DEF Reversible
  <2> HIDE DEF log
  <2>2. Len(log) > 0 /\ log[Len(log)].rec = rec
    BY <2>1
  <2>3. AfterSubstituted(log, r)
    BY <1>2, <2>2 DEF AfterSubstituted
  <2> QED BY <2>3 DEF log
<1> QED BY <1>1, <1>3, <1>5, <1>6 DEF new

(* A solution of what is left by the substitution can be solved for the     *)
(* column.                                                                  *)
LEMMA SubstitutionSolves ==
  ASSUME NEW lp, WellFormed(lp), NEW r \in lp.rows, NEW c \in lp.cols, ColRows(lp, c) = {r}, Equation(lp, r),
         NEW new, new.cols = lp.cols \ {c}, new.a = lp.a, new.lb = lp.lb, new.ub = lp.ub,
         lp.rows \ {r} \subseteq new.rows,
         \A q \in Rows \ {r} : new.lhs[q] = lp.lhs[q] /\ new.rhs[q] = lp.rhs[q],
         \/ r \in new.rows /\ new.lhs[r] = Room(lp, c, r, TRUE) /\ new.rhs[r] = Room(lp, c, r, FALSE)
         \/ Room(lp, c, r, TRUE) = NoBound /\ Room(lp, c, r, FALSE) = NoBound,
         NEW x \in Solutions(new)
  PROVE  [x EXCEPT ![c] = SolveEquation(SubstitutedRecord(lp, c, r), x)] \in Solutions(lp)
<1> DEFINE without == [lp EXCEPT !.cols = @ \ {c}]
<1>1. x \in Points /\ (\A d \in new.cols : Within(new, x, d)) /\ (\A q \in new.rows : Fulfilled(new, x, q))
  BY SolutionParts
<1>2. \A d \in lp.cols \ {c} : Within(lp, x, d)
  BY <1>1 DEF Within
<1>3. /\ r \in Rows /\ c \in Cols /\ lp.rows \subseteq Rows
      /\ c \in RowCols(lp, r) /\ \A q \in lp.rows \ {r} : lp.a[q][c] = 0
  <2>1. r \in ColRows(lp, c) /\ \A q \in lp.rows \ {r} : q \notin ColRows(lp, c)
    OBVIOUS
  <2> QED BY <2>1, WellFormedFacts DEF ColRows, RowCols
<1>4. \A q : RowValue(new, x, q) = RowValue(without, x, q)
  <2>1. without.cols = new.cols /\ without.a = new.a
    BY WellFormedFacts
  <2> HIDE DEF without
  <2> QED BY <2>1, SameValue
<1>5. ASSUME NEW q \in lp.rows \ {r}
      PROVE  Fulfilled(lp, x, q)
  <2>1. RowValue(lp, x, q) = lp.a[q][c] * x[c] + RowValue(without, x, q)
    BY <1>1, <1>3, ValueWithout
  <2>2. RowValue(without, x, q) \in Int
    BY <1>1, <1>3, OneLeaves, ValueInt
  <2>3. lp.a[q][c] * x[c] = 0
    BY <1>1, <1>3 DEF Points
  <2> HIDE DEF without
  <2>4. RowValue(lp, x, q) = RowValue(new, x, q)
    BY <1>4, <2>1, <2>2, <2>3
  <2>5. Fulfilled(new, x, q)
    BY <1>1
  <2> QED BY <1>3, <2>4, <2>5 DEF Fulfilled
<1>6. RowValue(new, x, r) = Rest(lp, x, r, c)
  BY <1>1, <1>3, <1>4, WithoutIsRest
<1>7. \A ofLhs \in BOOLEAN : Room(lp, c, r, ofLhs) # NoBound => OnSide(ofLhs, Room(lp, c, r, ofLhs), Rest(lp, x, r, c))
  <2>1. CASE r \in new.rows /\ new.lhs[r] = Room(lp, c, r, TRUE) /\ new.rhs[r] = Room(lp, c, r, FALSE)
    <3>1. Fulfilled(new, x, r)
      BY <1>1, <2>1
    <3>2. Room(lp, c, r, TRUE) # NoBound => Room(lp, c, r, TRUE) <= Rest(lp, x, r, c)
      BY <1>6, <2>1, <3>1 DEF Fulfilled
    <3>3. Room(lp, c, r, FALSE) # NoBound => Rest(lp, x, r, c) <= Room(lp, c, r, FALSE)
      BY <1>6, <2>1, <3>1 DEF Fulfilled
    <3> QED BY <3>2, <3>3 DEF OnSide
  <2>2. CASE Room(lp, c, r, TRUE) = NoBound /\ Room(lp, c, r, FALSE) = NoBound
    BY <2>2
  <2> QED BY <2>1, <2>2
<1> QED BY <1>1, <1>2, <1>5, <1>7, SolvedPoint

(* A column singleton is substituted.                                       *)
LEMMA SubstituteSingletonCarries ==
  ASSUME NEW t, Reversible(t), Carrying(t), NEW r \in t.lp.rows, NEW c \in t.lp.cols,
         SingletonSubstitutable(t.lp, c, r)
  PROVE  Carrying(SubstituteSingleton(t, c, r))
<1> DEFINE lp == t.lp
           without == SubstituteInObjective(t, c, r)
           new == SubstituteSingleton(t, c, r)
           lhs == Room(lp, c, r, TRUE)
           rhs == Room(lp, c, r, FALSE)
<1>1. /\ WellFormed(lp) /\ r \in Rows /\ c \in RowCols(lp, r) /\ ColRows(lp, c) = {r} /\ Equation(lp, r)
      /\ lp.rhs[r] \in Int /\ lp.a[r][c] \in Int /\ lp.a[r][c] # 0 /\ lp.rows \subseteq Rows
  <2>1. WellFormed(lp) /\ ColRows(lp, c) = {r} /\ Equation(lp, r)
    BY DEF Reversible, SingletonSubstitutable
  <2>2. r \in ColRows(lp, c)
    BY <2>1
  <2>3. r \in Rows /\ c \in RowCols(lp, r) /\ lp.rows \subseteq Rows
    BY <2>1, <2>2, WellFormedFacts DEF ColRows, RowCols
  <2>4. lp.rhs[r] \in Int /\ lp.a[r][c] \in Int /\ lp.a[r][c] # 0
    BY <2>1, <2>3, ColumnOfRow DEF Equation, Limits
  <2> QED BY <2>1, <2>3, <2>4
<1>2. lhs \in Limits /\ rhs \in Limits
  BY <1>1, RoomType DEF Room
<1>3. Reversible(without)
  BY <1>1, SubstituteInObjectiveReversible
<1>4. \/ /\ new = MarkRowRedundant(without, r) /\ lhs = NoBound /\ rhs = NoBound
      \/ /\ new = ToInequality(without, r, lhs, rhs) /\ ~(lhs = NoBound /\ rhs = NoBound)
  <2> DEFINE low == RowImplies(lp, r, c, TRUE)
             up == RowImplies(lp, r, c, FALSE)
             positive == lp.a[r][c] > 0
  <2>1. /\ lhs = RoomOf(lp, c, r, TRUE, IF positive THEN up ELSE low)
        /\ rhs = RoomOf(lp, c, r, FALSE, IF positive THEN low ELSE up)
    <3>1. CASE positive
      <4>1. ((lp.a[r][c] < 0) <=> TRUE) = FALSE /\ ((lp.a[r][c] < 0) <=> FALSE) = TRUE
        BY <1>1, <3>1
      <4> QED BY <3>1, <4>1 DEF Room
    <3>2. CASE ~positive
      <4>1. ((lp.a[r][c] < 0) <=> TRUE) = TRUE /\ ((lp.a[r][c] < 0) <=> FALSE) = FALSE
        BY <1>1, <3>2
      <4> QED BY <3>2, <4>1 DEF Room
    <3> QED BY <3>1, <3>2
  <2>2. new = IF low /\ up THEN MarkRowRedundant(without, r)
              ELSE ToInequality(without, r, RoomOf(lp, c, r, TRUE, IF positive THEN up ELSE low),
                                            RoomOf(lp, c, r, FALSE, IF positive THEN low ELSE up))
    BY DEF SubstituteSingleton
  <2>3. \A ofLhs \in BOOLEAN, implied \in BOOLEAN :
          implied = RowImplies(lp, r, c, (lp.a[r][c] < 0) <=> ofLhs) =>
            (RoomOf(lp, c, r, ofLhs, implied) = NoBound <=> implied)
    <3> SUFFICES ASSUME NEW ofLhs \in BOOLEAN, ~RowImplies(lp, r, c, (lp.a[r][c] < 0) <=> ofLhs)
                 PROVE  RoomOf(lp, c, r, ofLhs, FALSE) # NoBound
      BY DEF RoomOf
    <3> DEFINE isLower == (lp.a[r][c] < 0) <=> ofLhs
               bound == IF isLower THEN lp.lb[c] ELSE lp.ub[c]
               a == lp.a[r][c]
    <3>1. bound # NoBound /\ bound \in Limits
      BY <1>1, ColumnOfRow DEF RowImplies
    <3>2. RoomOf(lp, c, r, ofLhs, FALSE) = lp.rhs[r] - bound * a
      BY DEF RoomOf
    <3>3. a \in {-1, 1}
      BY <1>1, UnitCoefficient, WellFormedFacts
    <3> HIDE DEF bound, a
    <3>4. bound \in Int
      BY <3>1 DEF Limits
    <3>5. lp.rhs[r] - bound * a \in Int
      <4>1. CASE a = 1
        BY <1>1, <3>4, <4>1
      <4>2. CASE a = -1
        BY <1>1, <3>4, <4>2
      <4> QED BY <3>3, <4>1, <4>2
    <3> QED BY <3>2, <3>5, ProgramAssumption
  <2>4. low \in BOOLEAN /\ up \in BOOLEAN
    BY DEF RowImplies
  <2>5. (lhs = NoBound <=> (IF positive THEN up ELSE low)) /\ (rhs = NoBound <=> (IF positive THEN low ELSE up))
    <3>1. CASE positive
      <4>1. ((lp.a[r][c] < 0) <=> TRUE) = FALSE /\ ((lp.a[r][c] < 0) <=> FALSE) = TRUE
        BY <1>1, <3>1
      <4> HIDE DEF lhs, rhs
      <4> QED BY <2>1, <2>3, <2>4, <3>1, <4>1
    <3>2. CASE ~positive
      <4>1. ((lp.a[r][c] < 0) <=> TRUE) = TRUE /\ ((lp.a[r][c] < 0) <=> FALSE) = FALSE
        BY <1>1, <3>2
      <4> HIDE DEF lhs, rhs
      <4> QED BY <2>1, <2>3, <2>4, <3>2, <4>1
    <3> QED BY <3>1, <3>2
  <2> HIDE DEF lhs, rhs, new, without, low, up, positive
  <2>6. CASE low /\ up
    BY <2>2, <2>5, <2>6
  <2>7. CASE ~(low /\ up)
    BY <2>1, <2>2, <2>5, <2>7
  <2> QED BY <2>6, <2>7
<1> HIDE DEF lhs, rhs, new
<1>5. /\ Reaches(without.log, {}) /\ AfterSubstituted(without.log, r)
      /\ without.lp.rows = lp.rows /\ without.lp.cols = lp.cols \ {c} /\ without.lp.a = lp.a
      /\ without.lp.lb = lp.lb /\ without.lp.ub = lp.ub
      /\ without.lp.lhs = lp.lhs /\ without.lp.rhs = lp.rhs
  <2>1. {} \subseteq Points /\ \A x \in {} : [x EXCEPT ![c] = SolveEquation(SubstitutedRecord(lp, c, r), x)] \in Solutions(lp)
    OBVIOUS
  <2>2. LET out == SubstituteInObjective(t, c, r)
        IN /\ Reaches(out.log, {}) /\ AfterSubstituted(out.log, r)
           /\ out.lp.rows = t.lp.rows /\ out.lp.cols = t.lp.cols \ {c} /\ out.lp.a = t.lp.a
           /\ out.lp.lb = t.lp.lb /\ out.lp.ub = t.lp.ub /\ out.lp.lhs = t.lp.lhs /\ out.lp.rhs = t.lp.rhs
    BY <1>1, <2>1, SubstituteInObjectiveLeads
  <2> QED BY <2>2
<1>6. ASSUME NEW S, S \subseteq Points,
             \A x \in S : [x EXCEPT ![c] = SolveEquation(SubstitutedRecord(lp, c, r), x)] \in Solutions(lp)
      PROVE  Reaches(without.log, S)
  BY <1>1, <1>6, SubstituteInObjectiveLeads
<1> HIDE DEF without
<1>7. CASE new = MarkRowRedundant(without, r) /\ lhs = NoBound /\ rhs = NoBound
  <2> DEFINE rec == RedundantRecord(r)
             after == [without.lp EXCEPT !.rows = @ \ {r}]
  <2>1. new = Stored(without, rec, after) /\ new.lp = after
    BY <1>7 DEF MarkRowRedundant, Stored
  <2>2. /\ after.rows = lp.rows \ {r} /\ after.cols = lp.cols \ {c} /\ after.a = lp.a
        /\ after.lb = lp.lb /\ after.ub = lp.ub /\ after.lhs = lp.lhs /\ after.rhs = lp.rhs
    <3>1. WellFormed(without.lp)
      BY <1>3 DEF Reversible
    <3> QED BY <1>5, <3>1, WellFormedFacts
  <2>3. rec.type = "redundantRow"
    BY DEF RedundantRecord
  <2> HIDE DEF rec, after
  <2>4. \A x \in Solutions(after) :
          [x EXCEPT ![c] = SolveEquation(SubstitutedRecord(lp, c, r), x)] \in Solutions(lp)
    <3>1. /\ lp.rows \ {r} \subseteq after.rows
          /\ \A q \in Rows \ {r} : after.lhs[q] = lp.lhs[q] /\ after.rhs[q] = lp.rhs[q]
      BY <2>2
    <3>2. Room(lp, c, r, TRUE) = NoBound /\ Room(lp, c, r, FALSE) = NoBound
      BY <1>7 DEF lhs, rhs
    <3> HIDE DEF lp
    <3> QED BY <1>1, <2>2, <3>1, <3>2, SubstitutionSolves DEF lp
  <2>5. Reaches(without.log, Solutions(after))
    <3>1. Solutions(after) \subseteq Points
      BY DEF Solutions
    <3> QED BY <1>6, <2>4, <3>1
  <2>6. BelongsToSubstitution(Stored(without, rec, after).log, Len(without.log) + 1)
    <3>1. IsLog(without.log)
      BY <1>3 DEF Reversible
    <3>2. rec.type \in {"coefficientChange", "redundantRow"}
      BY <2>3
    <3> QED BY <1>5, <3>1, <3>2, BelongsAfterSubstituted
  <2>7. Reaches(Stored(without, rec, after).log, Solutions(after))
    BY <1>3, <2>3, <2>5, <2>6, GroupGrows
  <2> QED BY <2>1, <2>7 DEF Carrying, new
<1>8. CASE new = ToInequality(without, r, lhs, rhs) /\ ~(lhs = NoBound /\ rhs = NoBound)
  <2>1. SidesAre(new.lp, without.lp, r, lhs, rhs)
    BY <1>1, <1>2, <1>3, <1>5, <1>8, ToInequalityInGroup
  <2>2. \A x \in Solutions(new.lp) :
          [x EXCEPT ![c] = SolveEquation(SubstitutedRecord(lp, c, r), x)] \in Solutions(lp)
    <3> DEFINE after == new.lp
    <3>1. /\ after.cols = lp.cols \ {c} /\ after.a = lp.a /\ after.lb = lp.lb /\ after.ub = lp.ub
          /\ after.rows = lp.rows /\ lp.rows \ {r} \subseteq after.rows
          /\ \A q \in Rows \ {r} : after.lhs[q] = lp.lhs[q] /\ after.rhs[q] = lp.rhs[q]
      BY <1>5, <2>1 DEF SidesAre
    <3>2. r \in after.rows /\ after.lhs[r] = Room(lp, c, r, TRUE) /\ after.rhs[r] = Room(lp, c, r, FALSE)
      BY <2>1, <3>1 DEF SidesAre, lhs, rhs
    <3> HIDE DEF after
    <3>3. \A x \in Solutions(after) :
            [x EXCEPT ![c] = SolveEquation(SubstitutedRecord(lp, c, r), x)] \in Solutions(lp)
      <4> HIDE DEF lp
      <4> QED BY <1>1, <3>1, <3>2, SubstitutionSolves DEF lp
    <3> QED BY <3>3 DEF after
  <2>3. Reaches(without.log, Solutions(new.lp))
    <3>1. Solutions(new.lp) \subseteq Points
      BY DEF Solutions
    <3> QED BY <1>6, <2>2, <3>1
  <2>4. Reaches(new.log, Solutions(new.lp))
    BY <1>1, <1>2, <1>3, <1>5, <1>8, <2>3, ToInequalityInGroup
  <2> QED BY <2>4 DEF Carrying, new
<1> QED BY <1>4, <1>7, <1>8

(* The price of a column that is held on both sides shows which side its    *)
(* row has.                                                                 *)
LEMMA OtherSideMissing ==
  ASSUME NEW lp, WellFormed(lp), NEW r \in lp.rows, NEW c \in lp.cols, ColRows(lp, c) = {r},
         lp.lhs[r] = NoBound \/ lp.rhs[r] = NoBound, \A below \in BOOLEAN : ~Unlocked(lp, c, below)
  PROVE  /\ DualBoundGoesUp(lp, c, r) => lp.rhs[r] = NoBound
         /\ DualBoundGoesDown(lp, c, r) => lp.lhs[r] = NoBound
<1> DEFINE a == lp.a[r][c]
           obj == lp.obj[c]
           price == Exact(obj, a)
<1>1. r \in Rows /\ c \in Cols /\ r \in ColRows(lp, c) /\ obj \in Int
  BY WellFormedFacts
<1>2. a \in {-1, 1}
  <2>1. c \in RowCols(lp, r)
    BY <1>1 DEF RowCols, ColRows
  <2> QED BY <1>1, <2>1, UnitCoefficient
<1>3. price = a * obj
  <2> HIDE DEF a, obj
  <2> QED BY <1>1, <1>2, ExactUnit
<1>4. /\ obj >= 0 => LockedFrom(lp, r, c, TRUE)
      /\ obj <= 0 => LockedFrom(lp, r, c, FALSE)
  BY DEF Unlocked
<1>5. /\ a > 0 /\ obj >= 0 => lp.lhs[r] # NoBound
      /\ ~(a > 0) /\ obj >= 0 => lp.rhs[r] # NoBound
      /\ a > 0 /\ obj <= 0 => lp.rhs[r] # NoBound
      /\ ~(a > 0) /\ obj <= 0 => lp.lhs[r] # NoBound
  BY <1>4 DEF LockedFrom
<1>6. (DualBoundGoesUp(lp, c, r) => price > 0) /\ (DualBoundGoesDown(lp, c, r) => price < 0)
  BY DEF DualBoundGoesUp, DualBoundGoesDown
<1> HIDE DEF a, obj, price
<1>7. CASE a = 1
  BY <1>1, <1>3, <1>5, <1>6, <1>7
<1>8. CASE a = -1
  BY <1>1, <1>3, <1>5, <1>6, <1>8
<1> QED BY <1>2, <1>7, <1>8

(* An inequality is made an equation on the side it did not have, and its   *)
(* column singleton substituted if it can be now.                           *)
LEMMA ToEquationCarries ==
  ASSUME NEW t, Reversible(t), Carrying(t), NEW r \in t.lp.rows, NEW c \in t.lp.cols, ColRows(t.lp, c) = {r},
         t.lp.lhs[r] = NoBound \/ t.lp.rhs[r] = NoBound, \A below \in BOOLEAN : ~Unlocked(t.lp, c, below),
         DualBoundGoesUp(t.lp, c, r) \/ DualBoundGoesDown(t.lp, c, r)
  PROVE  Carrying(ToEquation(t, c, r))
<1> DEFINE up == DualBoundGoesUp(t.lp, c, r)
           side == IF up THEN t.lp.lhs[r] ELSE t.lp.rhs[r]
           equation == ChangeSide(t, ~up, r, side)
<1>1. \/ ToEquation(t, c, r) = equation
      \/ SingletonSubstitutable(equation.lp, c, r) /\ ToEquation(t, c, r) = SubstituteSingleton(equation, c, r)
  BY DEF ToEquation
<1>2. WellFormed(t.lp) /\ r \in Rows /\ side \in Limits
  BY WellFormedFacts DEF Reversible
<1>3. (IF ~up THEN t.lp.lhs[r] ELSE t.lp.rhs[r]) = NoBound
  BY <1>2, OtherSideMissing
<1>4. \A x : SideHolds(t.lp, x, r, ~up)
  BY <1>3 DEF SideHolds
<1>5. (~up) \in BOOLEAN
  OBVIOUS
<1> HIDE DEF up, side
<1>6. Carrying(equation)
  BY <1>2, <1>4, <1>5, ChangeSideCarries
<1>7. Reversible(equation)
  BY <1>2, ChangeSideReversible
<1>8. r \in equation.lp.rows /\ c \in equation.lp.cols
  <2> DEFINE low == ~up
  <2>1. low \in BOOLEAN
    OBVIOUS
  <2> HIDE DEF low
  <2>2. ChangeSide(t, low, r, side).lp.rows = t.lp.rows /\ ChangeSide(t, low, r, side).lp.cols = t.lp.cols
    BY <1>2, <2>1, ChangeSideProgram
  <2> QED BY <2>2 DEF low
<1> HIDE DEF equation
<1> QED BY <1>1, <1>6, <1>7, <1>8, SubstituteSingletonCarries

-----------------------------------------------------------------------------
(* A column fixed to infinity                                               *)

(* The same program but for its rows                                        *)
RowsGone(p, lp, gone) ==
  /\ p.rows = lp.rows \ gone
  /\ p.cols = lp.cols /\ p.a = lp.a /\ p.lb = lp.lb /\ p.ub = lp.ub /\ p.lhs = lp.lhs /\ p.rhs = lp.rhs

(* The log with a record for each row that went                             *)
RowsMarked(log, old, lp, m) ==
  /\ IsLog(log) /\ Len(log) = Len(old) + m
  /\ \A i \in 1..Len(old) : log[i] = old[i]
  /\ \A i \in (Len(old) + 1)..(Len(old) + m) : log[i].rec.type = "redundantRow"
  /\ m > 0 => log[Len(old) + 1].before = lp

(* One more row goes.                                                       *)
LEMMA OneRowMarked ==
  ASSUME NEW lp, NEW old, IsLog(old), NEW m \in Nat, NEW x, WellFormed(x.lp), RowsMarked(x.log, old, lp, m),
         NEW gone, RowsGone(x.lp, lp, gone), m = 0 => x.lp = lp, NEW r
  PROVE  /\ RowsMarked(MarkRowRedundant(x, r).log, old, lp, m + 1)
         /\ RowsGone(MarkRowRedundant(x, r).lp, lp, gone \cup {r})
<1> DEFINE rec == RedundantRecord(r)
           after == [x.lp EXCEPT !.rows = @ \ {r}]
           new == MarkRowRedundant(x, r)
           k == Len(old)
<1>1. new = Stored(x, rec, after) /\ new.lp = after
  BY DEF MarkRowRedundant, Stored
<1>2. rec.type = "redundantRow"
  BY DEF RedundantRecord
<1>3. /\ after.rows = x.lp.rows \ {r} /\ after.cols = x.lp.cols /\ after.a = x.lp.a /\ after.lb = x.lp.lb
      /\ after.ub = x.lp.ub /\ after.lhs = x.lp.lhs /\ after.rhs = x.lp.rhs
  BY WellFormedFacts
<1> HIDE DEF rec, after
<1>4. RowsGone(after, lp, gone \cup {r})
  BY <1>3 DEF RowsGone
<1>5. k \in Nat
  BY LogDomain
<1>6. /\ IsLog(x.log) /\ Len(x.log) = k + m
      /\ (\A i \in 1..k : x.log[i] = old[i])
      /\ (\A i \in (k + 1)..(k + m) : x.log[i].rec.type = "redundantRow")
      /\ (m > 0 => x.log[k + 1].before = lp)
  BY DEF RowsMarked
<1> DEFINE log == Stored(x, rec, after).log
<1>7. /\ IsLog(log) /\ Len(log) = k + m + 1 /\ (\A i \in 1..(k + m) : log[i] = x.log[i])
      /\ log[k + m + 1].rec = rec /\ log[k + m + 1].before = x.lp
  <2>1. /\ IsLog(log) /\ Len(log) = Len(x.log) + 1 /\ (\A i \in 1..Len(x.log) : log[i] = x.log[i])
        /\ log[Len(x.log) + 1].rec = rec /\ log[Len(x.log) + 1].before = x.lp
    BY <1>6, StoredLog
  <2> HIDE DEF log
  <2> QED BY <1>6, <2>1
<1> HIDE DEF log, k
<1>8. \A i \in 1..k : log[i] = old[i]
  BY <1>5, <1>6, <1>7
<1>9. ASSUME NEW i \in (k + 1)..(k + (m + 1))
      PROVE  log[i].rec.type = "redundantRow"
  <2>1. CASE i = k + m + 1
    BY <1>2, <1>7, <2>1
  <2>2. CASE i # k + m + 1
    <3>1. i \in (k + 1)..(k + m) /\ i \in 1..(k + m)
      BY <1>5, <2>2
    <3> QED BY <1>6, <1>7, <3>1
  <2> QED BY <2>1, <2>2
<1>10. log[k + 1].before = lp
  <2>1. CASE m = 0
    BY <1>5, <1>7, <2>1
  <2>2. CASE m # 0
    <3>1. k + 1 \in 1..(k + m) /\ m > 0
      BY <1>5, <2>2
    <3> QED BY <1>6, <1>7, <3>1
  <2> QED BY <2>1, <2>2
<1>11. RowsMarked(log, old, lp, m + 1)
  BY <1>5, <1>7, <1>8, <1>9, <1>10 DEF RowsMarked, k
<1> QED BY <1>1, <1>4, <1>11 DEF log

(* All of them                                                              *)
LEMMA AllRowsMarked ==
  ASSUME NEW t, Reversible(t), NEW rows, NEW n \in Nat, DOMAIN rows = 1..n
  PROVE  /\ RowsMarked(MarkRowsRedundant(t, rows).log, t.log, t.lp, n)
         /\ RowsGone(MarkRowsRedundant(t, rows).lp, t.lp, {rows[i] : i \in 1..n})
<1> DEFINE D == 1..n
           kind == "rows"
           At0(T) == After(kind, 0, t, rows, T)
           Gone(T) == {rows[i] : i \in T}
           Fine(x, m, gone) == /\ WellFormed(x.lp) /\ RowsMarked(x.log, t.log, t.lp, m) /\ RowsGone(x.lp, t.lp, gone)
                               /\ m = 0 => x.lp = t.lp
           Good == {T \in SUBSET D : Fine(At0(T), Cardinality(T), Gone(T))}
<1>1. IsFiniteSet(D) /\ D \subseteq Int /\ Cardinality(D) = n
  BY FS_Interval
<1>2. Len(t.log) \in Nat /\ IsLog(t.log) /\ WellFormed(t.lp)
  BY DEF Reversible, IsLog
<1> HIDE DEF D, kind
<1>3. ASSUME NEW T \in SUBSET D, \A U \in SUBSET T : U # T => U \in Good
      PROVE  T \in Good
  <2>1. IsFiniteSet(T) /\ T \subseteq Int
    BY <1>1, FS_Subset
  <2>2. CASE T = {}
    <3>1. Cardinality(T) = 0 /\ At0(T) = t /\ Gone(T) = {}
      BY <2>2, LoopStart, FS_EmptySet
    <3>2. RowsMarked(t.log, t.log, t.lp, 0)
      BY <1>2 DEF RowsMarked
    <3>3. RowsGone(t.lp, t.lp, {})
      BY DEF RowsGone
    <3>4. Fine(t, 0, {})
      BY <1>2, <3>2, <3>3
    <3> HIDE DEF Fine, At0, Gone
    <3> QED BY <3>1, <3>4
  <2>3. CASE T # {}
    <3> DEFINE m == Max(T)
               V == T \ {m}
               x == At0(V)
               c == Cardinality(V)
    <3>1. m \in T /\ At0(T) = MarkRowRedundant(x, rows[m])
      <4>1. m \in T /\ At0(T) = Turn(kind, 0, x, rows[m])
        <5>1. Positions(T)
          BY <2>1 DEF Positions
        <5>2. m \in T /\ IsLast(m, T) /\ AreOthers(V, T, m)
          BY <2>3, <5>1, LastPosition
        <5> HIDE DEF m, V
        <5> QED BY <5>1, <5>2, LoopTurn
      <4> HIDE DEF m, x, At0
      <4> QED BY <4>1 DEF Turn, kind
    <3>2. V \in Good
      BY <1>3, <3>1
    <3>3. c \in Nat /\ Cardinality(T) = c + 1
      <4>1. IsFiniteSet(V) /\ c = Cardinality(T) - 1 /\ Cardinality(T) \in Nat
        BY <2>1, <3>1, FS_RemoveElement, FS_CardinalityType
      <4>2. c \in Nat
        BY <4>1, FS_CardinalityType
      <4> QED BY <4>1, <4>2
    <3>4. Fine(x, c, Gone(V))
      BY <3>2
    <3>5. Gone(T) = Gone(V) \cup {rows[m]}
      BY <3>1
    <3> DEFINE before == Gone(V)
               r == rows[m]
    <3> HIDE DEF x, c, m, V, Gone, before, r
    <3> DEFINE y == MarkRowRedundant(x, r)
    <3>6. RowsMarked(y.log, t.log, t.lp, c + 1) /\ RowsGone(y.lp, t.lp, Gone(T))
      <4>1. WellFormed(x.lp) /\ RowsMarked(x.log, t.log, t.lp, c) /\ RowsGone(x.lp, t.lp, before) /\ (c = 0 => x.lp = t.lp)
        BY <3>4 DEF before
      <4>2. Gone(T) = before \cup {r}
        BY <3>5 DEF before, r
      <4>3. RowsMarked(y.log, t.log, t.lp, c + 1) /\ RowsGone(y.lp, t.lp, before \cup {r})
        BY <1>2, <3>3, <4>1, OneRowMarked
      <4> QED BY <4>2, <4>3
    <3>7. WellFormed(y.lp)
      <4>1. y.lp = [x.lp EXCEPT !.rows = @ \ {r}]
        BY DEF MarkRowRedundant, Stored
      <4>2. WellFormed(x.lp)
        BY <3>4
      <4> DEFINE after == [x.lp EXCEPT !.rows = @ \ {r}]
      <4>3. WellFormed(after)
        BY <4>2, OneLeaves
      <4>4. y.lp = after
        BY <4>1
      <4> HIDE DEF y, after
      <4> QED BY <4>3, <4>4
    <3>8. At0(T) = y
      BY <3>1 DEF r
    <3> HIDE DEF y
    <3>9. Fine(y, c + 1, Gone(T))
      BY <3>3, <3>6, <3>7
    <3> HIDE DEF Fine, At0
    <3> QED BY <3>3, <3>8, <3>9
  <2> QED BY <2>2, <2>3
<1>4. D \in Good
  <2> HIDE DEF Good
  <2> QED BY <1>1, <1>3, SubsetInduction
<1>5. MarkRowsRedundant(t, rows) = At0(D)
  BY LoopOverRows DEF D, kind
<1>6. Fine(MarkRowsRedundant(t, rows), n, Gone(D))
  BY <1>1, <1>4, <1>5
<1> QED BY <1>6 DEF D

(* Each element of a finite set has its place in the ascending order.       *)
LEMMA AscendingCovers ==
  ASSUME NEW S, IsFiniteSet(S), S \subseteq Int, NEW f, IsAscending(f, S)
  PROVE  \A x \in S : \E i \in 1..Cardinality(S) : f[i] = x
<1> DEFINE n == Cardinality(S)
<1>1. n \in Nat
  BY FS_CardinalityType
<1>2. f \in [1..n -> S] /\ \A i, j \in 1..n : i < j => f[i] < f[j]
  BY DEF IsAscending
<1> HIDE DEF n
<1>3. \A i, j \in 1..n : f[i] = f[j] => i = j
  <2> SUFFICES ASSUME NEW i \in 1..n, NEW j \in 1..n, f[i] = f[j], i # j
               PROVE  FALSE
    OBVIOUS
  <2>1. f[i] \in Int /\ f[j] \in Int
    BY <1>2
  <2>2. i < j \/ j < i
    OBVIOUS
  <2> QED BY <1>2, <2>1, <2>2
<1>4. f \in Injection(1..n, S)
  BY <1>2, <1>3 DEF Injection, IsInjective
<1>5. Cardinality(1..n) = n
  BY <1>1, FS_Interval
<1>6. f \in Surjection(1..n, S)
  BY <1>4, <1>5, FS_Injection DEF n
<1> QED BY <1>6 DEF Surjection, n

(* Beyond the value that just fulfils a row every value fulfils it, as the  *)
(* row holds the column on one side only.                                   *)
LEMMA FarFulfils ==
  ASSUME NEW a \in {-1, 1}, NEW up \in BOOLEAN, NEW lhs \in Limits, NEW rhs \in Limits, NEW rest \in Int, NEW w \in Int,
         (IF (a > 0) <=> ~up THEN lhs ELSE rhs) = NoBound,
         LET v == a * (Number(IF (a > 0) <=> up THEN lhs ELSE rhs) - rest) IN IF up THEN v <= w ELSE w <= v
  PROVE  BetweenLimits(lhs, rhs, a * w + rest)
<1>1. \A side \in Limits : side # NoBound => Number(side) = side /\ side \in Int
  BY DEF Number, Limits
<1>2. CASE a = 1 /\ up
  <2>1. rhs = NoBound /\ 1 * (Number(lhs) - rest) <= w
    BY <1>2
  <2>2. CASE lhs = NoBound
    BY <2>1, <2>2 DEF BetweenLimits
  <2>3. CASE lhs # NoBound
    <3>1. lhs \in Int /\ 1 * (lhs - rest) <= w
      BY <1>1, <2>1, <2>3
    <3>2. lhs <= 1 * w + rest
      BY <3>1
    <3> QED BY <1>2, <2>1, <3>2 DEF BetweenLimits
  <2> QED BY <2>2, <2>3
<1>3. CASE a = 1 /\ ~up
  <2>1. lhs = NoBound /\ w <= 1 * (Number(rhs) - rest)
    BY <1>3
  <2>2. CASE rhs = NoBound
    BY <2>1, <2>2 DEF BetweenLimits
  <2>3. CASE rhs # NoBound
    <3>1. rhs \in Int /\ w <= 1 * (rhs - rest)
      BY <1>1, <2>1, <2>3
    <3>2. 1 * w + rest <= rhs
      BY <3>1
    <3> QED BY <1>3, <2>1, <3>2 DEF BetweenLimits
  <2> QED BY <2>2, <2>3
<1>4. CASE a = -1 /\ up
  <2>1. lhs = NoBound /\ (-1) * (Number(rhs) - rest) <= w
    BY <1>4
  <2>2. CASE rhs = NoBound
    BY <2>1, <2>2 DEF BetweenLimits
  <2>3. CASE rhs # NoBound
    <3>1. rhs \in Int /\ (-1) * (rhs - rest) <= w
      BY <1>1, <2>1, <2>3
    <3>2. (-1) * w + rest <= rhs
      BY <3>1
    <3> QED BY <1>4, <2>1, <3>2 DEF BetweenLimits
  <2> QED BY <2>2, <2>3
<1>5. CASE a = -1 /\ ~up
  <2>1. rhs = NoBound /\ w <= (-1) * (Number(lhs) - rest)
    BY <1>5
  <2>2. CASE lhs = NoBound
    BY <2>1, <2>2 DEF BetweenLimits
  <2>3. CASE lhs # NoBound
    <3>1. lhs \in Int /\ w <= (-1) * (lhs - rest)
      BY <1>1, <2>1, <2>3
    <3>2. lhs <= (-1) * w + rest
      BY <3>1
    <3> QED BY <1>5, <2>1, <3>2 DEF BetweenLimits
  <2> QED BY <2>2, <2>3
<1> QED BY <1>2, <1>3, <1>4, <1>5

(* The value that just fulfils a row                                        *)
LEMMA ValueForRowIs ==
  ASSUME NEW lp, WellFormed(lp), NEW x \in Points, NEW r \in Rows, NEW c \in RowCols(lp, r), NEW rec, rec.col = c
  PROVE  LET side == IF (lp.a[r][c] > 0) <=> rec.up THEN lp.lhs[r] ELSE lp.rhs[r]
         IN /\ ValueForRow(rec, RowPart(lp, r), x) = lp.a[r][c] * (Number(side) - Rest(lp, x, r, c))
            /\ ValueForRow(rec, RowPart(lp, r), x) \in Int
<1> DEFINE a == lp.a[r][c]
           side == IF (a > 0) <=> rec.up THEN lp.lhs[r] ELSE lp.rhs[r]
           rest == Rest(lp, x, r, c)
           row == RowPart(lp, r)
           v == ValueForRow(rec, row, x)
<1>1. a \in {-1, 1} /\ rest \in Int /\ Number(side) \in Int
  <2>1. c \in Cols /\ lp.lhs[r] \in Limits /\ lp.rhs[r] \in Limits
    BY ColumnOfRow
  <2>2. Number(side) \in Int
    BY <2>1 DEF Number, Limits
  <2> QED BY <2>1, <2>2, UnitCoefficient, ColumnAndRest
<1>2. row.coefs[c] = a /\ row.lhs = lp.lhs[r] /\ row.rhs = lp.rhs[r]
  BY DEF RowPart
<1>3. Scalar(row.coefs, [x EXCEPT ![c] = 0]) = rest
  BY ScalarWithout
<1> HIDE DEF row
<1>4. v = Exact(Number(side) - rest, a)
  BY <1>2, <1>3 DEF ValueForRow
<1> HIDE DEF a, rest, side, v
<1>5. Number(side) - rest \in Int
  BY <1>1
<1>6. v = a * (Number(side) - rest) /\ v \in Int
  BY <1>1, <1>4, <1>5, ExactUnit
<1> QED BY <1>6 DEF a, rest, side, v, row

(* A column that comes back far enough fulfils all rows that come with it.  *)
LEMMA FarPoint ==
  ASSUME NEW lp, WellFormed(lp), NEW c \in lp.cols, NEW below \in BOOLEAN, Unlocked(lp, c, below),
         BoundOf(lp, c, below) = NoBound, NEW rows, IsAscending(rows, ColRows(lp, c)),
         NEW after, RowsGone(after, [lp EXCEPT !.cols = @ \ {c}], ColRows(lp, c)),
         NEW x \in Solutions(after), NEW y, FarEnough(FixedInfRecord(lp, c, ~below, rows), x, y)
  PROVE  y \in Solutions(lp)
<1> DEFINE rec == FixedInfRecord(lp, c, ~below, rows)
<1>1. /\ rec.col = c /\ rec.up = ~below /\ rec.bound = BoundOf(lp, c, ~below)
      /\ rec.rows = [i \in DOMAIN rows |-> RowPart(lp, rows[i])]
  BY DEF FixedInfRecord, BoundOf
<1> HIDE DEF rec
<1>2. /\ y \in Points /\ (\A d \in Cols \ {c} : y[d] = x[d])
      /\ (IF ~below THEN Number(rec.bound) <= y[c] ELSE y[c] <= Number(rec.bound))
      /\ \A i \in DOMAIN rec.rows : LET v == ValueForRow(rec, rec.rows[i], x)
                                    IN IF ~below THEN v <= y[c] ELSE y[c] <= v
  BY <1>1 DEF FarEnough, rec
<1>3. /\ after.rows = lp.rows \ ColRows(lp, c) /\ after.cols = lp.cols \ {c} /\ after.a = lp.a
      /\ after.lb = lp.lb /\ after.ub = lp.ub /\ after.lhs = lp.lhs /\ after.rhs = lp.rhs
  BY WellFormedFacts DEF RowsGone
<1>4. x \in Points /\ (\A d \in after.cols : Within(after, x, d)) /\ (\A q \in after.rows : Fulfilled(after, x, q))
  BY SolutionParts
<1>5. c \in Cols /\ lp.cols \subseteq Cols /\ lp.rows \subseteq Rows /\ ColRows(lp, c) \subseteq Rows
  BY WellFormedFacts DEF ColRows
<1>6. Within(lp, y, c)
  BY <1>1, <1>2 DEF BoundOf, Within, Number
<1>7. \A d \in lp.cols \ {c} : Within(lp, y, d)
  BY <1>2, <1>3, <1>4, <1>5 DEF Within
<1>8. ASSUME NEW q \in lp.rows \ ColRows(lp, c)
      PROVE  Fulfilled(lp, y, q)
  <2>1. q \in Rows /\ lp.a[q][c] = 0
    BY <1>5 DEF ColRows
  <2>2. \A d \in lp.cols : lp.a[q][d] * y[d] = lp.a[q][d] * x[d]
    <3> SUFFICES ASSUME NEW d \in lp.cols
                 PROVE  lp.a[q][d] * y[d] = lp.a[q][d] * x[d]
      OBVIOUS
    <3>1. CASE d = c
      <4>1. x[c] \in Int /\ y[c] \in Int
        BY <1>2, <1>4, <1>5 DEF Points
      <4> QED BY <2>1, <3>1, <4>1
    <3>2. CASE d # c
      BY <1>2, <1>5, <3>2
    <3> QED BY <3>1, <3>2
  <2>3. RowValue(lp, y, q) = RowValue(lp, x, q)
    BY <2>1, <2>2, SameElsewhere
  <2>4. RowValue(lp, x, q) = RowValue(after, x, q)
    <3> DEFINE without == [lp EXCEPT !.cols = @ \ {c}]
    <3>1. RowValue(lp, x, q) = lp.a[q][c] * x[c] + RowValue(without, x, q)
      BY <1>4, <2>1, ValueWithout
    <3>2. RowValue(without, x, q) \in Int
      BY <1>4, <2>1, OneLeaves, ValueInt
    <3>3. lp.a[q][c] * x[c] = 0
      BY <1>4, <1>5, <2>1 DEF Points
    <3>4. without.cols = after.cols /\ without.a = after.a
      BY <1>3, WellFormedFacts
    <3> HIDE DEF without
    <3>5. RowValue(without, x, q) = RowValue(after, x, q)
      BY <3>4, SameValue
    <3> QED BY <3>1, <3>2, <3>3, <3>5
  <2>5. Fulfilled(after, x, q)
    BY <1>3, <1>4
  <2> QED BY <1>3, <2>3, <2>4, <2>5 DEF Fulfilled
<1>9. ASSUME NEW r \in ColRows(lp, c)
      PROVE  Fulfilled(lp, y, r)
  <2> DEFINE a == lp.a[r][c]
             rest == Rest(lp, x, r, c)
             v == ValueForRow(rec, RowPart(lp, r), x)
             w == y[c]
             up == ~below
  <2>1. r \in Rows /\ c \in RowCols(lp, r)
    BY <1>5 DEF ColRows, RowCols
  <2>2. v = a * (Number(IF (a > 0) <=> up THEN lp.lhs[r] ELSE lp.rhs[r]) - rest)
    <3>1. v = a * (Number(IF (a > 0) <=> rec.up THEN lp.lhs[r] ELSE lp.rhs[r]) - rest)
      BY <1>1, <1>4, <2>1, ValueForRowIs
    <3>2. rec.up = up
      BY <1>1
    <3> HIDE DEF v, a, rest, up
    <3> QED BY <3>1, <3>2
  <2>3. IF up THEN v <= w ELSE w <= v
    <3>1. PICK i \in 1..Cardinality(ColRows(lp, c)) : rows[i] = r
      <4>1. IsFiniteSet(ColRows(lp, c)) /\ ColRows(lp, c) \subseteq Int
        BY <1>5, FiniteProgram
      <4> QED BY <4>1, AscendingCovers
    <3>2. i \in DOMAIN rec.rows /\ rec.rows[i] = RowPart(lp, r)
      BY <1>1, <3>1 DEF IsAscending
    <3> QED BY <1>2, <3>2
  <2>4. a \in {-1, 1} /\ rest \in Int /\ w \in Int /\ lp.lhs[r] \in Limits /\ lp.rhs[r] \in Limits
    BY <1>2, <1>4, <1>5, <2>1, ColumnOfRow, UnitCoefficient, ColumnAndRest DEF Points
  <2>5. (IF (a > 0) <=> ~up THEN lp.lhs[r] ELSE lp.rhs[r]) = NoBound
    BY DEF Unlocked, LockedFrom
  <2>6. RowValue(lp, y, r) = a * w + rest
    <3>1. RowValue(lp, y, r) = lp.a[r][c] * y[c] + Rest(lp, y, r, c)
      BY <1>2, <2>1, ColumnAndRest
    <3>2. Rest(lp, y, r, c) = rest
      <4>1. \A d \in RowCols(lp, r) \ {c} : y[d] = x[d]
        BY <1>2, <1>5 DEF RowCols
      <4>2. [d \in RowCols(lp, r) \ {c} |-> lp.a[r][d] * y[d]] = [d \in RowCols(lp, r) \ {c} |-> lp.a[r][d] * x[d]]
        BY <4>1
      <4> QED BY <4>2 DEF Rest
    <3> QED BY <3>1, <3>2
  <2>7. up \in BOOLEAN
    OBVIOUS
  <2> HIDE DEF a, rest, v, w, up
  <2>8. BetweenLimits(lp.lhs[r], lp.rhs[r], a * w + rest)
    BY <2>2, <2>3, <2>4, <2>5, <2>7, FarFulfils
  <2> QED BY <2>6, <2>8 DEF BetweenLimits, Fulfilled
<1>10. \A q \in lp.rows : Fulfilled(lp, y, q)
  BY <1>8, <1>9
<1> QED BY <1>2, <1>6, <1>7, <1>10, SolutionParts

(* Dual fixing to infinity: its records stand for one step back.            *)
LEMMA InfinityCarries ==
  ASSUME NEW t, Reversible(t), Carrying(t), NEW c \in t.lp.cols, NEW below \in BOOLEAN,
         Unlocked(t.lp, c, below), BoundOf(t.lp, c, below) = NoBound
  PROVE  Carrying(DualFixInfinity(t, c, below))
<1> DEFINE S == ColRows(t.lp, c)
           rows == Ascending(S)
           n == Cardinality(S)
           gone == MarkRowsRedundant(t, rows)
           rec == FixedInfRecord(t.lp, c, ~below, rows)
           after == [gone.lp EXCEPT !.cols = @ \ {c}]
           log == t.log
           k == Len(log)
           new == Stored(gone, rec, after).log
           last == k + n + 1
<1>1. DualFixInfinity(t, c, below) = Stored(gone, rec, after)
  BY DEF DualFixInfinity
<1>2. WellFormed(t.lp) /\ IsLog(log) /\ (\A i \in 1..k : RowsBefore(log, i)) /\ k \in Nat
  BY LogDomain DEF Reversible
<1>3. IsAscending(rows, S) /\ n \in Nat /\ IsFiniteSet(S) /\ S \subseteq Int
  <2>1. S \in SUBSET Rows
    BY <1>2, WellFormedFacts DEF ColRows
  <2>2. IsFiniteSet(S) /\ S \subseteq Int
    BY <2>1, FiniteProgram
  <2> HIDE DEF S
  <2> QED BY <2>2, AscendingOrder, FS_CardinalityType
<1>4. DOMAIN rows = 1..n /\ {rows[i] : i \in 1..n} = S
  <2>1. rows \in [1..n -> S]
    BY <1>3 DEF IsAscending
  <2>2. \A x \in S : \E i \in 1..n : rows[i] = x
    <3> HIDE DEF S, rows
    <3> QED BY <1>3, AscendingCovers
  <2> HIDE DEF S, rows, n
  <2> QED BY <2>1, <2>2
<1>5. rec.type = "fixedInf" /\ Len(rec.rows) = n /\ MadeAtInfinity(rec)
  <2>1. rec.rows = [i \in DOMAIN rows |-> RowPart(t.lp, rows[i])] /\ rec.type = "fixedInf"
    BY DEF FixedInfRecord
  <2>2. Len(rec.rows) = n
    <3> HIDE DEF rows, n, rec
    <3> QED BY <1>3, <1>4, <2>1
  <2>3. (~below) \in BOOLEAN
    OBVIOUS
  <2>4. MadeAtInfinity(rec)
    <3> HIDE DEF rows
    <3> QED BY <1>2, <1>3, <2>3 DEF MadeAtInfinity
  <2> QED BY <2>1, <2>2, <2>4
<1>6. RowsMarked(gone.log, log, t.lp, n) /\ RowsGone(gone.lp, t.lp, S) /\ WellFormed(gone.lp)
  <2> HIDE DEF rows, n, S
  <2>1. Reversible(gone)
    BY <1>3, <1>4, MarkRowsReversible
  <2>2. RowsMarked(gone.log, log, t.lp, n) /\ RowsGone(gone.lp, t.lp, S)
    BY <1>3, <1>4, AllRowsMarked
  <2> QED BY <2>1, <2>2 DEF Reversible
<1>7. n = 0 => gone.lp = t.lp
  <2>1. ASSUME n = 0
        PROVE  gone = t
    <3>1. DOMAIN rows = {}
      BY <1>4, <2>1
    <3>2. gone = After("rows", 0, t, rows, DOMAIN rows)
      BY LoopOverRows
    <3> HIDE DEF rows, gone
    <3> QED BY <3>1, <3>2, LoopStart
  <2> QED BY <2>1
<1>8. RowsGone(after, [t.lp EXCEPT !.cols = @ \ {c}], S)
  <2> HIDE DEF gone, S
  <2> QED BY <1>2, <1>6, WellFormedFacts DEF RowsGone
<1> HIDE DEF rows, n, gone, rec, after, S
<1>9. /\ IsLog(gone.log) /\ Len(gone.log) = k + n /\ (\A i \in 1..k : gone.log[i] = log[i])
      /\ (\A i \in (k + 1)..(k + n) : gone.log[i].rec.type = "redundantRow")
      /\ (n > 0 => gone.log[k + 1].before = t.lp)
  BY <1>6 DEF RowsMarked
<1>10. /\ IsLog(new) /\ Len(new) = last /\ (\A i \in 1..(k + n) : new[i] = gone.log[i])
       /\ new[last].rec = rec /\ new[last].before = gone.lp
  <2>1. /\ IsLog(new) /\ Len(new) = Len(gone.log) + 1 /\ (\A i \in 1..Len(gone.log) : new[i] = gone.log[i])
        /\ new[Len(gone.log) + 1].rec = rec /\ new[Len(gone.log) + 1].before = gone.lp
    BY <1>9, StoredLog
  <2> HIDE DEF new, k
  <2> QED BY <1>9, <2>1
<1> HIDE DEF new, k, log
<1>11. (\A i \in 1..k : new[i] = log[i]) /\ (\A i \in (k + 1)..(k + n) : new[i].rec.type = "redundantRow")
  <2>1. \A i \in 1..k : i \in 1..(k + n)
    BY <1>2, <1>3
  <2>2. \A i \in (k + 1)..(k + n) : i \in 1..(k + n)
    BY <1>2, <1>3
  <2> QED BY <1>9, <1>10, <2>1, <2>2
<1>12. new[k + 1].before = t.lp
  <2>1. CASE n = 0
    <3>1. k + 1 = last
      BY <1>2, <2>1
    <3> QED BY <1>7, <1>10, <2>1, <3>1
  <2>2. CASE n # 0
    <3>1. n > 0 /\ k + 1 \in 1..(k + n)
      BY <1>2, <1>3, <2>2
    <3> QED BY <1>9, <1>10, <3>1
  <2> QED BY <2>1, <2>2
<1>13. Extends(new, log) /\ k < Len(new)
  BY <1>2, <1>3, <1>10, <1>11 DEF Extends, k
<1>14. Reaches(log, Solutions(t.lp)) /\ (\A i \in 1..(k - 1) : Carries(log, i)) /\ \A i \in 1..k : AtInfinity(log, i)
  BY DEF Carrying, Reaches, log, k
<1>15. ASSUME NEW i \in 1..(Len(new) - 1)
       PROVE  Carries(new, i)
  <2>1. CASE i < k
    <3>1. i \in 1..(k - 1) /\ RowsBefore(log, i)
      BY <1>2, <2>1
    <3> QED BY <1>13, <1>14, <3>1, CarriesSame DEF k
  <2>2. CASE i = k
    <3>1. k > 0 /\ RowsBefore(log, k)
      BY <1>2, <2>2
    <3> QED BY <1>12, <1>13, <1>14, <2>2, <3>1, CarriesLast DEF k
  <2>3. CASE i > k
    <3>1. last \in (i + 1)..Len(new) /\ i >= last - n
      BY <1>2, <1>3, <1>10, <2>3
    <3>2. Skipped(new, i)
      BY <1>5, <1>10, <3>1 DEF Skipped
    <3> QED BY <3>2 DEF Carries
  <2> QED BY <1>2, <2>1, <2>2, <2>3
<1>16. ASSUME NEW x \in Solutions(after), NEW y, Undone(rec, x, y)
       PROVE  Owed(new, k + 1, y)
  <2>1. FarEnough(rec, x, y)
    BY <1>5, <1>16 DEF Undone
  <2>2. y \in Solutions(t.lp)
    BY <1>2, <1>3, <1>8, <1>16, <2>1, FarPoint DEF rec, S
  <2> QED BY <1>12, <1>13, <1>14, <2>2, OwedNext DEF k
<1>17. LeadsBack(new, Len(new), Solutions(after))
  <2>1. Target(new, last) = k + 1
    <3>1. new[last].rec.type = "fixedInf" /\ Len(new[last].rec.rows) = n
      BY <1>5, <1>10
    <3>2. last - n = k + 1
      BY <1>2, <1>3
    <3> HIDE DEF last
    <3> QED BY <3>1, <3>2 DEF Target
  <2> QED BY <1>10, <1>16, <2>1 DEF LeadsBack
<1>18. ASSUME NEW i \in 1..Len(new)
       PROVE  AtInfinity(new, i)
  <2>1. CASE i = last
    <3>1. (i - n)..(i - 1) = (k + 1)..(k + n)
      BY <1>2, <1>3, <2>1
    <3> QED BY <1>5, <1>10, <1>11, <2>1, <3>1 DEF AtInfinity
  <2>2. CASE i \in 1..k
    BY <1>2, <1>13, <1>14, <2>2, InfinitySame DEF k
  <2>3. CASE i \in (k + 1)..(k + n)
    BY <1>11, <2>3 DEF AtInfinity
  <2> QED BY <1>2, <1>3, <1>10, <2>1, <2>2, <2>3
<1>19. Reaches(new, Solutions(after))
  <2>1. Solutions(after) \subseteq Points
    BY DEF Solutions
  <2> QED BY <1>15, <1>17, <1>18, <2>1 DEF Reaches
<1>20. Stored(gone, rec, after).lp = after
  BY DEF Stored
<1> QED BY <1>1, <1>19, <1>20 DEF Carrying, new

-----------------------------------------------------------------------------
(* Presolve                                                                 *)

(* The result of a reduction, or nothing new at the end of presolve         *)
LEMMA ReduceCarries ==
  ASSUME Carrying(st), NEW after, Carrying(after), Reduce(after)
  PROVE  Carrying(st')
BY DEF Reduce

(* A reduction keeps a storage that leads back, whichever presolver made it. *)
LEMMA ReductionCarries ==
  ASSUME BoundsInv, Carrying(st),
         \/ SingletonRow \/ RedundantSides \/ EmptyColumn \/ FixToBound \/ FixToInfinity \/ TightenByRow
         \/ SubstituteColumn \/ MakeEquation \/ DeleteParallelRow \/ MergeColumns
  PROVE  Carrying(st')
<1>1. Reversible(st) /\ st.lp.rows \subseteq Rows /\ st.lp.cols \subseteq Cols /\ WellFormed(st.lp)
  BY WellFormedFacts DEF BoundsInv, Reversible
<1>2. \A after : Reduce(after) => ~Crossed(st.lp)
  BY DEF Reduce, BoundsInv
<1>3. CASE SingletonRow
  <2>1. PICK r \in st.lp.rows : Cardinality(RowCols(st.lp, r)) = 1 /\ Reduce(RemoveSingletonRow(st, r))
    BY <1>3 DEF SingletonRow
  <2>2. PICK c : RowCols(st.lp, r) = {c}
    <3>1. IsFiniteSet(RowCols(st.lp, r))
      <4>1. RowCols(st.lp, r) \in SUBSET Cols
        BY <1>1 DEF RowCols
      <4> QED BY <4>1, FiniteProgram
    <3> QED BY <2>1, <3>1, FS_Singleton
  <2>3. Carrying(RemoveSingletonRow(st, r))
    BY <1>1, <2>1, <2>2, SingletonRowCarries
  <2> QED BY <2>1, <2>3, ReduceCarries
<1>4. CASE RedundantSides
  <2>1. PICK r \in st.lp.rows : (LhsFulfilled(st.lp, r) \/ RhsFulfilled(st.lp, r)) /\ Reduce(DropSides(st, r))
    BY <1>4 DEF RedundantSides
  <2>2. Carrying(DropSides(st, r))
    BY <1>1, <2>1, DropSidesCarries
  <2> QED BY <2>1, <2>2, ReduceCarries
<1>5. CASE EmptyColumn
  <2>1. PICK c \in st.lp.cols : EmptyColumnValue(st.lp, c) # NoBound /\ Reduce(RemoveEmptyColumn(st, c))
    BY <1>5 DEF EmptyColumn
  <2>2. Carrying(RemoveEmptyColumn(st, c))
    BY <1>1, <1>2, <2>1, EmptyColumnCarries
  <2> QED BY <2>1, <2>2, ReduceCarries
<1>6. CASE FixToBound
  <2>1. PICK c \in st.lp.cols, below \in BOOLEAN :
          BoundOf(st.lp, c, below) # NoBound /\ Reduce(DualFix(st, c, below))
    BY <1>6 DEF FixToBound, BoundOf
  <2>2. Carrying(DualFix(st, c, below))
    BY <1>1, <2>1, DualFixCarries
  <2> QED BY <2>1, <2>2, ReduceCarries
<1>7. CASE FixToInfinity
  <2>1. PICK c \in st.lp.cols, below \in BOOLEAN :
          /\ Unlocked(st.lp, c, below) /\ BoundOf(st.lp, c, below) = NoBound
          /\ Reduce(DualFixInfinity(st, c, below))
    BY <1>7 DEF FixToInfinity, BoundOf
  <2>2. Carrying(DualFixInfinity(st, c, below))
    BY <1>1, <2>1, InfinityCarries
  <2> QED BY <2>1, <2>2, ReduceCarries
<1>8. CASE TightenByRow
  <2>1. PICK r \in st.lp.rows : \E c \in RowCols(st.lp, r), isLower \in BOOLEAN :
          Reduce(Propagate(st, r, c, isLower, calculateBasis))
    BY <1>8 DEF TightenByRow
  <2>2. PICK c \in RowCols(st.lp, r), isLower \in BOOLEAN : Reduce(Propagate(st, r, c, isLower, calculateBasis))
    BY <2>1
  <2>3. Carrying(Propagate(st, r, c, isLower, calculateBasis))
    BY <1>1, <2>2, PropagateCarries
  <2> QED BY <2>2, <2>3, ReduceCarries
<1>9. CASE SubstituteColumn
  <2>1. PICK c \in st.lp.cols, r \in st.lp.rows :
          SingletonSubstitutable(st.lp, c, r) /\ Reduce(SubstituteSingleton(st, c, r))
    BY <1>9 DEF SubstituteColumn
  <2>2. Carrying(SubstituteSingleton(st, c, r))
    BY <1>1, <2>1, SubstituteSingletonCarries
  <2> QED BY <2>1, <2>2, ReduceCarries
<1>10. CASE MakeEquation
  <2>1. PICK c \in st.lp.cols, r \in st.lp.rows :
          /\ ColRows(st.lp, c) = {r}
          /\ st.lp.lhs[r] = NoBound \/ st.lp.rhs[r] = NoBound
          /\ \A below \in BOOLEAN : ~Unlocked(st.lp, c, below)
          /\ DualBoundGoesUp(st.lp, c, r) \/ DualBoundGoesDown(st.lp, c, r)
          /\ Reduce(ToEquation(st, c, r))
    BY <1>10 DEF MakeEquation
  <2>2. Carrying(ToEquation(st, c, r))
    BY <1>1, <2>1, ToEquationCarries
  <2> QED BY <2>1, <2>2, ReduceCarries
<1>11. CASE DeleteParallelRow
  <2>1. PICK kept \in st.lp.rows, r \in st.lp.rows :
          kept # r /\ ParallelRows(st.lp, kept, r) /\ Reduce(RemoveParallelRow(st, kept, r))
    BY <1>11 DEF DeleteParallelRow
  <2>2. Carrying(RemoveParallelRow(st, kept, r))
    BY <1>1, <2>1, ParallelRowCarries
  <2> QED BY <2>1, <2>2, ReduceCarries
<1>12. CASE MergeColumns
  <2>1. PICK c1 \in st.lp.cols, c2 \in st.lp.cols :
          ParallelCols(st.lp, c1, c2) /\ Reduce(MergeParallelCols(st, c1, c2))
    BY <1>12 DEF MergeColumns
  <2>2. Carrying(MergeParallelCols(st, c1, c2))
    BY <1>1, <1>2, <2>1, MergeCarries
  <2> QED BY <2>1, <2>2, ReduceCarries
<1> QED BY <1>3, <1>4, <1>5, <1>6, <1>7, <1>8, <1>9, <1>10, <1>11, <1>12

-----------------------------------------------------------------------------
(* Undoing a column at infinity                                             *)

(* The loop of the undo over the rows of the column is that of the table.   *)
LEMMA LoopOverFulfil ==
  ASSUME NEW rec, NEW s0, NEW rows
  PROVE  FoldLeft(LAMBDA t, row : FulfilRow(t, rec, row), s0, rows) = After("fulfil", rec, s0, rows, DOMAIN rows)
BY DEF FoldLeft, MapThenFoldSet, After, TheLoop, LoopTable, LoopEntry, Turn

(* Not nearer than v, seen from the bound                                   *)
Beyond(up, v, w) == IF up THEN v <= w ELSE w <= v

(* Further away is still beyond.                                            *)
LEMMA BeyondBeyond ==
  ASSUME NEW up, NEW v \in Int, NEW w \in Int, NEW z \in Int, Beyond(up, v, w), Beyond(up, w, z)
  PROVE  Beyond(up, v, z)
BY DEF Beyond

(* The value that fulfils a row does not depend on that of the column.      *)
LEMMA ValueForRowSame ==
  ASSUME NEW rec, NEW row, NEW x \in Points, NEW y \in Points, \A d \in Cols \ {rec.col} : y[d] = x[d]
  PROVE  ValueForRow(rec, row, y) = ValueForRow(rec, row, x)
<1>1. [y EXCEPT ![rec.col] = 0] = [x EXCEPT ![rec.col] = 0]
  BY DEF Points
<1> QED BY <1>1 DEF ValueForRow

(* One row: the value moves on, if it moves at all, and far enough.         *)
LEMMA OneFulfilled ==
  ASSUME NEW rec, rec.col \in Cols, NEW row, NEW s, "primal" \in DOMAIN s, s.primal \in Points,
         ValueForRow(rec, row, s.primal) \in Int
  PROVE  LET new == FulfilRow(s, rec, row)
         IN /\ "primal" \in DOMAIN new /\ new.primal \in Points
            /\ \A d \in Cols \ {rec.col} : new.primal[d] = s.primal[d]
            /\ Beyond(rec.up, s.primal[rec.col], new.primal[rec.col])
            /\ Beyond(rec.up, ValueForRow(rec, row, s.primal), new.primal[rec.col])
<1> DEFINE v == ValueForRow(rec, row, s.primal)
           new == FulfilRow(s, rec, row)
           further == IF rec.up THEN v > s.primal[rec.col] ELSE v < s.primal[rec.col]
           w == IF further THEN v ELSE s.primal[rec.col]
<1>1. v \in Int
  OBVIOUS
<1>2. new.primal = [s.primal EXCEPT ![rec.col] = w] /\ "primal" \in DOMAIN new
  BY DEF FulfilRow
<1> HIDE DEF v, new
<1>3. s.primal[rec.col] \in Int
  BY DEF Points
<1>4. w \in Int /\ Beyond(rec.up, s.primal[rec.col], w) /\ Beyond(rec.up, v, w)
  BY <1>1, <1>3 DEF Beyond
<1> HIDE DEF w
<1>5. /\ new.primal \in Points /\ new.primal[rec.col] = w
      /\ \A d \in Cols \ {rec.col} : new.primal[d] = s.primal[d]
  BY <1>2, <1>4 DEF Points
<1> QED BY <1>2, <1>4, <1>5 DEF v, new

(* All rows: the column is beyond the value of each of them.                *)
LEMMA AllFulfilled ==
  ASSUME NEW rec, rec.col \in Cols, NEW n \in Nat, DOMAIN rec.rows = 1..n,
         NEW x \in Points, \A i \in 1..n : ValueForRow(rec, rec.rows[i], x) \in Int,
         NEW b \in Int, NEW s0, "primal" \in DOMAIN s0, s0.primal = [x EXCEPT ![rec.col] = b]
  PROVE  LET s == After("fulfil", rec, s0, rec.rows, 1..n)
         IN /\ "primal" \in DOMAIN s /\ s.primal \in Points
            /\ \A d \in Cols \ {rec.col} : s.primal[d] = x[d]
            /\ Beyond(rec.up, b, s.primal[rec.col])
            /\ \A i \in 1..n : Beyond(rec.up, ValueForRow(rec, rec.rows[i], x), s.primal[rec.col])
<1> DEFINE D == 1..n
           c == rec.col
           rows == rec.rows
           kind == "fulfil"
           V(i) == ValueForRow(rec, rows[i], x)
           At0(T) == After(kind, rec, s0, rows, T)
           Fine(s, T) == /\ "primal" \in DOMAIN s /\ s.primal \in Points
                         /\ \A d \in Cols \ {c} : s.primal[d] = x[d]
                         /\ Beyond(rec.up, b, s.primal[c])
                         /\ \A i \in T : Beyond(rec.up, V(i), s.primal[c])
           Good == {T \in SUBSET D : Fine(At0(T), T)}
<1>1. IsFiniteSet(D) /\ D \subseteq Int
  BY FS_Interval
<1>2. \A i \in D : V(i) \in Int
  OBVIOUS
<1> HIDE DEF D, kind, V
<1>3. Fine(s0, {})
  BY DEF Points, Beyond
<1>4. ASSUME NEW T \in SUBSET D, \A U \in SUBSET T : U # T => U \in Good
      PROVE  T \in Good
  <2>1. IsFiniteSet(T) /\ T \subseteq Int
    BY <1>1, FS_Subset
  <2>2. CASE T = {}
    <3>1. At0(T) = s0
      BY <2>2, LoopStart
    <3> HIDE DEF Fine, At0
    <3> QED BY <1>3, <2>2, <3>1
  <2>3. CASE T # {}
    <3> DEFINE m == Max(T)
               W == T \ {m}
               s == At0(W)
               row == rows[m]
               new == FulfilRow(s, rec, row)
    <3>1. m \in T /\ At0(T) = new
      <4>1. m \in T /\ At0(T) = Turn(kind, rec, s, row)
        <5>1. Positions(T)
          BY <2>1 DEF Positions
        <5>2. m \in T /\ IsLast(m, T) /\ AreOthers(W, T, m)
          BY <2>3, <5>1, LastPosition
        <5> HIDE DEF m, W
        <5> QED BY <5>1, <5>2, LoopTurn
      <4> HIDE DEF m, s, At0, row
      <4> QED BY <4>1 DEF Turn, kind
    <3>2. W \in Good
      BY <1>4, <3>1
    <3>3. Fine(s, W)
      BY <3>2
    <3>4. m \in D /\ W \cup {m} = T
      BY <3>1
    <3> HIDE DEF s, m, W
    <3>5. ValueForRow(rec, row, s.primal) = V(m)
      <4>1. s.primal \in Points /\ \A d \in Cols \ {rec.col} : s.primal[d] = x[d]
        BY <3>3
      <4>2. ValueForRow(rec, row, s.primal) = ValueForRow(rec, row, x)
        BY <4>1, ValueForRowSame
      <4> QED BY <4>2 DEF V
    <3> HIDE DEF row
    <3>6. /\ "primal" \in DOMAIN new /\ new.primal \in Points
          /\ (\A d \in Cols \ {c} : new.primal[d] = s.primal[d])
          /\ Beyond(rec.up, s.primal[c], new.primal[c])
          /\ Beyond(rec.up, V(m), new.primal[c])
      BY <1>2, <3>3, <3>4, <3>5, OneFulfilled
    <3> HIDE DEF new
    <3>7. s.primal[c] \in Int /\ new.primal[c] \in Int
      BY <3>3, <3>6 DEF Points
    <3>8. Beyond(rec.up, b, new.primal[c])
      BY <3>3, <3>6, <3>7, BeyondBeyond
    <3>9. ASSUME NEW i \in T
          PROVE  Beyond(rec.up, V(i), new.primal[c])
      <4>1. CASE i = m
        BY <3>6, <4>1
      <4>2. CASE i \in W
        <5>1. V(i) \in Int /\ Beyond(rec.up, V(i), s.primal[c])
          BY <1>2, <3>3, <4>2
        <5> QED BY <3>6, <3>7, <5>1, BeyondBeyond
      <4> QED BY <3>4, <4>1, <4>2
    <3>10. \A d \in Cols \ {c} : new.primal[d] = x[d]
      BY <3>3, <3>6
    <3>11. Fine(new, T)
      BY <3>6, <3>8, <3>9, <3>10
    <3> HIDE DEF Fine, At0
    <3> QED BY <3>1, <3>11
  <2> QED BY <2>2, <2>3
<1>5. D \in Good
  <2> HIDE DEF Good
  <2> QED BY <1>1, <1>4, SubsetInduction
<1>6. Fine(At0(D), D)
  BY <1>5
<1> HIDE DEF At0
<1> QED BY <1>6 DEF D, V, kind, At0

(* A column at infinity comes back beyond its bound and far enough for each *)
(* of its rows.                                                             *)
LEMMA UndoInfinityMoves ==
  ASSUME NEW w, HasStored(w), "primal" \in DOMAIN w.s, w.s.primal \in Points, NEW rec, MadeAtInfinity(rec)
  PROVE  LET new == UndoFixedInf(w, rec)
         IN "primal" \in DOMAIN new.s /\ FarEnough(rec, w.s.primal, new.s.primal)
<1>1. PICK lp, c, up, rows : /\ WellFormed(lp) /\ c \in lp.cols /\ up \in BOOLEAN
                             /\ IsAscending(rows, ColRows(lp, c))
                             /\ rec = FixedInfRecord(lp, c, up, rows)
  BY DEF MadeAtInfinity
<1> DEFINE n == Cardinality(ColRows(lp, c))
           x == w.s.primal
           b == Number(rec.bound)
           s0 == [w.s EXCEPT !.primal[rec.col] = b]
           s == After("fulfil", rec, s0, rec.rows, 1..n)
           new == UndoFixedInf(w, rec)
<1>2. /\ rec.col = c /\ rec.up = up /\ rec.bound = BoundOf(lp, c, up)
      /\ rec.rows = [i \in DOMAIN rows |-> RowPart(lp, rows[i])]
  BY <1>1 DEF FixedInfRecord, BoundOf
<1>3. /\ lp.cols \subseteq Cols /\ ColRows(lp, c) \subseteq Rows
      /\ lp.lb \in [Cols -> Limits] /\ lp.ub \in [Cols -> Limits]
  BY <1>1, WellFormedFacts DEF ColRows
<1>4. n \in Nat /\ rows \in [1..n -> ColRows(lp, c)]
  <2>1. IsFiniteSet(ColRows(lp, c))
    BY <1>3, FiniteProgram
  <2> QED BY <1>1, <2>1, FS_CardinalityType DEF IsAscending
<1>5. c \in Cols /\ b \in Int /\ x \in Points
  <2>1. c \in Cols
    BY <1>1, <1>3
  <2>2. rec.bound \in Limits
    BY <1>2, <1>3, <2>1 DEF BoundOf
  <2> QED BY <2>1, <2>2 DEF Limits, Number
<1>6. DOMAIN rec.rows = 1..n
  <2>1. DOMAIN rows = 1..n
    BY <1>4
  <2> HIDE DEF n
  <2> QED BY <1>2, <2>1
<1>7. \A i \in 1..n : ValueForRow(rec, rec.rows[i], x) \in Int
  <2> SUFFICES ASSUME NEW i \in 1..n
               PROVE  ValueForRow(rec, rec.rows[i], x) \in Int
    OBVIOUS
  <2>1. rows[i] \in ColRows(lp, c) /\ rec.rows[i] = RowPart(lp, rows[i])
    BY <1>2, <1>4
  <2>2. rows[i] \in Rows /\ c \in RowCols(lp, rows[i])
    BY <1>1, <1>3, <2>1 DEF ColRows, RowCols
  <2> DEFINE r == rows[i]
  <2> HIDE DEF r, x
  <2>3. r \in Rows /\ c \in RowCols(lp, r) /\ rec.rows[i] = RowPart(lp, r)
    BY <2>1, <2>2 DEF r
  <2>4. ValueForRow(rec, RowPart(lp, r), x) \in Int
    BY <1>1, <1>2, <1>5, <2>3, ValueForRowIs
  <2> QED BY <2>3, <2>4
<1>8. "primal" \in DOMAIN s0 /\ s0.primal = [x EXCEPT ![rec.col] = b]
  OBVIOUS
<1>9. FoldLeft(LAMBDA t, row : FulfilRow(t, rec, row), s0, rec.rows) = s
  <2>1. FoldLeft(LAMBDA t, row : FulfilRow(t, rec, row), s0, rec.rows) = After("fulfil", rec, s0, rec.rows, DOMAIN rec.rows)
    BY LoopOverFulfil
  <2> QED BY <1>6, <2>1
<1>10. new.s.primal = s.primal /\ DOMAIN new.s = DOMAIN s
  <2> HIDE DEF s
  <2>1. \E e1, e2 : new.s = [s EXCEPT !.rc[rec.col] = e1, !.varBasis[rec.col] = e2]
    BY <1>9 DEF UndoFixedInf, HasStored
  <2> QED BY <2>1
<1> HIDE DEF n, s, b, x, s0, new
<1>11. /\ "primal" \in DOMAIN s /\ s.primal \in Points
       /\ (\A d \in Cols \ {rec.col} : s.primal[d] = x[d])
       /\ Beyond(rec.up, b, s.primal[rec.col])
       /\ \A i \in 1..n : Beyond(rec.up, ValueForRow(rec, rec.rows[i], x), s.primal[rec.col])
  <2>1. rec.col \in Cols
    BY <1>2, <1>5
  <2> QED BY <1>4, <1>5, <1>6, <1>7, <1>8, <2>1, AllFulfilled DEF s
<1>12. FarEnough(rec, x, new.s.primal)
  BY <1>6, <1>10, <1>11 DEF FarEnough, Beyond, b
<1> QED BY <1>10, <1>11, <1>12 DEF x, new

(* A solution with a point, next to the stored bounds                       *)
HasPoint(w) == DOMAIN w = {"s", "stored", "broken"} /\ "primal" \in DOMAIN w.s

KeepsPoint(x, y) == HasPoint(y) /\ y.s.primal = x.s.primal

(* Statuses and prices change, the point does not.                          *)
LEMMA StatusesKeepPoint ==
  ASSUME NEW x, HasPoint(x), NEW rec, NEW log, NEW i, NEW c, NEW saved
  PROVE  KeepsPoint(x, LoosenStatus(x, rec, log, i)) /\ KeepsPoint(x, PriceToRow(x, c, saved))
<1>1. KeepsPoint(x, x) /\ \A e : KeepsPoint(x, [x EXCEPT !.broken = e])
  BY DEF HasPoint, KeepsPoint
<1>2. KeepsPoint(x, PriceToRow(x, c, saved))
  <2>1. \E e1, e2, e3, e4 :
          PriceToRow(x, c, saved) = [x EXCEPT !.s = [x.s EXCEPT !.dual[saved.row] = e1, !.rc = e2,
                                                                !.rowBasis[saved.row] = e3, !.varBasis = e4]]
    BY DEF PriceToRow
  <2> QED BY <2>1 DEF HasPoint, KeepsPoint
<1>3. KeepsPoint(x, LoosenStatus(x, rec, log, i))
  <2> DEFINE d == rec.col
             row == SavedRow(log, i)
             other == [x EXCEPT !.s.varBasis[d] = IF rec.isLower THEN "onUpper" ELSE "onLower"]
             zero == [x EXCEPT !.s.varBasis[d] = "zero"]
             enters == EnterForRow(x, d, row)
             lost == [x EXCEPT !.broken = TRUE]
             new == LoosenStatus(x, rec, log, i)
  <2>1. new = x \/ new = other \/ new = zero \/ new = enters \/ new = lost
    BY DEF LoosenStatus
  <2>2. KeepsPoint(x, other) /\ KeepsPoint(x, zero) /\ KeepsPoint(x, lost)
    BY DEF HasPoint, KeepsPoint
  <2>3. KeepsPoint(x, enters)
    BY DEF HasPoint, KeepsPoint, EnterForRow
  <2> HIDE DEF other, zero, enters, lost, new
  <2>4. KeepsPoint(x, new)
    BY <1>1, <2>1, <2>2, <2>3
  <2> QED BY <2>4 DEF new
<1> QED BY <1>2, <1>3

(* A changed bound                                                          *)
LEMMA UndoBoundKeepsPoint ==
  ASSUME NEW w, HasPoint(w), NEW rec, NEW log, NEW i
  PROVE  KeepsPoint(w, UndoVarBoundChange(w, rec, log, i))
<1> DEFINE c == rec.col
           loosened == IF rec.isLower THEN [w EXCEPT !.stored.lb[c] = rec.old]
                                      ELSE [w EXCEPT !.stored.ub[c] = rec.old]
           new == UndoVarBoundChange(w, rec, log, i)
<1>1. HasPoint(loosened) /\ loosened.s = w.s
  BY DEF HasPoint
<1>2. \/ new = LoosenStatus(loosened, rec, log, i)
      \/ new = LoosenStatus(PriceToRow(loosened, c, SavedRow(log, i)), rec, log, i)
      \/ new = [loosened EXCEPT !.broken = TRUE]
  BY DEF UndoVarBoundChange
<1> HIDE DEF loosened, new
<1>3. KeepsPoint(loosened, LoosenStatus(loosened, rec, log, i))
  BY <1>1, StatusesKeepPoint
<1>4. KeepsPoint(loosened, LoosenStatus(PriceToRow(loosened, c, SavedRow(log, i)), rec, log, i))
  <2> DEFINE priced == PriceToRow(loosened, c, SavedRow(log, i))
  <2>1. KeepsPoint(loosened, priced)
    BY <1>1, StatusesKeepPoint
  <2> HIDE DEF priced
  <2>2. KeepsPoint(priced, LoosenStatus(priced, rec, log, i))
    BY <2>1, StatusesKeepPoint DEF KeepsPoint
  <2> QED BY <2>1, <2>2 DEF KeepsPoint, priced
<1>5. KeepsPoint(loosened, [loosened EXCEPT !.broken = TRUE])
  BY <1>1 DEF KeepsPoint, HasPoint
<1>6. KeepsPoint(loosened, new)
  BY <1>2, <1>3, <1>4, <1>5
<1> QED BY <1>1, <1>6 DEF KeepsPoint, new

(* Undoing a record moves the point as the record says.                     *)
LEMMA UndoMoves ==
  ASSUME NEW w, HasStored(w), HasPoint(w), w.s.primal \in Points, NEW log, NEW i,
         log[i].rec.type = "fixedInf" => MadeAtInfinity(log[i].rec)
  PROVE  LET new == UndoRecord(w, log, i)
         IN HasPoint(new) /\ Undone(log[i].rec, w.s.primal, new.s.primal)
<1> DEFINE rec == log[i].rec
           new == UndoRecord(w, log, i)
           x == w.s.primal
<1>0. HasPoint(new) <=> "primal" \in DOMAIN new.s
  BY UndoBringsBack DEF BringsBack, HasStored, HasPoint
<1>1. CASE rec.type = "fixedCol"
  <2>1. new = UndoFixedCol(w, rec)
    BY <1>1 DEF UndoRecord
  <2> HIDE DEF rec, new
  <2>2. "primal" \in DOMAIN new.s /\ new.s.primal = [x EXCEPT ![rec.col] = rec.val]
    BY <2>1 DEF UndoFixedCol, HasPoint
  <2>3. Undone(rec, x, new.s.primal)
    BY <1>1, <2>2 DEF Undone
  <2> QED BY <1>0, <2>2, <2>3 DEF rec, new
<1>2. CASE rec.type = "fixedInf"
  <2>1. new = UndoFixedInf(w, rec)
    BY <1>2 DEF UndoRecord
  <2>2. MadeAtInfinity(rec)
    BY <1>2
  <2> HIDE DEF rec, new
  <2>3. "primal" \in DOMAIN new.s /\ FarEnough(rec, x, new.s.primal)
    BY <2>1, <2>2, UndoInfinityMoves DEF HasPoint
  <2>4. Undone(rec, x, new.s.primal)
    BY <1>2, <2>3 DEF Undone
  <2> QED BY <1>0, <2>3, <2>4 DEF rec, new
<1>3. CASE rec.type = "varBoundChange"
  <2>1. new = UndoVarBoundChange(w, rec, log, i)
    BY <1>3 DEF UndoRecord
  <2> HIDE DEF rec, new
  <2>2. HasPoint(new) /\ new.s.primal = x
    BY <2>1, UndoBoundKeepsPoint DEF KeepsPoint
  <2>3. Undone(rec, x, new.s.primal)
    BY <1>3, <2>2 DEF Undone
  <2> QED BY <2>2, <2>3 DEF rec, new
<1>4. CASE rec.type = "substituted"
  <2>1. new = UndoSubstituted(w, rec)
    BY <1>4 DEF UndoRecord
  <2> HIDE DEF rec, new
  <2> DEFINE v == SolveEquation(rec, x)
             s == [w.s EXCEPT !.primal[rec.col] = v]
  <2>2. "primal" \in DOMAIN s /\ s.primal = [x EXCEPT ![rec.col] = v]
    BY DEF HasPoint
  <2>3. new.s = UndoBetweenBounds(s, rec) \/ new.s = UndoOnBound(s, rec, StatusAt(rec.lb, rec.ub, v))
    BY <2>1 DEF UndoSubstituted, HasPoint
  <2> HIDE DEF s
  <2>4. \A status : "primal" \in DOMAIN UndoOnBound(s, rec, status) /\ UndoOnBound(s, rec, status).primal = s.primal
    BY <2>2 DEF UndoOnBound
  <2>5. "primal" \in DOMAIN UndoBetweenBounds(s, rec) /\ UndoBetweenBounds(s, rec).primal = s.primal
    BY <2>2 DEF UndoBetweenBounds
  <2>6. "primal" \in DOMAIN new.s /\ new.s.primal = s.primal
    BY <2>3, <2>4, <2>5
  <2>7. Undone(rec, x, new.s.primal)
    BY <1>4, <2>2, <2>6 DEF Undone
  <2> QED BY <1>0, <2>6, <2>7 DEF rec, new
<1>5. CASE rec.type = "parallelCol"
  <2>1. new = UndoParallelCol(w, rec)
    BY <1>5 DEF UndoRecord
  <2> HIDE DEF rec, new
  <2> DEFINE val == Split(rec, x[rec.col2])
             y == [x EXCEPT ![rec.col1] = val.val1, ![rec.col2] = val.val2]
  <2>2. "primal" \in DOMAIN new.s /\ new.s.primal = y
    BY <2>1 DEF UndoParallelCol, HasPoint, Split
  <2>3. Undone(rec, x, new.s.primal)
    BY <1>5, <2>2 DEF Undone
  <2> QED BY <1>0, <2>2, <2>3 DEF rec, new
<1>6. CASE rec.type \notin {"fixedCol", "fixedInf", "varBoundChange", "substituted", "parallelCol"}
  <2>1. \/ new = w
        \/ new = UndoReducedBounds(w, rec)
        \/ new = UndoForcedByRow(w, rec, log[i - 1].rec)
        \/ new = UndoRowBoundChange(w, rec)
        \/ new = UndoRedundantRow(w, rec)
    BY <1>6 DEF UndoRecord
  <2> DEFINE reason == log[i - 1].rec
  <2> HIDE DEF rec, new, reason
  <2>2. KeepsPoint(w, UndoForcedByRow(w, rec, reason))
    BY DEF KeepsPoint, HasPoint, UndoForcedByRow
  <2>3. KeepsPoint(w, UndoRowBoundChange(w, rec)) /\ KeepsPoint(w, UndoRedundantRow(w, rec))
    BY DEF KeepsPoint, HasPoint, UndoRowBoundChange, UndoRedundantRow
  <2>4. KeepsPoint(w, UndoReducedBounds(w, rec))
    BY DEF KeepsPoint, HasPoint, UndoReducedBounds
  <2>5. KeepsPoint(w, new)
    BY <2>1, <2>2, <2>3, <2>4 DEF KeepsPoint, reason
  <2>6. Undone(rec, x, new.s.primal)
    BY <1>6, <2>5 DEF Undone, KeepsPoint
  <2> QED BY <2>5, <2>6 DEF rec, new, KeepsPoint
<1> QED BY <1>1, <1>2, <1>3, <1>4, <1>5, <1>6

-----------------------------------------------------------------------------
(* The way back                                                             *)

(* One turn pays what the last one owed and leaves the next its debt.       *)
LEMMA TurnOwes ==
  ASSUME NEW log, IsLog(log), NEW S, Reaches(log, S), NEW i \in 1..Len(log), ~Skipped(log, i), NEW x,
         i = Len(log) => x \in S, i < Len(log) => Owed(log, i + 1, x), NEW y, Undone(log[i].rec, x, y)
  PROVE  Owed(log, Target(log, i), y)
<1> DEFINE k == Len(log)
           rec == log[i].rec
<1>1. k \in Nat
  BY LogDomain
<1>2. CASE i = k
  <2>1. k > 0
    BY <1>1, <1>2
  <2>2. LeadsBack(log, k, S) /\ x \in S
    BY <1>2, <2>1 DEF Reaches
  <2> QED BY <1>2, <2>2 DEF LeadsBack
<1>3. CASE i < k /\ ~BelongsToSubstitution(log, i + 1)
  <2>1. i \in 1..(k - 1)
    BY <1>1, <1>3
  <2>2. Carries(log, i)
    BY <2>1 DEF Reaches
  <2>3. LeadsBack(log, i, Solutions(log[i + 1].before))
    BY <1>3, <2>2 DEF Carries
  <2>4. x \in Solutions(log[i + 1].before)
    BY <1>3 DEF Owed
  <2> QED BY <2>3, <2>4 DEF LeadsBack
<1>4. CASE i < k /\ BelongsToSubstitution(log, i + 1)
  <2>1. /\ x \in Points
        /\ \A s \in 1..((i + 1) - 1) : \A z :
             InGroup(log, s, i + 1) /\ Undone(log[s].rec, x, z) => z \in Solutions(log[s].before)
    BY <1>4 DEF Owed
  <2>2. i + 1 \in 1..k /\ (i + 1) - 1 = i
    BY <1>1, <1>4
  <2>3. rec.type = "substituted" \/ BelongsToSubstitution(log, i)
    <3> DEFINE j == i + 1
    <3>1. j \in 1..k /\ j - 1 = i /\ BelongsToSubstitution(log, j)
      BY <1>4, <2>2
    <3> HIDE DEF j
    <3>2. log[j - 1].rec.type = "substituted" \/ BelongsToSubstitution(log, j - 1)
      BY <3>1, BelongsChain
    <3> QED BY <3>1, <3>2
  <2>4. CASE rec.type = "substituted"
    <3>1. InGroup(log, i, i + 1)
      BY <1>4, <2>2, <2>4 DEF InGroup
    <3>2. y \in Solutions(log[i].before)
      BY <2>1, <2>2, <3>1
    <3>3. ~BelongsToSubstitution(log, i) /\ Target(log, i) = i
      BY <2>4 DEF BelongsToSubstitution, Target
    <3> QED BY <3>2, <3>3 DEF Owed, Solutions
  <2>5. CASE BelongsToSubstitution(log, i)
    <3>1. rec.type \in {"rowBoundChange", "coefficientChange", "redundantRow"}
      BY <2>5, BelongsChain
    <3>2. y = x /\ Target(log, i) = i
      BY <3>1, SamePoint DEF Target
    <3>3. ASSUME NEW s \in 1..(i - 1), InGroup(log, s, i)
          PROVE  InGroup(log, s, i + 1) /\ s \in 1..((i + 1) - 1)
      <4>1. \A q \in (s + 1)..(i + 1) : q \in (s + 1)..i \/ q = i + 1
        OBVIOUS
      <4>2. \A q \in (s + 1)..(i + 1) : BelongsToSubstitution(log, q)
        BY <1>4, <3>3, <4>1 DEF InGroup
      <4> QED BY <3>3, <4>2 DEF InGroup
    <3> QED BY <2>1, <2>5, <3>2, <3>3 DEF Owed
  <2> QED BY <2>3, <2>4, <2>5
<1> QED BY <1>1, <1>2, <1>3, <1>4

(* No turn begins at a row that fell with a column at infinity.             *)
LEMMA NotSkippedNext ==
  ASSUME NEW log, IsLog(log), \A f \in 1..Len(log) : AtInfinity(log, f) /\ RowsBefore(log, f),
         NEW i \in 1..Len(log), ~Skipped(log, i), NEW j \in Nat, j = Target(log, i) - 1, j > 0
  PROVE  ~Skipped(log, j)
<1> DEFINE k == Len(log)
<1>1. k \in Nat
  BY LogDomain
<1> SUFFICES ASSUME NEW f \in (j + 1)..k, log[f].rec.type = "fixedInf", j >= f - Len(log[f].rec.rows)
             PROVE  FALSE
  BY DEF Skipped
<1>2. f \in 1..k /\ Len(log[f].rec.rows) \in Nat /\ Len(log[f].rec.rows) < f
  BY <1>1 DEF RowsBefore
<1>3. CASE log[i].rec.type # "fixedInf"
  <2>1. j = i - 1
    BY <1>3 DEF Target
  <2>2. f = i \/ f > i
    BY <2>1
  <2>3. i >= f - Len(log[f].rec.rows)
    BY <1>2, <2>1
  <2>4. f > i => Skipped(log, i)
    BY <1>1, <1>2, <2>3 DEF Skipped
  <2> QED BY <1>3, <2>2, <2>4
<1>4. CASE log[i].rec.type = "fixedInf"
  <2> DEFINE n == Len(log[i].rec.rows)
  <2>1. n \in Nat /\ n < i /\ j = i - n - 1
    BY <1>4 DEF Target, RowsBefore
  <2>2. CASE f > i
    <3>1. i >= f - Len(log[f].rec.rows) /\ f \in (i + 1)..k
      BY <1>1, <1>2, <2>1, <2>2
    <3> QED BY <3>1 DEF Skipped
  <2>3. CASE f = i
    BY <2>1, <2>3
  <2>4. CASE f < i
    <3>1. f \in (i - n)..(i - 1)
      BY <2>1, <2>4
    <3>2. log[f].rec.type = "redundantRow"
      BY <1>4, <3>1 DEF AtInfinity
    <3> QED BY <3>2
  <2> QED BY <1>2, <2>2, <2>3, <2>4
<1> QED BY <1>3, <1>4

(* Reductions keep a storage that leads back, and on the way back the point *)
(* owes what the record undone last asks for.                               *)
FeasibleInv ==
  /\ BoundsInv
  /\ Carrying(st)
  /\ HasPoint(u) /\ u.s.primal \in Points
  /\ phase = "undo" => /\ next < Len(st.log) => Owed(st.log, next + 1, u.s.primal)
                       /\ next = Len(st.log) => u.s.primal \in Solutions(st.lp)
                       /\ next > 0 => ~Skipped(st.log, next)

(* Nothing is stored at first, and the point is not looked at.              *)
LEMMA FeasibleInvInit ==
  Init => FeasibleInv
<1> SUFFICES ASSUME Init PROVE FeasibleInv
  OBVIOUS
<1>1. PICK lp \in Problems : st = [lp |-> lp, log |-> <<>>]
  BY DEF Init
<1>2. Carrying(st)
  <2>1. st.log = <<>> /\ Len(<<>>) = 0 /\ Solutions(st.lp) \subseteq Points
    BY <1>1, EmptySeq DEF Solutions
  <2>2. Reaches(<<>>, Solutions(st.lp))
    BY <2>1 DEF Reaches
  <2> QED BY <2>1, <2>2 DEF Carrying
<1>3. HasPoint(u) /\ u.s.primal \in Points
  BY DEF Init, Nothing, HasPoint, Points
<1>4. phase # "undo"
  BY DEF Init
<1> QED BY <1>2, <1>3, <1>4, BoundsInvInit DEF FeasibleInv

(* Undoing records                                                          *)
LEMMA UndoKeepsFeasibleInv ==
  ASSUME FeasibleInv, UndoNext
  PROVE  FeasibleInv'
<1> DEFINE log == st.log
           k == Len(log)
           x == u.s.primal
           y == u'.s.primal
           target == Target(log, next)
<1>1. BoundsInv'
  BY UndoKeepsBoundsInv DEF FeasibleInv
<1>2. /\ st' = st /\ phase = "undo" /\ u' = UndoRecord(u, log, next)
      /\ next' = next - RecordsUndone(log, next) /\ next > 0
  BY DEF UndoNext
<1>3. /\ IsLog(log) /\ HasStored(u) /\ next \in 1..k /\ k \in Nat
      /\ \A f \in 1..k : RowsBefore(log, f)
  <2>1. IsLog(log) /\ HasStored(u) /\ next \in 0..k /\ \A f \in 1..k : RowsBefore(log, f)
    BY <1>2 DEF FeasibleInv, BoundsInv, Reversible
  <2> QED BY <1>2, <2>1, LogDomain
<1>4. Reaches(log, Solutions(st.lp)) /\ \A f \in 1..k : AtInfinity(log, f)
  BY DEF FeasibleInv, Carrying, Reaches
<1>5. HasPoint(u) /\ x \in Points /\ ~Skipped(log, next)
  BY <1>2 DEF FeasibleInv
<1>6. HasPoint(u') /\ Undone(log[next].rec, x, y)
  <2>1. log[next].rec.type = "fixedInf" => MadeAtInfinity(log[next].rec)
    BY <1>3, <1>4 DEF AtInfinity
  <2> QED BY <1>2, <1>3, <1>5, <2>1, UndoMoves
<1>7. Owed(log, target, y)
  <2>1. (next = k => x \in Solutions(st.lp)) /\ (next < k => Owed(log, next + 1, x))
    BY <1>2 DEF FeasibleInv
  <2> QED BY <1>3, <1>4, <1>5, <1>6, <2>1, TurnOwes
<1>8. target = next' + 1 /\ next' \in Nat /\ next' < k
  <2>1. CASE log[next].rec.type = "fixedInf"
    <3> DEFINE n == Len(log[next].rec.rows)
    <3>1. n \in Nat /\ n < next /\ next' = next - (1 + n) /\ target = next - n
      BY <1>2, <1>3, <2>1 DEF RowsBefore, RecordsUndone, Target
    <3> HIDE DEF n, k, target
    <3> QED BY <1>3, <3>1
  <2>2. CASE log[next].rec.type # "fixedInf"
    <3>1. next' = next - 1 /\ target = next
      BY <1>2, <2>2 DEF RecordsUndone, Target
    <3> QED BY <1>3, <3>1
  <2> QED BY <2>1, <2>2
<1>9. next' > 0 => ~Skipped(log, next')
  <2>1. next' = target - 1
    <3>1. \A a \in Nat : \A b : b = a + 1 => a = b - 1
      OBVIOUS
    <3> HIDE DEF target
    <3> QED BY <1>8, <3>1, Zenon
  <2> QED BY <1>3, <1>4, <1>5, <1>8, <2>1, NotSkippedNext
<1>10. y \in Points
  BY <1>7 DEF Owed
<1>11. Carrying(st')
  BY <1>2 DEF FeasibleInv
<1>12. Owed(log, next' + 1, y) /\ next' # k
  BY <1>3, <1>7, <1>8
<1> QED BY <1>1, <1>2, <1>6, <1>9, <1>10, <1>11, <1>12 DEF FeasibleInv

-----------------------------------------------------------------------------
(* The solver                                                               *)

(* The first and the last of finitely many numbers                          *)
LEMMA FirstAndSecond ==
  ASSUME NEW S, IsFiniteSet(S), S \subseteq Int, S # {}
  PROVE  First(S) \in S /\ Second(S) \in S
<1>1. \E x \in S : \A y \in S : x >= y
  BY MaxIn DEF Max
<1>2. Second(S) \in S
  BY <1>1 DEF Second
<1> DEFINE Good == {T \in SUBSET S : T # {} => \E x \in T : \A y \in T : x <= y}
<1>3. ASSUME NEW T \in SUBSET S, \A U \in SUBSET T : U # T => U \in Good
      PROVE  T \in Good
  <2> SUFFICES ASSUME NEW p \in T
               PROVE  \E x \in T : \A y \in T : x <= y
    OBVIOUS
  <2>1. T \ {p} \in Good
    BY <1>3
  <2>2. CASE T \ {p} = {}
    BY <2>2
  <2>3. CASE T \ {p} # {}
    <3>1. PICK x \in T \ {p} : \A y \in T \ {p} : x <= y
      BY <2>1, <2>3
    <3>2. CASE x <= p
      BY <3>1, <3>2
    <3>3. CASE p <= x
      <4>1. \A y \in T : p <= y
        BY <3>1, <3>3
      <4> QED BY <4>1
    <3> QED BY <3>1, <3>2, <3>3
  <2> QED BY <2>2, <2>3
<1>4. S \in Good
  <2> HIDE DEF Good
  <2> QED BY <1>3, SubsetInduction
<1>5. First(S) \in S
  BY <1>4 DEF First
<1> QED BY <1>2, <1>5

(* A column or row at a bound or side that its status names                 *)
LEMMA ValueOfInt ==
  ASSUME NEW status, NEW lower \in Limits, NEW upper \in Limits, ProperStatus(status, lower, upper)
  PROVE  ValueOf(status, lower, upper) \in Int
BY DEF ProperStatus, ValueOf, Limits

(* The equations of a basis have a solution in numbers.                     *)
LEMMA SolvedInt ==
  ASSUME NEW a \in [Rows -> [Cols -> Int]], NEW R \in SUBSET Rows, NEW C \in SUBSET Cols,
         Cardinality(C) = Cardinality(R), Determinant(a, R, C) # 0,
         NEW b, \A r \in R : b[r] \in Int, NEW c \in C
  PROVE  Solved(a, R, C, b, c) \in Int
<1> DEFINE r == First(R)
           q == Second(R)
           d == First(C)
           e == Second(C)
           det == Determinant(a, R, C)
<1>1. /\ IsFiniteSet(R) /\ R \subseteq Int /\ Cardinality(R) \in Nat
      /\ IsFiniteSet(C) /\ C \subseteq Int /\ Cardinality(C) \in Nat /\ C # {}
  BY FiniteProgram, FS_CardinalityType
<1>2. R # {}
  BY <1>1, FS_EmptySet
<1>3. r \in R /\ q \in R /\ d \in C /\ e \in C
  BY <1>1, <1>2, FirstAndSecond
<1>4. /\ a[r][c] \in Int /\ a[r][d] \in Int /\ a[r][e] \in Int /\ a[q][d] \in Int /\ a[q][e] \in Int
      /\ b[r] \in Int /\ b[q] \in Int
  BY <1>3
<1>5. CASE Cardinality(R) = 1
  <2>1. C = {d}
    <3>1. PICK x : C = {x}
      BY <1>1, <1>5, FS_Singleton
    <3> HIDE DEF d
    <3> QED BY <1>3, <3>1
  <2>2. c = d
    BY <2>1
  <2>3. det = a[r][d]
    BY <1>2, <1>5 DEF Determinant
  <2>4. Solved(a, R, C, b, c) = Exact(b[r], a[r][c])
    BY <1>5 DEF Solved
  <2> HIDE DEF r, q, d, e, det
  <2>5. a[r][c] # 0
    BY <2>2, <2>3 DEF det
  <2> QED BY <1>4, <2>4, <2>5, ExactInt
<1>6. CASE Cardinality(R) # 1
  <2>1. det = a[r][d] * a[q][e] - a[r][e] * a[q][d]
    BY <1>2, <1>6 DEF Determinant
  <2>2. \/ Solved(a, R, C, b, c) = Exact(b[r] * a[q][e] - b[q] * a[r][e], det)
        \/ Solved(a, R, C, b, c) = Exact(a[r][d] * b[q] - a[q][d] * b[r], det)
    BY <1>6 DEF Solved
  <2> HIDE DEF r, q, d, e
  <2>3. det \in Int
    <3> HIDE DEF det
    <3> QED BY <1>4, <2>1
  <2>4. det # 0
    OBVIOUS
  <2> HIDE DEF det
  <2> DEFINE m == b[r] * a[q][e] - b[q] * a[r][e]
             n == a[r][d] * b[q] - a[q][d] * b[r]
  <2>5. m \in Int /\ n \in Int
    BY <1>4
  <2> HIDE DEF m, n
  <2>6. Exact(m, det) \in Int /\ Exact(n, det) \in Int
    BY <2>3, <2>4, <2>5, ExactInt
  <2> QED BY <2>2, <2>6 DEF m, n
<1> QED BY <1>5, <1>6

(* A basic solution has a value for each column.                            *)
LEMMA BasicPoint ==
  ASSUME NEW lp, WellFormed(lp), NEW C \in SUBSET lp.cols, NEW R \in SUBSET lp.rows,
         Cardinality(C) = Cardinality(R), Determinant(lp.a, R, C) # 0,
         NEW colStatus \in ProperStatuses(lp.cols \ C, lp.lb, lp.ub),
         NEW rowStatus \in ProperStatuses(R, lp.lhs, lp.rhs)
  PROVE  BasicSolution(lp, C, R, colStatus, rowStatus).primal \in Points
<1> DEFINE N == lp.cols \ C
           at == [c \in N |-> ValueOf(colStatus[c], lp.lb[c], lp.ub[c])]
           sum(r) == SumFunctionOnSet([c \in N |-> lp.a[r][c] * at[c]], N)
           b == [r \in R |-> ValueOf(rowStatus[r], lp.lhs[r], lp.rhs[r]) - sum(r)]
           x == [c \in Cols |-> IF c \in C THEN Solved(lp.a, R, C, b, c) ELSE IF c \in lp.cols THEN at[c] ELSE 0]
<1>1. /\ lp.rows \subseteq Rows /\ lp.cols \subseteq Cols /\ lp.a \in [Rows -> [Cols -> Int]]
      /\ lp.lb \in [Cols -> Limits] /\ lp.ub \in [Cols -> Limits]
      /\ lp.lhs \in [Rows -> Limits] /\ lp.rhs \in [Rows -> Limits]
  BY WellFormedFacts
<1>2. BasicSolution(lp, C, R, colStatus, rowStatus).primal = x
  BY DEF BasicSolution
<1>3. \A c \in N : at[c] \in Int
  <2> SUFFICES ASSUME NEW c \in N
               PROVE  at[c] \in Int
    OBVIOUS
  <2>1. ProperStatus(colStatus[c], lp.lb[c], lp.ub[c])
    BY DEF ProperStatuses
  <2>2. lp.lb[c] \in Limits /\ lp.ub[c] \in Limits
    BY <1>1
  <2>3. ValueOf(colStatus[c], lp.lb[c], lp.ub[c]) \in Int
    BY <2>1, <2>2, ValueOfInt
  <2> QED BY <2>3
<1> HIDE DEF at
<1>4. ASSUME NEW r \in R
      PROVE  sum(r) \in Int
  <2> DEFINE f == [c \in N |-> lp.a[r][c] * at[c]]
  <2>1. IsFiniteSet(N) /\ N \subseteq Cols
    BY <1>1, FiniteProgram
  <2>2. \A c \in N : f[c] \in Int
    <3>1. \A c \in N : lp.a[r][c] \in Int /\ at[c] \in Int
      BY <1>1, <1>3, <2>1
    <3> QED BY <3>1
  <2> HIDE DEF f, N
  <2>3. SumFunctionOnSet(f, N) \in Int
    BY <2>1, <2>2, SumInt
  <2> QED BY <2>3 DEF f
<1> HIDE DEF sum
<1>5. \A r \in R : b[r] \in Int
  <2> SUFFICES ASSUME NEW r \in R
               PROVE  b[r] \in Int
    OBVIOUS
  <2>1. ProperStatus(rowStatus[r], lp.lhs[r], lp.rhs[r])
    BY DEF ProperStatuses
  <2>2. lp.lhs[r] \in Limits /\ lp.rhs[r] \in Limits
    BY <1>1
  <2> DEFINE v == ValueOf(rowStatus[r], lp.lhs[r], lp.rhs[r])
  <2>3. v \in Int
    BY <2>1, <2>2, ValueOfInt
  <2>4. b[r] = v - sum(r)
    OBVIOUS
  <2> HIDE DEF v, b
  <2> QED BY <1>4, <2>3, <2>4
<1> HIDE DEF b
<1>6. \A c \in C : Solved(lp.a, R, C, b, c) \in Int
  BY <1>1, <1>5, SolvedInt
<1>7. \A c \in Cols : x[c] \in Int
  BY <1>3, <1>6
<1>8. x \in Points
  BY <1>7 DEF Points
<1> QED BY <1>2, <1>8 DEF b, at, sum

(* A point without a violated bound or side is a solution, and the other    *)
(* way round.                                                               *)
LEMMA FeasibleIsSolution ==
  ASSUME NEW lp, WellFormed(lp), NEW s, s.primal \in Points
  PROVE  PrimalFeasible(lp, s) <=> s.primal \in Solutions(lp)
<1> DEFINE x == s.primal
<1>1. ASSUME NEW c \in lp.cols
      PROVE  Within(lp, x, c) <=> ~(Below(lp.lb[c], x[c]) \/ Above(lp.ub[c], x[c]))
  <2>1. x[c] \in Int /\ lp.lb[c] \in Limits /\ lp.ub[c] \in Limits
    BY WellFormedFacts DEF Points
  <2> QED BY <2>1 DEF Within, Below, Above, Limits
<1>2. ASSUME NEW r \in lp.rows
      PROVE  Fulfilled(lp, x, r) <=> ~(Below(lp.lhs[r], RowValue(lp, x, r)) \/ Above(lp.rhs[r], RowValue(lp, x, r)))
  <2> DEFINE v == RowValue(lp, x, r)
  <2>1. r \in Rows /\ lp.lhs[r] \in Limits /\ lp.rhs[r] \in Limits
    BY WellFormedFacts
  <2>2. v \in Int
    BY <2>1, ValueInt
  <2> HIDE DEF v
  <2>3. (lp.lhs[r] # NoBound => lp.lhs[r] <= v) /\ (lp.rhs[r] # NoBound => v <= lp.rhs[r])
          <=> ~(Below(lp.lhs[r], v) \/ Above(lp.rhs[r], v))
    BY <2>1, <2>2 DEF Below, Above, Limits
  <2> QED BY <2>3 DEF v, Fulfilled
<1>3. (\A c \in lp.cols : Within(lp, x, c)) <=> ~PrimalBoundsViolated(lp, s)
  BY <1>1 DEF PrimalBoundsViolated
<1>4. (\A r \in lp.rows : Fulfilled(lp, x, r)) <=> ~PrimalConstraintViolated(lp, s)
  BY <1>2 DEF PrimalConstraintViolated
<1> QED BY <1>3, <1>4, SolutionParts DEF PrimalFeasible

(* The solver hands over a solution of the program that presolve left.      *)
LEMMA SolveKeepsFeasibleInv ==
  ASSUME FeasibleInv, Solve
  PROVE  FeasibleInv'
<1>1. WellFormed(st.lp) /\ IsLog(st.log)
  BY DEF FeasibleInv, BoundsInv, Reversible
<1>2. PICK C \in SUBSET st.lp.cols, R \in SUBSET st.lp.rows :
        /\ Cardinality(C) = Cardinality(R)
        /\ Determinant(st.lp.a, R, C) # 0
        /\ \E colStatus \in ProperStatuses(st.lp.cols \ C, st.lp.lb, st.lp.ub),
              rowStatus \in ProperStatuses(R, st.lp.lhs, st.lp.rhs) :
             LET s == BasicSolution(st.lp, C, R, colStatus, rowStatus)
             IN PrimalFeasible(st.lp, s) /\ u' = [u EXCEPT !.s = CopyFromReduced(s, calculateBasis)]
  BY DEF Solve
<1>3. PICK colStatus \in ProperStatuses(st.lp.cols \ C, st.lp.lb, st.lp.ub),
           rowStatus \in ProperStatuses(R, st.lp.lhs, st.lp.rhs) :
        LET s == BasicSolution(st.lp, C, R, colStatus, rowStatus)
        IN PrimalFeasible(st.lp, s) /\ u' = [u EXCEPT !.s = CopyFromReduced(s, calculateBasis)]
  BY <1>2
<1> DEFINE s == BasicSolution(st.lp, C, R, colStatus, rowStatus)
<1>4. s.primal \in Points
  BY <1>1, <1>2, BasicPoint
<1>5. "primal" \in DOMAIN s
  BY DEF BasicSolution
<1>6. PrimalFeasible(st.lp, s) /\ u' = [u EXCEPT !.s = CopyFromReduced(s, calculateBasis)]
  BY <1>3
<1> HIDE DEF s
<1>7. s.primal \in Solutions(st.lp)
  BY <1>1, <1>4, <1>6, FeasibleIsSolution
<1>8. HasPoint(u') /\ u'.s.primal = s.primal
  BY <1>5, <1>6 DEF FeasibleInv, HasPoint, CopyFromReduced
<1>9. st' = st /\ next' = Len(st.log) /\ Len(st.log) \in Nat
  BY <1>1, LogDomain DEF Solve
<1>10. ~Skipped(st.log, Len(st.log))
  BY <1>9 DEF Skipped
<1>11. BoundsInv'
  BY SolveKeepsBoundsInv DEF FeasibleInv
<1>12. Carrying(st')
  BY <1>9 DEF FeasibleInv
<1>13. ~(next' < Len(st.log))
  BY <1>9
<1> QED BY <1>4, <1>7, <1>8, <1>9, <1>10, <1>11, <1>12, <1>13 DEF FeasibleInv

-----------------------------------------------------------------------------
(* All steps                                                                *)

(* A step keeps a feasible point feasible.                                  *)
LEMMA FeasibleInvStep ==
  FeasibleInv /\ [Next]_vars => FeasibleInv'
<1> SUFFICES ASSUME FeasibleInv, [Next]_vars PROVE FeasibleInv'
  OBVIOUS
<1>1. BoundsInv /\ BoundsInv' /\ Carrying(st)
  BY BoundsInvStep DEF FeasibleInv
<1>2. CASE \/ SingletonRow \/ RedundantSides \/ EmptyColumn \/ FixToBound \/ FixToInfinity \/ TightenByRow
           \/ SubstituteColumn \/ MakeEquation \/ DeleteParallelRow \/ MergeColumns
  <2>1. phase' \in {"presolve", "infeasible"} /\ u' = u
    BY <1>1, <1>2, ReductionReversible
  <2>2. Carrying(st')
    BY <1>1, <1>2, ReductionCarries
  <2> QED BY <1>1, <2>1, <2>2 DEF FeasibleInv
<1>3. CASE FinishPresolve
  <2>1. Carrying(st')
    BY <1>1, <1>3, ReducedBoundsCarries DEF FinishPresolve, BoundsInv
  <2>2. u' = u /\ phase' = "solve"
    BY <1>3 DEF FinishPresolve
  <2> QED BY <1>1, <2>1, <2>2 DEF FeasibleInv
<1>4. CASE Solve
  BY <1>4, SolveKeepsFeasibleInv
<1>5. CASE UndoNext
  BY <1>5, UndoKeepsFeasibleInv
<1>6. CASE Finished
  <2>1. st' = st /\ u' = u /\ phase' = "done"
    BY <1>6 DEF Finished
  <2> QED BY <1>1, <2>1 DEF FeasibleInv
<1>7. CASE UNCHANGED vars
  BY <1>1, <1>7 DEF vars, FeasibleInv
<1> QED BY <1>2, <1>3, <1>4, <1>5, <1>6, <1>7 DEF Next

(* At all times the records lead back from each solution of the program     *)
(* that is left, and on the way back the point owes nothing it cannot pay.  *)
THEOREM FeasibleInvariant == Spec => []FeasibleInv
<1> QED BY FeasibleInvInit, FeasibleInvStep, PTL DEF Spec

(* Undoing a record of postsolve gives a feasible point of the program      *)
(* before it, whatever was reduced and however it was solved.               *)
THEOREM StepsStayFeasible == Spec => []StepFeasible
<1>1. FeasibleInv => StepFeasible
  <2> SUFFICES ASSUME FeasibleInv, AtProgram
               PROVE  PrimalFeasible(Program, u.s)
    BY DEF StepFeasible
  <2>1. u.s.primal \in Solutions(st.log[next + 1].before)
    BY DEF FeasibleInv, AtProgram, Owed
  <2>2. WellFormed(st.log[next + 1].before)
    <3>1. Reversible(st) /\ next \in 0..Len(st.log) /\ next < Len(st.log) /\ Len(st.log) \in Nat
      BY DEF FeasibleInv, BoundsInv, AtProgram, Reversible, IsLog
    <3>2. next + 1 \in 1..Len(st.log)
      BY <3>1
    <3> QED BY <3>1, <3>2 DEF Reversible
  <2>3. u.s.primal \in Points
    BY DEF FeasibleInv
  <2> DEFINE lp == st.log[next + 1].before
  <2>4. lp = Program
    BY DEF Program
  <2> HIDE DEF lp
  <2>5. u.s.primal \in Solutions(lp) /\ WellFormed(lp)
    BY <2>1, <2>2 DEF lp
  <2>6. PrimalFeasible(lp, u.s)
    BY <2>3, <2>5, FeasibleIsSolution
  <2> QED BY <2>4, <2>6
<1> QED BY <1>1, FeasibleInvariant, PTL

(* The part of Accepted that is about the point                             *)
FeasibleInTheEnd == phase = "done" /\ ~u.broken => Original \in Problems /\ PrimalFeasible(Original, u.s)

(* The point presolve ends with is one of the original problem, unless a    *)
(* saved row was missed on the way.                                         *)
THEOREM DeliversFeasible == Spec => []FeasibleInTheEnd
<1>1. Init => FeasibleInTheEnd
  BY DEF Init, FeasibleInTheEnd
<1>2. BoundsInv /\ StepFeasible /\ FeasibleInTheEnd /\ [Next]_vars => FeasibleInTheEnd'
  <2> SUFFICES ASSUME BoundsInv, StepFeasible, FeasibleInTheEnd, [Next]_vars, phase' = "done", ~u'.broken
               PROVE  FeasibleInTheEnd'
    BY DEF FeasibleInTheEnd
  <2>1. CASE Finished
    <3>1. phase = "undo" /\ next = 0 /\ st' = st /\ u' = u
      BY <2>1 DEF Finished
    <3>2. IsLog(st.log) /\ Len(st.log) > 0
      BY <3>1 DEF BoundsInv, Reversible
    <3>3. ~BelongsToSubstitution(st.log, 1)
      <4>1. DOMAIN st.log = 1..Len(st.log)
        BY <3>2, LogDomain
      <4>2. TypeAt(st.log, 0) = "none"
        BY <4>1 DEF TypeAt
      <4> QED BY <4>2 DEF BelongsToSubstitution
    <3>4. AtProgram /\ Program = Original
      BY <3>1, <3>2, <3>3 DEF AtProgram, Program, Original
    <3>5. Original \in Problems
      BY <3>2 DEF BoundsInv, Reversible, BeganWith, Original
    <3> QED BY <3>1, <3>4, <3>5 DEF FeasibleInTheEnd, StepFeasible, Original
  <2>2. CASE UNCHANGED vars
    BY <2>2 DEF vars, FeasibleInTheEnd, Original
  <2>3. CASE \/ SingletonRow \/ RedundantSides \/ EmptyColumn \/ FixToBound \/ FixToInfinity \/ TightenByRow
             \/ SubstituteColumn \/ MakeEquation \/ DeleteParallelRow \/ MergeColumns
    BY <2>3, ReductionReversible
  <2>4. ~FinishPresolve /\ ~Solve /\ ~UndoNext
    BY DEF FinishPresolve, Solve, UndoNext
  <2> QED BY <2>1, <2>2, <2>3, <2>4 DEF Next
<1> QED BY <1>1, <1>2, BoundsInvariant, StepsStayFeasible, PTL DEF Spec
=============================================================================
