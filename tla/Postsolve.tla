------------------------------- MODULE Postsolve -------------------------------
(***************************************************************************)
(* Undoing reductions on a primal solution (core/postsolve/Postsolve.hpp). *)
(* PostsolveStorage is a sequence of records, oldest first:                *)
(*   [type |-> "fixed", col, val]        a column fixed to val             *)
(*   [type |-> "parallel", ...]          col1 merged into col2, which now  *)
(*                                       stands for col2 + scale * col1    *)
(*   [type |-> "subst", col, coefs, side]    col replaced by an equation   *)
(*   [type |-> "fixedInf", col, up, ...]     col moved to infinity, with   *)
(*                                       the rows that fell with it        *)
(* A parallel record carries the bounds, the infinity flags and the        *)
(* integrality of both columns at the time of the merge.  Values are       *)
(* counted in units of 1/Unit, so that half-integral values of continuous  *)
(* columns can be told from integral ones; scale is a plain integer.       *)
(***************************************************************************)
EXTENDS Integers, Sequences, SequencesExt

CONSTANT Unit

ASSUME UnitAssumption == Unit \in Nat \ {0}

Integral(v) == v % Unit = 0
Abs(n) == IF n < 0 THEN -n ELSE n
FloorOf(n, k) == IF k < 0 THEN (-n) \div (-k) ELSE n \div k
(* num.round(n / k) = floor(n / k + 1/2)                                     *)
RoundOf(n, k) == FloorOf(2 * n + k, 2 * k)
Clamp0(lo, hi) == IF hi < 0 THEN hi ELSE IF lo > 0 THEN lo ELSE 0

(* Both columns integral: take col1 as close to 0 as its bounds allow; if   *)
(* that pushes col2 over a bound, move col2 next to this bound.             *)
SplitIntegral(r, solval) ==
  LET x == solval \div Unit
      lb2 == r.lb2 \div Unit
      ub2 == r.ub2 \div Unit
      first == Clamp0(r.lb1 \div Unit, r.ub1 \div Unit)
      rest == x - r.scale * first
      val1 == IF rest < lb2 THEN RoundOf(1 - Abs(r.scale) + 2 * (x - lb2), 2 * r.scale)
              ELSE IF rest > ub2 THEN RoundOf(Abs(r.scale) - 1 + 2 * (x - ub2), 2 * r.scale)
              ELSE first
  IN [val1 |-> val1 * Unit, val2 |-> (x - r.scale * val1) * Unit]

(* col1 continuous: guess col2 on a bound and give col1 the rest, or        *)
(* col1 on its bound and col2 the rest.  An integral col2 is then rounded   *)
(* away from the guess, and col1 computed again.                            *)
Guess(r) == IF ~r.lbInf2 THEN r.lb2 ELSE IF ~r.ubInf2 THEN r.ub2 ELSE 0

RoundAway(v, guess) == IF v > guess THEN FloorOf(v + Unit - 1, Unit) * Unit
                                    ELSE FloorOf(v, Unit) * Unit

(* The value of col1 is taken as the value of col2 = 0 leaves it.           *)
SplitContinuousFromZero(r, solval) ==
  LET quotient == FloorOf(solval, r.scale)
      val1 == IF ~r.lbInf1 /\ quotient < r.lb1 THEN r.lb1
              ELSE IF ~r.ubInf1 /\ quotient > r.ub1 THEN r.ub1 ELSE quotient
  IN [val1 |-> val1, val2 |-> IF val1 = quotient THEN Guess(r) ELSE solval - r.scale * val1]

SplitContinuous(r, solval) ==
  LET quotient == FloorOf(solval - Guess(r), r.scale)
      low == ~r.lbInf1 /\ quotient < r.lb1
      high == ~r.ubInf1 /\ quotient > r.ub1
      val1 == IF low THEN r.lb1 ELSE IF high THEN r.ub1 ELSE quotient
      val2 == IF low \/ high THEN solval - r.scale * val1 ELSE Guess(r)
  IN IF r.int2 /\ ~Integral(val2)
     THEN [val1 |-> solval - val1 * r.scale, val2 |-> RoundAway(val2, Guess(r))]
     ELSE [val1 |-> val1, val2 |-> val2]

Split(r, solval) ==
  IF r.int1 THEN SplitIntegral(r, solval) ELSE SplitContinuous(r, solval)

-----------------------------------------------------------------------------

UndoFixed(x, r) == [x EXCEPT ![r.col] = r.val]

UndoParallel(x, r) ==
  LET split == Split(r, x[r.col2])
  IN [x EXCEPT ![r.col1] = split.val1, ![r.col2] = split.val2]

(* A substituted column takes the value its equation leaves it, with plain  *)
(* integer coefficients.                                                    *)
Others(coefs, x, col) ==
  MapThenSumSet(LAMBDA c : coefs[c] * x[c], {c \in DOMAIN coefs : coefs[c] # 0} \ {col})
UndoSubstitutedWithoutSide(x, r) ==
  [x EXCEPT ![r.col] = FloorOf(-Others(r.coefs, x, r.col), r.coefs[r.col])]

UndoSubstituted(x, r) ==
  [x EXCEPT ![r.col] = FloorOf(r.side * Unit - Others(r.coefs, x, r.col), r.coefs[r.col])]

(* A column fixed to infinity starts at its bound and moves until every row *)
(* it was in holds; an integral one is then rounded to the safe side.       *)
LeftByRow(e, x, r) ==
  LET atRhs == (e.coefs[r.col] > 0) <=> ~r.up
  IN (IF atRhs THEN e.row.rhs ELSE e.row.lhs) * Unit - Others(e.coefs, x, r.col)
UndoFixedInfinity(x, r) ==
  LET start == IF r.boundInf THEN 0 ELSE r.bound * Unit
      floors == {FloorOf(LeftByRow(e, x, r), e.coefs[r.col]) : e \in r.rows}
      ceils == {-FloorOf(-LeftByRow(e, x, r), e.coefs[r.col]) : e \in r.rows}
  IN [x EXCEPT ![r.col] = IF r.up THEN Max({start} \cup ceils) ELSE Min({start} \cup floors)]

(* The records are undone from the last one stored to the first.            *)
UndoOne(x, r) == CASE r.type = "fixed" -> UndoFixed(x, r)
                   [] r.type = "fixedInf" -> UndoFixedInfinity(x, r)
                   [] r.type = "subst" -> UndoSubstituted(x, r)
                   [] r.type = "parallel" -> UndoParallel(x, r)
UndoOldestFirst(storage, x) == FoldLeft(UndoOne, x, storage)
Undo(storage, x) == FoldLeft(UndoOne, x, Reverse(storage))

(* What undo starts from: the reduced solution at the columns that are left *)
(* and 0 elsewhere.                                                         *)
CopyFromReduced(x, left) == [c \in DOMAIN x |-> IF c \in left THEN x[c] ELSE 0]
===============================================================================
