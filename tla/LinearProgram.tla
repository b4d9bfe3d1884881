---------------------------- MODULE LinearProgram ----------------------------
(***************************************************************************)
(* A linear program, a primal-dual solution of it with a basis, and the    *)
(* tests PaPILO puts such a solution to (misc/PrimalDualSolValidation).     *)
(*                                                                         *)
(*   lp   [rows, cols    the rows and columns that are still there,        *)
(*         lb, ub, obj   by column,    lhs, rhs   by row,                  *)
(*         a             by row and column]                                *)
(*   s    [primal, rc, varBasis   by column,   dual, rowBasis   by row,    *)
(*         basis                  whether the statuses are kept at all]    *)
(*                                                                         *)
(* NoBound stands for the infinity flags.  Numbers are exact: every bound, *)
(* side and objective coefficient is a multiple of Unit, coefficients are  *)
(* 0, 1 or -1, so that values and prices of bases stay integral.           *)
(***************************************************************************)
EXTENDS Integers, FiniteSets, FiniteSetsExt, Functions

CONSTANTS
  NRows, NCols,  \* size of the original problem
  NoBound        \* no bound, no side

ASSUME ProgramAssumption == NRows \in Nat \ {0} /\ NCols \in Nat \ {0} /\ NoBound \notin Int

Rows == 1..NRows
Cols == 1..NCols
Statuses == {"basic", "fixed", "onLower", "onUpper", "zero", "undefined"}

At(bound, v) == bound # NoBound /\ v = bound
Below(bound, v) == bound # NoBound /\ v < bound
Above(bound, v) == bound # NoBound /\ v > bound

RowCols(lp, r) == {c \in lp.cols : lp.a[r][c] # 0}
ColRows(lp, c) == {r \in lp.rows : lp.a[r][c] # 0}

RowValue(lp, x, r) == SumFunctionOnSet([c \in lp.cols |-> lp.a[r][c] * x[c]], lp.cols)
ColValue(lp, y, c) == SumFunctionOnSet([r \in lp.rows |-> lp.a[r][c] * y[r]], lp.rows)

-----------------------------------------------------------------------------
(* The tests of PrimalDualSolValidation: TRUE is a violation.               *)

PrimalBoundsViolated(lp, s) ==
  \E c \in lp.cols : Below(lp.lb[c], s.primal[c]) \/ Above(lp.ub[c], s.primal[c])

PrimalConstraintViolated(lp, s) ==
  \E r \in lp.rows : LET v == RowValue(lp, s.primal, r)
                     IN Below(lp.lhs[r], v) \/ Above(lp.rhs[r], v)

DualFeasibilityViolated(lp, s) ==
  \E c \in lp.cols : ColValue(lp, s.dual, c) + s.rc[c] # lp.obj[c]

(* Rows are tested for a price although their value is on the wrong side    *)
(* of both sides; rows without a left-hand side are not tested at all.      *)
RowSlacknessViolated(lp, s, r) ==
  LET v == RowValue(lp, s.primal, r)
  IN /\ lp.lhs[r] # NoBound
     /\ lp.lhs[r] > v
     /\ lp.rhs[r] # NoBound => lp.rhs[r] < v
     /\ s.dual[r] # 0

ColSlacknessViolated(lp, s, c) ==
  /\ lp.lb[c] # NoBound \/ lp.ub[c] # NoBound
  /\ lp.lb[c] # NoBound => s.primal[c] > lp.lb[c]
  /\ lp.ub[c] # NoBound => s.primal[c] < lp.ub[c]
  /\ s.rc[c] # 0

ComplementarySlacknessViolated(lp, s) ==
  \/ \E r \in lp.rows : RowSlacknessViolated(lp, s, r)
  \/ \E c \in lp.cols : ColSlacknessViolated(lp, s, c)

(* A status fits a value between its bounds and its price.                  *)
StatusFits(status, lower, upper, v, price) ==
  \/ status = "basic" /\ price = 0
  \/ status = "fixed" /\ At(lower, v) /\ At(upper, v)
  \/ status = "onLower" /\ At(lower, v)
  \/ status = "onUpper" /\ At(upper, v)
  \/ status = "zero" /\ lower = NoBound /\ upper = NoBound /\ v = 0

BasisViolated(lp, s) ==
  /\ s.basis
  /\ \/ \E c \in lp.cols : ~StatusFits(s.varBasis[c], lp.lb[c], lp.ub[c], s.primal[c], s.rc[c])
     \/ \E r \in lp.rows : ~StatusFits(s.rowBasis[r], lp.lhs[r], lp.rhs[r], RowValue(lp, s.primal, r), s.dual[r])
     \/ Cardinality({c \in lp.cols : s.varBasis[c] = "basic"})
          + Cardinality({r \in lp.rows : s.rowBasis[r] = "basic"}) # Cardinality(lp.rows)

VerifySolution(lp, s) ==
  IF \/ PrimalBoundsViolated(lp, s)
     \/ PrimalConstraintViolated(lp, s)
     \/ DualFeasibilityViolated(lp, s)
     \/ ComplementarySlacknessViolated(lp, s)
     \/ BasisViolated(lp, s)
  THEN "failed" ELSE "ok"

-----------------------------------------------------------------------------
(* What a primal-dual solution has to fulfil.                               *)

PrimalFeasible(lp, s) == ~PrimalBoundsViolated(lp, s) /\ ~PrimalConstraintViolated(lp, s)

(* A price pulls only at a bound that is reached.                           *)
PriceFits(lower, upper, v, price) ==
  (price > 0 => At(lower, v)) /\ (price < 0 => At(upper, v))

DualOptimal(lp, s) ==
  /\ ~DualFeasibilityViolated(lp, s)
  /\ \A c \in lp.cols : PriceFits(lp.lb[c], lp.ub[c], s.primal[c], s.rc[c])
  /\ \A r \in lp.rows : PriceFits(lp.lhs[r], lp.rhs[r], RowValue(lp, s.primal, r), s.dual[r])
==============================================================================
