---------------------------- MODULE DualPostsolve ----------------------------
(***************************************************************************)
(* Undoing the reductions of a linear program on a primal-dual solution    *)
(* with a basis (core/postsolve/Postsolve.hpp, SavedRow.hpp and             *)
(* BoundStorage.hpp).                                                       *)
(*                                                                         *)
(* u = [s, stored, broken]; stored keeps the bounds of the columns as they *)
(* were at the record that is undone, by column; broken tells that a saved *)
(* row was looked for where there is none, which the code asserts not to    *)
(* happen.                                                                 *)
(***************************************************************************)
EXTENDS DualReductions

(* The split of a merged column is that of primal postsolve.                *)
Primal == INSTANCE Postsolve

(* An infinite bound is stored as 0 next to its flag.                       *)
Number(bound) == IF bound = NoBound THEN 0 ELSE bound

Scalar(coefs, x) == SumFunctionOnSet([k \in DOMAIN coefs |-> coefs[k] * x[k]], DOMAIN coefs)

(* Where a value lies between its bounds: getVBS, get_var_basis_status      *)
StatusAt(lower, upper, v) ==
  IF At(upper, v) THEN IF At(lower, v) THEN "fixed" ELSE "onUpper"
  ELSE IF At(lower, v) THEN "onLower"
  ELSE IF lower = NoBound /\ upper = NoBound /\ v = 0 THEN "zero" ELSE "basic"

(* Mutant: the bounds change places.                                        *)
StoreBoundsSwapped(stored, c, lower, upper) == [stored EXCEPT !.lb[c] = upper, !.ub[c] = lower]

StoreBounds(stored, c, lower, upper) == [stored EXCEPT !.lb[c] = lower, !.ub[c] = upper]

-----------------------------------------------------------------------------
(* Start: the solution of the reduced problem on the original indices       *)

CopyFromReduced(s, calculateBasis) == [s EXCEPT !.basis = @ /\ calculateBasis]

UndoReducedBounds(u, rec) ==
  [u EXCEPT !.stored.lb = [c \in Cols |-> IF c \in rec.cols THEN rec.lb[c] ELSE @[c]],
            !.stored.ub = [c \in Cols |-> IF c \in rec.cols THEN rec.ub[c] ELSE @[c]]]

-----------------------------------------------------------------------------
(* Fixed columns                                                            *)

UndoFixedCol(u, rec) ==
  [u EXCEPT !.s.primal[rec.col] = rec.val,
            !.s.rc[rec.col] = rec.obj - Scalar(rec.coefs, u.s.dual),
            !.s.varBasis[rec.col] = IF u.s.basis THEN "fixed" ELSE @,
            !.stored = StoreBounds(@, rec.col, rec.val, rec.val)]

(* The value at which a row that fell with the column is just fulfilled     *)
ValueForRow(rec, row, x) ==
  LET coef == row.coefs[rec.col]
      side == IF (coef > 0) <=> rec.up THEN row.lhs ELSE row.rhs
  IN Exact(Number(side) - Scalar(row.coefs, [x EXCEPT ![rec.col] = 0]), coef)

(* Mutant: the value of the last row, not the farthest.                     *)
FulfilRowLast(s, rec, row) ==
  [s EXCEPT !.primal[rec.col] = ValueForRow(rec, row, s.primal)]

(* One row: the value moves on if the row asks for it, and the row is then  *)
(* taken off the basis; otherwise the row is basic.                         *)
FulfilRow(s, rec, row) ==
  LET v == ValueForRow(rec, row, s.primal)
      further == IF rec.up THEN v > s.primal[rec.col] ELSE v < s.primal[rec.col]
      reached == IF (row.coefs[rec.col] > 0) <=> rec.up THEN "onLower" ELSE "onUpper"
  IN [s EXCEPT !.primal[rec.col] = IF further THEN v ELSE @,
               !.rowBasis[row.row] = IF ~s.basis THEN @ ELSE IF further THEN reached ELSE "basic"]

UndoFixedInf(u, rec) ==
  LET bound == Number(rec.bound)
      s == FoldLeft(LAMBDA t, row : FulfilRow(t, rec, row),
                    [u.s EXCEPT !.primal[rec.col] = bound], rec.rows)
      price == [i \in DOMAIN rec.rows |-> rec.rows[i].coefs[rec.col] * s.dual[rec.rows[i].row]]
  IN [u EXCEPT !.s = [s EXCEPT !.rc[rec.col] = -FoldLeft(+, 0, price),
                               !.varBasis[rec.col] =
                                 IF ~s.basis THEN @
                                 ELSE IF rec.rows = <<>> /\ rec.bound = NoBound THEN "zero"
                                 ELSE IF s.primal[rec.col] # bound THEN "basic"
                                 ELSE IF rec.up THEN "onLower" ELSE "onUpper"],
               !.stored = IF rec.up THEN StoreBounds(@, rec.col, rec.bound, NoBound)
                                    ELSE StoreBounds(@, rec.col, NoBound, rec.bound)]

-----------------------------------------------------------------------------
(* Bounds of columns.  The row a bound came from was saved one or two       *)
(* records before.                                                          *)

IsSavedRow(log, i) == i \in DOMAIN log /\ log[i].rec.type = "saveRow"
HasSavedRow(log, i) == IsSavedRow(log, i - 1) \/ IsSavedRow(log, i - 2)
SavedRow(log, i) == IF IsSavedRow(log, i - 1) THEN log[i - 1].rec.saved ELSE log[i - 2].rec.saved

StatusOfSaved(saved, x) == StatusAt(saved.lhs, saved.rhs, Scalar(saved.coefs, x))

(* The column is held by a bound that is loosened now: its price goes to    *)
(* the row, and the column becomes basic in the place of the row or of the  *)
(* columns that get a price by it.                                          *)
PriceToRow(u, c, saved) ==
  LET s == u.s
      by == Exact(s.rc[c], saved.coefs[c])
      r == saved.row
      others == DOMAIN saved.coefs \ {c}
      dual == s.dual[r] + by
      rc == [d \in Cols |-> IF d = c THEN 0 ELSE IF d \in others THEN s.rc[d] - by * saved.coefs[d] ELSE s.rc[d]]
      rowLeaves == s.basis /\ s.rowBasis[r] = "basic" /\ dual # 0
      leaving == {d \in others : s.basis /\ s.varBasis[d] = "basic" /\ rc[d] # 0}
      Status(d) == IF d \in leaving THEN StatusAt(u.stored.lb[d], u.stored.ub[d], s.primal[d])
                   ELSE IF d = c /\ (rowLeaves \/ leaving # {}) THEN "basic" ELSE s.varBasis[d]
  IN [u EXCEPT !.s = [s EXCEPT !.dual[r] = dual, !.rc = rc,
                               !.rowBasis[r] = IF rowLeaves THEN StatusOfSaved(saved, s.primal) ELSE @,
                               !.varBasis = [d \in Cols |-> Status(d)]]]

(* Mutant: the row stays in the basis.                                      *)
EnterBesideRow(u, c, saved) == [u EXCEPT !.s.varBasis[c] = "basic"]

(* A column that is not on its bound any more enters the basis in the place *)
(* of the saved row.                                                        *)
EnterForRow(u, c, saved) ==
  [u EXCEPT !.s.varBasis[c] = "basic", !.s.rowBasis[saved.row] = StatusOfSaved(saved, u.s.primal)]

LoosenStatus(u, rec, log, i) ==
  LET c == rec.col
      status == u.s.varBasis[c]
      free == u.stored.lb[c] = NoBound /\ u.stored.ub[c] = NoBound
      held == status = IF rec.isLower THEN "onLower" ELSE "onUpper"
  IN IF ~u.s.basis THEN u
     ELSE IF status = "fixed" THEN [u EXCEPT !.s.varBasis[c] = IF rec.isLower THEN "onUpper" ELSE "onLower"]
     ELSE IF status \in {"onLower", "onUpper"} /\ free /\ u.s.primal[c] = 0 THEN [u EXCEPT !.s.varBasis[c] = "zero"]
     ELSE IF ~held THEN u
     ELSE IF HasSavedRow(log, i) THEN EnterForRow(u, c, SavedRow(log, i)) ELSE [u EXCEPT !.broken = TRUE]

UndoVarBoundChange(u, rec, log, i) ==
  LET c == rec.col
      loosened == IF rec.isLower THEN [u EXCEPT !.stored.lb[c] = rec.old] ELSE [u EXCEPT !.stored.ub[c] = rec.old]
      held == /\ rec.new = u.s.primal[c]
              /\ IF rec.isLower THEN u.s.rc[c] > 0 ELSE u.s.rc[c] < 0
  IN IF ~held THEN LoosenStatus(loosened, rec, log, i)
     ELSE IF HasSavedRow(log, i) THEN LoosenStatus(PriceToRow(loosened, c, SavedRow(log, i)), rec, log, i)
     ELSE [loosened EXCEPT !.broken = TRUE]

-----------------------------------------------------------------------------
(* Substituted columns                                                      *)

SolveEquation(rec, x) ==
  LET coefs == rec.equation.coefs
  IN Exact(rec.equation.rhs - Scalar(coefs, [x EXCEPT ![rec.col] = 0]), coefs[rec.col])

(* Mutant: the price the row has now is forgotten.                          *)
UndoOnBoundAnew(s, rec, status) ==
  LET r == rec.equation.row
      dual == [s.dual EXCEPT ![r] = Exact(rec.obj, rec.equation.coefs[rec.col])]
  IN [s EXCEPT !.dual = dual, !.rc[rec.col] = rec.obj - Scalar(rec.coefs, dual)]

(* On a bound: the row gets back the price it had before the objective was  *)
(* substituted, the column keeps what is left.                              *)
UndoOnBound(s, rec, status) ==
  LET r == rec.equation.row
      coef == rec.equation.coefs[rec.col]
      dual == [s.dual EXCEPT ![r] = @ + Exact(rec.obj, coef)]
      enters == s.rowBasis[r] = "basic" /\ dual[r] # 0
  IN [s EXCEPT !.dual = dual, !.rc[rec.col] = rec.obj - Scalar(rec.coefs, dual),
               !.varBasis[rec.col] = IF ~s.basis THEN @ ELSE IF enters THEN "basic" ELSE status,
               !.rowBasis[r] = IF s.basis /\ enters THEN "fixed" ELSE @]

(* Between its bounds: the column has no price, which gives that of the row *)
UndoBetweenBounds(s, rec) ==
  LET r == rec.equation.row
  IN [s EXCEPT !.rc[rec.col] = 0,
               !.dual[r] = Exact(rec.obj - Scalar(rec.coefs, [s.dual EXCEPT ![r] = 0]), rec.coefs[r]),
               !.varBasis[rec.col] = IF s.basis THEN "basic" ELSE @,
               !.rowBasis[r] = IF s.basis THEN "fixed" ELSE @]

UndoSubstituted(u, rec) ==
  LET v == SolveEquation(rec, u.s.primal)
      s == [u.s EXCEPT !.primal[rec.col] = v]
  IN [u EXCEPT !.stored = StoreBounds(@, rec.col, rec.lb, rec.ub),
               !.s = IF At(rec.lb, v) \/ At(rec.ub, v) THEN UndoOnBound(s, rec, StatusAt(rec.lb, rec.ub, v))
                     ELSE UndoBetweenBounds(s, rec)]

(* The records that follow a substitution belong to it: they do not touch   *)
(* the basis, and what they leave is not the solution of a program.         *)
TypeAt(log, i) == IF i \in DOMAIN log THEN log[i].rec.type ELSE "none"

BelongsToSubstitution(log, i) ==
  LET rec == log[i].rec
  IN CASE rec.type = "rowBoundChange" ->
            \/ /\ TypeAt(log, i - 1) = "coefficientChange" /\ TypeAt(log, i - 2) = "substituted"
               /\ rec.row = log[i - 1].rec.row /\ rec.row = log[i - 2].rec.equation.row
            \/ /\ TypeAt(log, i - 1) = "rowBoundChange"
               /\ TypeAt(log, i - 2) = "coefficientChange" /\ TypeAt(log, i - 3) = "substituted"
               /\ \A k \in 1..2 : rec.row = log[i - k].rec.row
               /\ rec.row = log[i - 3].rec.equation.row
       [] rec.type \in {"coefficientChange", "redundantRow"} -> TypeAt(log, i - 1) = "substituted"
       [] OTHER -> FALSE

-----------------------------------------------------------------------------
(* Rows                                                                     *)

(* Mutant: a row that comes back gets no status.                            *)
UndoRedundantRowSilently(u, rec) == u

UndoRedundantRow(u, rec) == [u EXCEPT !.s.rowBasis[rec.row] = IF u.s.basis THEN "basic" ELSE @]

(* A side comes back: an equation is at its other side, a row at this side  *)
(* was basic.                                                               *)
UndoRowBoundChange(u, rec) ==
  LET status == u.s.rowBasis[rec.row]
      back == IF status = "fixed" THEN IF rec.isLhs THEN "onUpper" ELSE "onLower"
              ELSE IF status = (IF rec.isLhs THEN "onLower" ELSE "onUpper") THEN "basic" ELSE status
  IN [u EXCEPT !.s.rowBasis[rec.row] = IF u.s.basis THEN back ELSE @]

Mirrored(status) == IF status = "onLower" THEN "onUpper" ELSE IF status = "onUpper" THEN "onLower" ELSE status

(* Statuses of the remaining and the deleted parallel row when the price    *)
(* goes to the deleted one.                                                 *)
StatusesWithPrice(isLhs, factor, remained, deleted) ==
  IF remained = "fixed"
  THEN [deleted |-> IF isLhs <=> (factor < 0) THEN "onUpper" ELSE "onLower", remained |-> "basic"]
  ELSE IF ~isLhs /\ deleted # "undefined" /\ remained = "basic"
  THEN [deleted |-> "fixed", remained |-> remained]
  ELSE [deleted |-> IF factor > 0 THEN remained
                    ELSE IF remained \in {"onLower", "onUpper"} THEN Mirrored(remained) ELSE deleted,
        remained |-> "basic"]

(* ... and when the side had no price.                                      *)
StatusesWithoutPrice(isLhs, remained, deleted) ==
  IF remained \in (IF isLhs THEN {"onLower", "zero"} ELSE {"onUpper"})
  THEN [deleted |-> remained, remained |-> "basic"]
  ELSE [deleted |-> deleted,
        remained |-> IF remained # "fixed" THEN remained ELSE IF isLhs THEN "onUpper" ELSE "onLower"]

UndoForcedByRow(u, rec, reason) ==
  LET s == u.s
      price == s.dual[rec.row]
      pulls == IF rec.isLhs THEN price > 0 ELSE price < 0
      old == [remained |-> s.rowBasis[rec.row], deleted |-> s.rowBasis[reason.deleted]]
      new == IF pulls THEN StatusesWithPrice(rec.isLhs, reason.factor, old.remained, old.deleted)
             ELSE StatusesWithoutPrice(rec.isLhs, old.remained, old.deleted)
      status == IF s.basis THEN new ELSE old
  IN [u EXCEPT !.s.dual = IF pulls THEN [@ EXCEPT ![reason.deleted] = price * reason.factor, ![rec.row] = 0] ELSE @,
               !.s.rowBasis = [@ EXCEPT ![rec.row] = status.remained, ![reason.deleted] = status.deleted]]

-----------------------------------------------------------------------------
(* Parallel columns                                                         *)

WithFlags(rec) ==
  [lb1 |-> Number(rec.lb1), lbInf1 |-> rec.lb1 = NoBound, ub1 |-> Number(rec.ub1), ubInf1 |-> rec.ub1 = NoBound,
   lb2 |-> Number(rec.lb2), lbInf2 |-> rec.lb2 = NoBound, ub2 |-> Number(rec.ub2), ubInf2 |-> rec.ub2 = NoBound,
   int1 |-> FALSE, int2 |-> FALSE, scale |-> rec.scale]

(* calculate_basis                                                          *)
SplitStatus(lower, upper, v, onBounds) ==
  IF ~onBounds THEN "basic"
  ELSE IF At(upper, v) THEN "onUpper"
  ELSE IF lower = NoBound /\ upper = NoBound /\ v = 0 THEN "zero"
  ELSE IF At(lower, v) THEN "onLower" ELSE "undefined"

(* The code looks at the infinity flags of the first column for both.       *)
OnBounds(rec, lower, upper, v) ==
  (rec.ub1 # NoBound /\ v = Number(upper)) \/ (rec.lb1 # NoBound /\ v = Number(lower))

UndoParallelCol(u, rec) ==
  LET s == u.s
      val == Primal!SplitContinuous(WithFlags(rec), s.primal[rec.col2])
      on1 == OnBounds(rec, rec.lb1, rec.ub1, val.val1)
      on2 == OnBounds(rec, rec.lb2, rec.ub2, val.val2)
      price1 == IF on1 /\ on2 /\ s.rc[rec.col2] # 0 THEN s.rc[rec.col2] * rec.scale ELSE s.rc[rec.col1]
      price2 == IF on1 /\ on2 /\ s.rc[rec.col2] = 0 THEN Exact(s.rc[rec.col1], rec.scale) ELSE s.rc[rec.col2]
      keeps == on1 /\ on2 /\ s.varBasis[rec.col2] = "basic"
      status1 == SplitStatus(rec.lb1, rec.ub1, val.val1, on1)
      status2 == IF keeps THEN "basic" ELSE SplitStatus(rec.lb2, rec.ub2, val.val2, on2)
  IN [u EXCEPT !.s.primal = [@ EXCEPT ![rec.col1] = val.val1, ![rec.col2] = val.val2],
               !.s.rc = [@ EXCEPT ![rec.col1] = price1, ![rec.col2] = price2],
               !.s.varBasis = IF s.basis THEN [@ EXCEPT ![rec.col1] = status1, ![rec.col2] = status2] ELSE @,
               !.stored = StoreBounds(StoreBounds(@, rec.col1, rec.lb1, rec.ub1), rec.col2, rec.lb2, rec.ub2)]

-----------------------------------------------------------------------------
(* One turn of the loop of undo: record i, and with a column fixed to       *)
(* infinity the rows it left redundant.                                     *)

UndoRecord(u, log, i) ==
  LET rec == log[i].rec
  IN CASE rec.type = "fixedCol" -> UndoFixedCol(u, rec)
       [] rec.type = "fixedInf" -> UndoFixedInf(u, rec)
       [] rec.type = "varBoundChange" -> UndoVarBoundChange(u, rec, log, i)
       [] rec.type = "substituted" -> UndoSubstituted(u, rec)
       [] rec.type = "parallelCol" -> UndoParallelCol(u, rec)
       [] rec.type = "forcedByRow" -> UndoForcedByRow(u, rec, log[i - 1].rec)
       [] rec.type = "rowBoundChange" -> IF BelongsToSubstitution(log, i) THEN u ELSE UndoRowBoundChange(u, rec)
       [] rec.type = "reducedBounds" -> UndoReducedBounds(u, rec)
       [] rec.type = "redundantRow" -> UndoRedundantRow(u, rec)
       [] OTHER -> u

(* Mutant: one row too many is skipped.                                     *)
RecordsUndoneAndNext(log, i) == IF log[i].rec.type = "fixedInf" THEN 2 + Len(log[i].rec.rows) ELSE 1

RecordsUndone(log, i) == IF log[i].rec.type = "fixedInf" THEN 1 + Len(log[i].rec.rows) ELSE 1
==============================================================================
