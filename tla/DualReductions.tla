---------------------------- MODULE DualReductions ----------------------------
(***************************************************************************)
(* Reductions of a linear program with dual postsolve (PostsolveType       *)
(* kFull): what ProblemUpdate changes and which records it leaves in the    *)
(* PostsolveStorage.                                                       *)
(*                                                                         *)
(* st = [lp, log]; log is the storage, oldest record first, each entry     *)
(* [rec, before]: the record and the program at the time it was stored.    *)
(* A record keeps what the code writes into indices and values.            *)
(* Substitution, sparsification, dual inference and doubleton equations    *)
(* have to be switched off for dual postsolve and are left out.            *)
(***************************************************************************)
EXTENDS LinearProgram, Sequences, SequencesExt

CONSTANTS
  Unit,         \* bounds, sides and objective are multiples of Unit
  BoundOffset   \* distance a new bound keeps from the implied one, to keep a basis

ASSUME ScaleAssumption == Unit \in Nat \ {0} /\ BoundOffset \in Nat \ {0}

Exact(n, d) == IF d < 0 THEN (-n) \div (-d) ELSE n \div d
AbsOf(n) == IF n < 0 THEN -n ELSE n
LargerOf(m, n) == IF m > n THEN m ELSE n

-----------------------------------------------------------------------------
(* Records                                                                  *)

RowPart(lp, r) == [row |-> r, lhs |-> lp.lhs[r], rhs |-> lp.rhs[r], coefs |-> [c \in RowCols(lp, r) |-> lp.a[r][c]]]

RedundantRecord(r) == [type |-> "redundantRow", row |-> r]
BoundRecord(isLower, c, old, new) ==
  [type |-> "varBoundChange", isLower |-> isLower, col |-> c, old |-> old, new |-> new]
SideRecord(isLhs, r) == [type |-> "rowBoundChange", isLhs |-> isLhs, row |-> r]
ForcedSideRecord(isLhs, r) == [type |-> "forcedByRow", isLhs |-> isLhs, row |-> r]
ReasonRecord(remained, deleted, factor) ==
  [type |-> "reason", remained |-> remained, deleted |-> deleted, factor |-> factor]
FixedRecord(lp, c, v) ==
  [type |-> "fixedCol", col |-> c, val |-> v, obj |-> lp.obj[c],
   coefs |-> [r \in ColRows(lp, c) |-> lp.a[r][c]]]
(* rows: those of the column, in the order of its entries                   *)
FixedInfRecord(lp, c, up, rows) ==
  [type |-> "fixedInf", col |-> c, up |-> up, bound |-> IF up THEN lp.lb[c] ELSE lp.ub[c],
   rows |-> [i \in DOMAIN rows |-> RowPart(lp, rows[i])]]
CoefficientRecord(r) == [type |-> "coefficientChange", row |-> r]
SavedRowRecord(lp, r) == [type |-> "saveRow", saved |-> RowPart(lp, r)]
SubstitutedRecord(lp, c, r) ==
  [type |-> "substituted", equation |-> RowPart(lp, r), col |-> c, obj |-> lp.obj[c],
   lb |-> lp.lb[c], ub |-> lp.ub[c], coefs |-> [q \in ColRows(lp, c) |-> lp.a[q][c]]]
ParallelRecord(lp, c1, c2, scale) ==
  [type |-> "parallelCol", col1 |-> c1, lb1 |-> lp.lb[c1], ub1 |-> lp.ub[c1],
   col2 |-> c2, lb2 |-> lp.lb[c2], ub2 |-> lp.ub[c2], scale |-> scale]
ReducedRecord(lp) == [type |-> "reducedBounds", lb |-> lp.lb, ub |-> lp.ub, cols |-> lp.cols]

-----------------------------------------------------------------------------
(* Single changes, each with its record                                     *)

Stored(st, rec, after) == [lp |-> after, log |-> Append(st.log, [rec |-> rec, before |-> st.lp])]

SaveRow(st, r) == Stored(st, SavedRowRecord(st.lp, r), st.lp)

ChangeBound(st, isLower, c, v) ==
  IF isLower THEN Stored(st, BoundRecord(TRUE, c, st.lp.lb[c], v), [st.lp EXCEPT !.lb[c] = v])
             ELSE Stored(st, BoundRecord(FALSE, c, st.lp.ub[c], v), [st.lp EXCEPT !.ub[c] = v])

(* changeLB, changeUB: only a tighter bound.  The code compares it with the *)
(* other bound first and gives up; here the bounds cross.                   *)
Tighten(st, isLower, c, v) ==
  LET old == IF isLower THEN st.lp.lb[c] ELSE st.lp.ub[c]
  IN IF old = NoBound \/ (IF isLower THEN v > old ELSE v < old)
     THEN ChangeBound(st, isLower, c, v) ELSE st

(* A value outside the bounds leaves them crossed as well.                  *)
FixCol(st, c, v) == Tighten(Tighten(st, TRUE, c, v), FALSE, c, v)

(* What the code finds infeasible when it is about to happen                *)
Crossed(lp) == \E c \in lp.cols : lp.lb[c] # NoBound /\ lp.ub[c] # NoBound /\ lp.lb[c] > lp.ub[c]

MarkRowRedundant(st, r) == Stored(st, RedundantRecord(r), [st.lp EXCEPT !.rows = @ \ {r}])
MarkRowsRedundant(st, rows) == FoldLeft(LAMBDA t, r : MarkRowRedundant(t, r), st, rows)

(* The numbers of S in ascending order: rows and columns are gone through   *)
(* in the order of their indices.                                           *)
Ascending(S) ==
  CHOOSE f \in [1..Cardinality(S) -> S] : \A i, j \in 1..Cardinality(S) : i < j => f[i] < f[j]

ChangeSide(st, isLhs, r, v) ==
  Stored(st, SideRecord(isLhs, r), IF isLhs THEN [st.lp EXCEPT !.lhs[r] = v] ELSE [st.lp EXCEPT !.rhs[r] = v])

Shifted(side, by) == IF side = NoBound THEN NoBound ELSE side - by

(* removeFixedCols: the columns whose bounds met leave the program, with    *)
(* their part of the sides.                                                 *)
RemoveFixedCol(st, c) ==
  LET v == st.lp.lb[c]
      rows == ColRows(st.lp, c)
  IN Stored(st, FixedRecord(st.lp, c, v),
       [st.lp EXCEPT !.cols = @ \ {c},
                     !.lhs = [r \in Rows |-> IF r \in rows THEN Shifted(@[r], st.lp.a[r][c] * v) ELSE @[r]],
                     !.rhs = [r \in Rows |-> IF r \in rows THEN Shifted(@[r], st.lp.a[r][c] * v) ELSE @[r]]])

FixedCols(lp) == {c \in lp.cols : lp.lb[c] # NoBound /\ lp.lb[c] = lp.ub[c]}
RemoveFixedCols(st) ==
  FoldLeft(LAMBDA t, c : RemoveFixedCol(t, c), st, Ascending(FixedCols(st.lp)))

-----------------------------------------------------------------------------
(* Trivial presolve                                                         *)

Equation(lp, r) == lp.lhs[r] # NoBound /\ lp.lhs[r] = lp.rhs[r]

(* Mutant: the row is not saved.                                            *)
BoundFromSideUnsaved(st, r, isLhs) ==
  LET c == CHOOSE d \in RowCols(st.lp, r) : TRUE
      side == IF isLhs THEN st.lp.lhs[r] ELSE st.lp.rhs[r]
  IN IF side = NoBound THEN st ELSE Tighten(st, isLhs <=> st.lp.a[r][c] > 0, c, Exact(side, st.lp.a[r][c]))

(* removeSingletonRow: the row is saved once for each bound.                *)
BoundFromSide(st, r, isLhs) ==
  LET c == CHOOSE d \in RowCols(st.lp, r) : TRUE
      side == IF isLhs THEN st.lp.lhs[r] ELSE st.lp.rhs[r]
  IN IF side = NoBound THEN st
     ELSE Tighten(SaveRow(st, r), isLhs <=> st.lp.a[r][c] > 0, c, Exact(side, st.lp.a[r][c]))

RemoveSingletonRow(st, r) ==
  LET c == CHOOSE d \in RowCols(st.lp, r) : TRUE
      bounded == IF Equation(st.lp, r)
                 THEN FixCol(SaveRow(st, r), c, Exact(st.lp.rhs[r], st.lp.a[r][c]))
                 ELSE BoundFromSide(BoundFromSide(st, r, TRUE), r, FALSE)
  IN RemoveFixedCols(MarkRowRedundant(bounded, r))

(* The bound of c that is reached when the value of row r is smallest       *)
Reached(lp, r, c, smallest) == IF (lp.a[r][c] > 0) <=> smallest THEN lp.lb[c] ELSE lp.ub[c]

(* The smallest or largest value of row r without column c (0: with all)    *)
Activity(lp, r, c, smallest) ==
  LET others == RowCols(lp, r) \ {c}
  IN IF \E d \in others : Reached(lp, r, d, smallest) = NoBound THEN NoBound
     ELSE SumFunctionOnSet([d \in others |-> lp.a[r][d] * Reached(lp, r, d, smallest)], others)

LhsFulfilled(lp, r) ==
  LET m == Activity(lp, r, 0, TRUE) IN lp.lhs[r] # NoBound => m # NoBound /\ m >= lp.lhs[r]
RhsFulfilled(lp, r) ==
  LET m == Activity(lp, r, 0, FALSE) IN lp.rhs[r] # NoBound => m # NoBound /\ m <= lp.rhs[r]

(* checkStatus of a row and what follows from it                            *)
DropSides(st, r) ==
  IF LhsFulfilled(st.lp, r) /\ RhsFulfilled(st.lp, r) THEN MarkRowRedundant(st, r)
  ELSE IF LhsFulfilled(st.lp, r) THEN ChangeSide(st, TRUE, r, NoBound) ELSE ChangeSide(st, FALSE, r, NoBound)

(* removeEmptyColumns, with dual reductions allowed                         *)
EmptyColumnValue(lp, c) ==
  IF lp.obj[c] < 0 THEN lp.ub[c]
  ELSE IF lp.obj[c] > 0 THEN lp.lb[c]
  ELSE IF Above(lp.ub[c], 0) THEN lp.ub[c] ELSE IF Below(lp.lb[c], 0) THEN lp.lb[c] ELSE 0

RemoveEmptyColumn(st, c) == RemoveFixedCol(FixCol(st, c, EmptyColumnValue(st.lp, c)), c)

-----------------------------------------------------------------------------
(* Dual fixing, to a bound or to infinity                                   *)

LockedFrom(lp, r, c, below) ==
  IF (lp.a[r][c] > 0) <=> below THEN lp.lhs[r] # NoBound ELSE lp.rhs[r] # NoBound

Unlocked(lp, c, below) ==
  /\ IF below THEN lp.obj[c] >= 0 ELSE lp.obj[c] <= 0
  /\ \A r \in ColRows(lp, c) : ~LockedFrom(lp, r, c, below)

DualFix(st, c, below) ==
  RemoveFixedCols(FixCol(st, c, IF below THEN st.lp.lb[c] ELSE st.lp.ub[c]))

DualFixInfinity(st, c, below) ==
  LET rows == Ascending(ColRows(st.lp, c))
      gone == MarkRowsRedundant(st, rows)
  IN Stored(gone, FixedInfRecord(st.lp, c, ~below, rows), [gone.lp EXCEPT !.cols = @ \ {c}])

-----------------------------------------------------------------------------
(* Constraint propagation.  To keep a basis only infinite bounds are        *)
(* replaced, by bounds an optimal solution does not reach.                  *)

ImpliedBound(lp, r, c, isLower) ==
  LET fromLhs == (lp.a[r][c] > 0) <=> isLower
      side == IF fromLhs THEN lp.lhs[r] ELSE lp.rhs[r]
      rest == Activity(lp, r, c, ~fromLhs)
  IN IF side = NoBound \/ rest = NoBound THEN NoBound ELSE Exact(side - rest, lp.a[r][c])

Weakened(v, isLower) ==
  LET offset == BoundOffset * LargerOf(Unit, AbsOf(v)) IN IF isLower THEN v - offset ELSE v + offset

(* The new state, or st when the bound is of no use                         *)
Propagate(st, r, c, isLower, keepBasis) ==
  LET lp == st.lp
      v == ImpliedBound(lp, r, c, isLower)
      old == IF isLower THEN lp.lb[c] ELSE lp.ub[c]
      opposite == IF isLower THEN lp.ub[c] ELSE lp.lb[c]
  IN IF v = NoBound THEN st
     ELSE IF opposite # NoBound /\ (IF isLower THEN v >= opposite ELSE v <= opposite)
     THEN RemoveFixedCols(FixCol(SaveRow(st, r), c, v))
     ELSE IF old # NoBound /\ ~(IF isLower THEN v > old ELSE v < old) THEN st
     ELSE IF ~keepBasis THEN Tighten(SaveRow(st, r), isLower, c, v)
     ELSE IF old = NoBound THEN Tighten(SaveRow(st, r), isLower, c, Weakened(v, isLower))
     ELSE st

-----------------------------------------------------------------------------
(* Column singletons in an equation                                         *)

(* row_implies_LB, row_implies_UB                                           *)
RowImplies(lp, r, c, isLower) ==
  LET v == ImpliedBound(lp, r, c, isLower)
      own == IF isLower THEN lp.lb[c] ELSE lp.ub[c]
  IN own # NoBound => v # NoBound /\ IF isLower THEN v >= own ELSE v <= own

(* The objective without c, by the equation r (substituteVarInObj)          *)
ObjectiveWithout(lp, c, r) ==
  [d \in Cols |-> IF d = c THEN 0
                  ELSE IF d \in RowCols(lp, r) THEN lp.obj[d] - lp.a[r][d] * Exact(lp.obj[c], lp.a[r][c])
                  ELSE lp.obj[d]]

SubstituteInObjective(st, c, r) ==
  Stored(st, SubstitutedRecord(st.lp, c, r),
         [st.lp EXCEPT !.cols = @ \ {c}, !.obj = ObjectiveWithout(st.lp, c, r)])

(* The equation of the others becomes an inequality with the room the       *)
(* bounds of c leave, except where a bound is implied (handleEquation).     *)
RoomOf(lp, c, r, ofLhs, implied) ==
  LET bound == IF (lp.a[r][c] < 0) <=> ofLhs THEN lp.lb[c] ELSE lp.ub[c]
  IN IF implied THEN NoBound ELSE lp.rhs[r] - bound * lp.a[r][c]

ChangeSideFrom(st, isLhs, r, v) ==
  IF v = (IF isLhs THEN st.lp.lhs[r] ELSE st.lp.rhs[r]) THEN st ELSE ChangeSide(st, isLhs, r, v)

ToInequality(st, r, lhs, rhs) ==
  LET Open(t) == IF lhs = NoBound THEN ChangeSide(t, TRUE, r, NoBound)
                 ELSE IF rhs = NoBound THEN ChangeSide(t, FALSE, r, NoBound) ELSE t
      Lhs(t) == IF lhs = NoBound THEN t ELSE ChangeSideFrom(t, TRUE, r, lhs)
      Rhs(t) == IF rhs = NoBound THEN t ELSE ChangeSideFrom(t, FALSE, r, rhs)
      open == Open(Stored(st, CoefficientRecord(r), st.lp))
  IN IF lhs # NoBound /\ lhs > st.lp.rhs[r] THEN Lhs(Rhs(open)) ELSE Rhs(Lhs(open))

SubstituteSingleton(st, c, r) ==
  LET lbImplied == RowImplies(st.lp, r, c, TRUE)
      ubImplied == RowImplies(st.lp, r, c, FALSE)
      positive == st.lp.a[r][c] > 0
      lhs == RoomOf(st.lp, c, r, TRUE, IF positive THEN ubImplied ELSE lbImplied)
      rhs == RoomOf(st.lp, c, r, FALSE, IF positive THEN lbImplied ELSE ubImplied)
      without == SubstituteInObjective(st, c, r)
  IN IF lbImplied /\ ubImplied THEN MarkRowRedundant(without, r) ELSE ToInequality(without, r, lhs, rhs)

SingletonSubstitutable(lp, c, r) ==
  /\ ColRows(lp, c) = {r}
  /\ Cardinality(RowCols(lp, r)) > 1
  /\ Equation(lp, r)
  /\ RowImplies(lp, r, c, TRUE) \/ RowImplies(lp, r, c, FALSE) \/ lp.obj[c] = 0

(* An inequality that the price of a column singleton makes an equation.    *)
DualBoundGoesUp(lp, c, r) ==
  LET lbImplied == RowImplies(lp, r, c, TRUE)
      ubImplied == RowImplies(lp, r, c, FALSE)
      positive == lp.a[r][c] > 0
      known == \/ lbImplied /\ ubImplied
               \/ lbImplied /\ ~ubImplied /\ positive
               \/ ubImplied /\ ~lbImplied /\ ~positive
  IN known /\ Exact(lp.obj[c], lp.a[r][c]) > 0

DualBoundGoesDown(lp, c, r) ==
  LET lbImplied == RowImplies(lp, r, c, TRUE)
      ubImplied == RowImplies(lp, r, c, FALSE)
      positive == lp.a[r][c] > 0
      known == \/ lbImplied /\ ubImplied
               \/ lbImplied /\ ~ubImplied /\ ~positive
               \/ ubImplied /\ ~lbImplied /\ positive
  IN known /\ Exact(lp.obj[c], lp.a[r][c]) < 0

ToEquation(st, c, r) ==
  LET up == DualBoundGoesUp(st.lp, c, r)
      equation == ChangeSide(st, ~up, r, IF up THEN st.lp.lhs[r] ELSE st.lp.rhs[r])
  IN IF SingletonSubstitutable(equation.lp, c, r) THEN SubstituteSingleton(equation, c, r) ELSE equation

-----------------------------------------------------------------------------
(* Parallel rows and columns                                                *)

Ratio(lp, q, r) == LET c == CHOOSE d \in RowCols(lp, r) : TRUE IN Exact(lp.a[q][c], lp.a[r][c])

ParallelRows(lp, q, r) ==
  /\ RowCols(lp, q) = RowCols(lp, r)
  /\ Cardinality(RowCols(lp, r)) > 1
  /\ \A c \in RowCols(lp, r) : lp.a[q][c] = Ratio(lp, q, r) * lp.a[r][c]

(* Side of row r for the multiple of r that row kept is                     *)
ScaledSide(lp, kept, r, isLhs) ==
  LET ratio == Ratio(lp, kept, r)
      side == IF (ratio > 0) <=> isLhs THEN lp.lhs[r] ELSE lp.rhs[r]
  IN IF side = NoBound THEN NoBound ELSE ratio * side

TakeSide(st, kept, r, isLhs) ==
  LET v == ScaledSide(st.lp, kept, r, isLhs)
      own == IF isLhs THEN st.lp.lhs[kept] ELSE st.lp.rhs[kept]
      reason == Stored(st, ReasonRecord(kept, r, Ratio(st.lp, kept, r)), st.lp)
  IN IF v # NoBound /\ (own = NoBound \/ (IF isLhs THEN v > own ELSE v < own))
     THEN Stored(reason, ForcedSideRecord(isLhs, kept),
                 IF isLhs THEN [st.lp EXCEPT !.lhs[kept] = v] ELSE [st.lp EXCEPT !.rhs[kept] = v])
     ELSE st

RemoveParallelRow(st, kept, r) == MarkRowRedundant(TakeSide(TakeSide(st, kept, r, TRUE), kept, r, FALSE), r)

ParallelCols(lp, c1, c2) ==
  /\ c1 # c2
  /\ ColRows(lp, c1) = ColRows(lp, c2)
  /\ ColRows(lp, c1) # {}
  /\ \A q, r \in ColRows(lp, c1) : lp.a[q][c1] * lp.a[r][c2] = lp.a[r][c1] * lp.a[q][c2]
  /\ \A r \in ColRows(lp, c1) : lp.obj[c1] * lp.a[r][c2] = lp.obj[c2] * lp.a[r][c1]

(* merge_parallel_columns: c2 stands for c2 + scale * c1.                   *)
MergedBound(lp, c1, c2, scale, isLower) ==
  LET own == IF isLower THEN lp.lb[c2] ELSE lp.ub[c2]
      other == IF (scale > 0) <=> isLower THEN lp.lb[c1] ELSE lp.ub[c1]
  IN IF own = NoBound \/ other = NoBound THEN NoBound ELSE own + scale * other

MergeParallelCols(st, c1, c2) ==
  LET lp == st.lp
      r == CHOOSE q \in ColRows(lp, c1) : TRUE
      scale == Exact(lp.a[r][c1], lp.a[r][c2])
  IN Stored(st, ParallelRecord(lp, c1, c2, scale),
       [lp EXCEPT !.cols = @ \ {c1},
                  !.lb[c2] = MergedBound(lp, c1, c2, scale, TRUE),
                  !.ub[c2] = MergedBound(lp, c1, c2, scale, FALSE)])

StoreReducedBounds(st) == Stored(st, ReducedRecord(st.lp), st.lp)
==============================================================================
