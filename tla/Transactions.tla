------------------------------ MODULE Transactions ------------------------------
(***************************************************************************)
(* Transactions (core/Reductions.hpp) and their application                *)
(* (ProblemUpdate::applyTransaction).  A reduction is a record with an op  *)
(* and the fields the op needs, a transaction a sequence of them, its      *)
(* locks first.  A transaction is refused as a whole if something it has   *)
(* locked was modified before in the round.                                *)
(***************************************************************************)
EXTENDS ProblemUpdate

LockCol(c) == [op |-> "lockCol", col |-> c]
LockColBounds(c) == [op |-> "lockColBounds", col |-> c]
LockRow(r) == [op |-> "lockRow", row |-> r]
LockAllRows(rs) == [i \in 1..Cardinality(rs) |-> LockRow(Ascending(rs)[i])]
Fix(c, v) == [op |-> "fix", col |-> c, val |-> v]
FixInfinity(c, up) == [op |-> "fixInf", col |-> c, up |-> up]
Bound(c, lower, v) == [op |-> "bound", col |-> c, lower |-> lower, val |-> v]
Redundant(r) == [op |-> "redundant", row |-> r]
ChangeCoef(r, c, v) == [op |-> "coef", row |-> r, col |-> c, val |-> v]
Side(r, left, v) == [op |-> "side", row |-> r, left |-> left, val |-> v, relaxes |-> FALSE]
SideOfParallelRow(r, left, v) == [Side(r, left, v) EXCEPT !.relaxes = TRUE]
SideInf(r, left) == [op |-> "sideInf", row |-> r, left |-> left]
Substitute(c, r) == [op |-> "subst", col |-> c, row |-> r]
SubstituteObj(c, r) == [op |-> "substObj", col |-> c, row |-> r]
Replace(c, d, factor, offset) ==
  [op |-> "replace", col |-> c, col2 |-> d, factor |-> factor, offset |-> offset]
ImplInt(c) == [op |-> "implInt", col |-> c]
Sparsification(r, cands) == [op |-> "sparsify", row |-> r, cands |-> cands]

-----------------------------------------------------------------------------
(* PARALLEL                                                                 *)

(* The bounds of col2 after it has taken col1 in.                            *)
MergedBoundsIgnoringSign(s, col1, col2, scale) ==
  [lower |-> s.lb[col2] + scale * s.lb[col1], upper |-> s.ub[col2] + scale * s.ub[col1]]

MergedBounds(s, col1, col2, scale) ==
  [lower |-> s.lb[col2] + scale * (IF scale < 0 THEN s.ub[col1] ELSE s.lb[col1]),
   upper |-> s.ub[col2] + scale * (IF scale < 0 THEN s.lb[col1] ELSE s.ub[col1])]

(* col1 goes into col2, both with finite bounds.                             *)
MergeParallel(s, col1, col2) ==
  LET r == CHOOSE r \in s.colRows[col1] : TRUE
      scale == FloorDiv(s.a[r][col1], s.a[r][col2])
      record == [type |-> "parallel", col1 |-> col1, col2 |-> col2, scale |-> scale,
                 int1 |-> TRUE, lb1 |-> s.lb[col1], ub1 |-> s.ub[col1],
                 lbInf1 |-> FALSE, ubInf1 |-> FALSE,
                 int2 |-> TRUE, lb2 |-> s.lb[col2], ub2 |-> s.ub[col2],
                 lbInf2 |-> FALSE, ubInf2 |-> FALSE]
      new == MergedBounds(s, col1, col2, scale)
  IN [CountOut(s, col1) EXCEPT
               !.storage = Append(@, record),
               !.lb = [@ EXCEPT ![col1] = 0, ![col2] = new.lower],
               !.ub = [@ EXCEPT ![col1] = 0, ![col2] = new.upper],
               !.merged = @ \cup {col1}, !.deletedCols = @ \cup {col1},
               !.colModified = @ \cup {col1},
               !.colBoundsModified = @ \cup {col1, col2}]

MergeIfActive(s, red) ==
  IF Inactive(s, red.col) \/ Inactive(s, red.col2) THEN Returning(s, "rejected")
  ELSE MergeParallel(s, red.col, red.col2)

-----------------------------------------------------------------------------
(* Fixings to infinity, sides and coefficients                              *)

(* The transaction has marked the rows of the column redundant before; what *)
(* they look like is stored, for postsolve to find a finite value.          *)
FixColInfinity(s, red) ==
  LET c == red.col
      record == [type |-> "fixedInf", col |-> c, up |-> red.up,
                 bound |-> IF red.up THEN s.lb[c] ELSE s.ub[c],
                 boundInf |-> IF red.up THEN c \in s.lbInf ELSE c \in s.ubInf,
                 rows |-> {[coefs |-> Equation(s, r), row |-> RowOf(s, r)] : r \in s.colRows[c]}]
  IN IF Inactive(s, c) THEN s
     ELSE [MarkColFixed(s, c) EXCEPT !.colBoundsModified = @ \cup {c},
                                     !.storage = Append(@, record)]

(* A side that becomes finite may lock columns it did not lock before.      *)
CrossesSide(s, r, left, v) == IF left THEN r \notin s.rhsInf /\ v > s.rhs[r]
                                      ELSE r \notin s.lhsInf /\ v < s.lhs[r]

(* modifyLeftHandSide and modifyRightHandSide                                *)
SetSide(s, r, left, v) ==
  LET t == IF left THEN [s EXCEPT !.lhs[r] = v, !.lhsInf = @ \ {r}]
                   ELSE [s EXCEPT !.rhs[r] = v, !.rhsInf = @ \ {r}]
      meet == r \notin t.lhsInf /\ r \notin t.rhsInf /\ t.lhs[r] = t.rhs[r]
  IN [t EXCEPT !.equation = IF meet THEN @ \cup {r} ELSE @ \ {r}]

ChangeSide(s, red) ==
  LET r == red.row
      wasInf == r \in (IF red.left THEN s.lhsInf ELSE s.rhsInf)
      marked == [s EXCEPT !.rowBoundsModified = @ \cup {r},
                          !.colModified = IF wasInf /\ ~red.relaxes THEN @ \cup s.rowCols[r] ELSE @]
  IN IF CrossesSide(s, r, red.left, red.val) THEN Returning(marked, "infeasible")
     ELSE SetSide(marked, r, red.left, red.val)

DropSide(s, red) ==
  IF red.row \in (IF red.left THEN s.lhsInf ELSE s.rhsInf) THEN s
  ELSE [DropSides(s, IF red.left THEN {red.row} ELSE {}, IF red.left THEN {} ELSE {red.row})
          EXCEPT !.rowBoundsModified = @ \cup {red.row}]

(* An entry the row has waits in the buffer, another is added at once.      *)
ChangeCoefficient(s, red) ==
  LET marked == [s EXCEPT !.rowModified = @ \cup {red.row}, !.colModified = @ \cup {red.col}]
      entry == [row |-> red.row, col |-> red.col, val |-> red.val]
  IN IF red.col \in s.rowCols[red.row] THEN [marked EXCEPT !.buffer = Append(@, entry)]
     ELSE AddEntry(marked, red.row, red.col, red.val)

MarkRedundant(s, r) ==
  [MarkRowsRedundant(s, {r}) EXCEPT !.rowBoundsModified = @ \cup ({r} \ s.redundant)]

-----------------------------------------------------------------------------
(* Substitutions                                                            *)

StoreSubstitution(s, col, eq, side) ==
  [s EXCEPT !.storage = Append(@, [type |-> "subst", col |-> col, coefs |-> eq, side |-> side])]

(* The column leaves the objective at its value in the equation.            *)
SubstituteInObj(s, col, eq, side) ==
  [s EXCEPT !.obj = [c \in Cols |-> IF c = col THEN 0 ELSE @[c] - FloorDiv(s.obj[col] * eq[c], eq[col])],
            !.offset = @ + FloorDiv(s.obj[col] * side, eq[col])]

RemoveSubstituted(s, col) ==
  [CountOut(s, col) EXCEPT !.merged = @ \cup {col}]

(* SUBSTITUTE: col by the equation in row r.                                 *)
SubstituteColumn(s, red) ==
  LET col == red.col   r == red.row
      eq == Equation(s, r)
      only == CHOOSE c \in s.rowCols[r] : TRUE
      stored == SubstituteInObj(StoreSubstitution(s, col, eq, s.rhs[r]), col, eq, s.lhs[r])
      marked == [RemoveSubstituted(stored, col) EXCEPT
                   !.rowModified = @ \cup s.colRows[col], !.colModified = @ \cup s.rowCols[r],
                   !.ndeletedrows = @ + 1]
  IN IF Cardinality(s.rowCols[r]) = 1 THEN FixCol(s, col, s.lhs[r], s.a[r][only])
     ELSE IF ~CheckAggregationSparsityCondition(s, col, eq, r) THEN Returning(s, "rejected")
     ELSE Aggregate(marked, col, eq, s.lhs[r], r)

(* SUBSTITUTE_OBJ: col is in no other row than r.  It stays in the matrix   *)
(* with the value 0 until it is deleted.                                    *)
SubstituteInObjective(s, red) ==
  LET col == red.col   r == red.row
      eq == Equation(s, r)
      stored == SubstituteInObj(StoreSubstitution(s, col, eq, s.rhs[r]), col, eq, s.lhs[r])
      low == IF col \in s.lbInf \/ s.lb[col] # 0 THEN SetLb(stored, col, 0) ELSE stored
      high == IF col \in s.ubInf \/ s.ub[col] # 0 THEN SetUb(low, col, 0) ELSE low
  IN [RemoveSubstituted(high, col) EXCEPT
        !.deletedCols = @ \cup {col}, !.colModified = @ \cup s.rowCols[r]]

(* REPLACE: col = factor * col2 + offset.  Of the bounds col implies for    *)
(* col2 the upper one is only looked at if the lower one is not new.        *)
ImpliedBounds(s, red) ==
  LET c == red.col
      atLb == s.lb[c] - red.offset   atUb == s.ub[c] - red.offset
  IN [lower |-> CeilDiv(IF red.factor > 0 THEN atLb ELSE atUb, red.factor),
      upper |-> FloorDiv(IF red.factor > 0 THEN atUb ELSE atLb, red.factor)]

TransferBound(s, red) ==
  LET implied == ImpliedBounds(s, red)
      c == red.col2
  IN IF implied.lower > s.lb[c] THEN ChangeBound(s, [col |-> c, lower |-> TRUE, val |-> implied.lower])
     ELSE IF implied.upper < s.ub[c] THEN ChangeBound(s, [col |-> c, lower |-> FALSE, val |-> implied.upper])
     ELSE s

ReplaceActive(s, red) ==
  LET col == red.col
      eq == [c \in Cols |-> IF c = col THEN 1 ELSE IF c = red.col2 THEN -red.factor ELSE 0]
      t == TransferBound(s, red)
      stored == SubstituteInObj(StoreSubstitution(t, col, eq, red.offset), col, eq, red.offset)
      marked == [RemoveSubstituted(stored, col) EXCEPT
                   !.rowModified = @ \cup t.colRows[col], !.colModified = @ \cup {col, red.col2}]
  IN IF t.ret = "infeasible" \/ ~CheckAggregationSparsityCondition(t, col, eq, 0) THEN t
     ELSE Aggregate(marked, col, eq, red.offset, 0)

ReplaceColumn(s, red) ==
  LET c == red.col   d == red.col2
  IN IF d \in s.fixed /\ ~Inactive(s, c) THEN FixCol(s, c, red.factor * s.lb[d] + red.offset, 1)
     ELSE IF c \in s.fixed /\ ~Inactive(s, d) THEN FixCol(s, d, s.lb[c] - red.offset, red.factor)
     ELSE IF Inactive(s, c) \/ Inactive(s, d) THEN s
     ELSE ReplaceActive(s, red)

(* IMPL_INT: the bounds are rounded, which integral ones survive as they are*)
SetImplInt(s, c) == IF Inactive(s, c) THEN s ELSE [s EXCEPT !.implint = @ \cup {c}]

(* SPARSIFY: multiples of the equation in row r are added to other rows.    *)
Sparsify(s, red) ==
  LET eqCols == s.rowCols[red.row]
      Add(t, cand) ==
        IF ~Sparsifies(t, red.row, cand.row, cand.scale) THEN t
        ELSE [SparsifyRow(t, red.row, cand.row, cand.scale) EXCEPT
                !.rowModified = @ \cup {cand.row}, !.colModified = @ \cup eqCols]
  IN FoldLeft(Add, s, red.cands)

-----------------------------------------------------------------------------
(* applyTransaction                                                         *)

ConflictsMissingBounds(s, red) ==
  \/ red.op = "lockCol" /\ red.col \in s.colModified
  \/ red.op = "lockColBounds" /\ FALSE
  \/ red.op = "lockRow" /\ red.row \in s.rowModified \cup s.rowBoundsModified

Conflicts(s, red) ==
  \/ red.op = "lockCol" /\ red.col \in s.colModified
  \/ red.op = "lockColBounds" /\ red.col \in s.colBoundsModified
  \/ red.op = "lockRow" /\ red.row \in s.rowModified \cup s.rowBoundsModified

(* What changes the number of entries much waits until all presolvers have  *)
(* had their turn.                                                          *)
IsPostponed(red) == red.op \in {"subst", "replace", "sparsify"}

ApplyReduction(s, red) ==
  IF red.op = "fix" THEN FixCol(s, red.col, red.val, 1)
  ELSE IF red.op = "fixInf" THEN FixColInfinity(s, red)
  ELSE IF red.op = "bound" THEN ChangeBound(s, red)
  ELSE IF red.op = "redundant" THEN MarkRedundant(s, red.row)
  ELSE IF red.op = "coef" THEN ChangeCoefficient(s, red)
  ELSE IF red.op = "side" THEN ChangeSide(s, red)
  ELSE IF red.op = "sideInf" THEN DropSide(s, red)
  ELSE IF red.op = "parallel" THEN MergeIfActive(s, red)
  ELSE IF red.op = "subst" THEN SubstituteColumn(s, red)
  ELSE IF red.op = "substObj" THEN SubstituteInObjective(s, red)
  ELSE IF red.op = "replace" THEN ReplaceColumn(s, red)
  ELSE IF red.op = "implInt" THEN SetImplInt(s, red.col)
  ELSE IF red.op = "sparsify" THEN Sparsify(s, red)
  ELSE s

(* A transaction that fails half way leaves what it has done.  postpone is  *)
(* postponeSubstitutions.                                                   *)
ApplyTransaction(s, tsx, postpone) ==
  LET blocked == {i \in DOMAIN tsx : Conflicts(s, tsx[i])}
      late == {i \in DOMAIN tsx : postpone /\ IsPostponed(tsx[i])}
  IN IF \E i \in blocked : \A j \in late : i < j THEN Returning(s, "rejected")
     ELSE IF late # {} THEN Returning(s, "postponed")
     ELSE FoldLeft(LAMBDA t, red : IF t.ret \in {"infeasible", "rejected"} THEN t
                                   ELSE ApplyReduction(t, red),
                   Returning(s, "applied"), tsx)
===============================================================================
