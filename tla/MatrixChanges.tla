------------------------------ MODULE MatrixChanges ------------------------------
(***************************************************************************)
(* How reductions change the entries of the constraint matrix              *)
(* (core/ConstraintMatrix.hpp with the buffer of core/MatrixBuffer.hpp):   *)
(* outstanding changes that are written at once, the substitution of a     *)
(* column by an equation, the addition of a multiple of an equation to     *)
(* another row, an entry added to a row.  Each updates the activities of   *)
(* the rows and fills the lists of rows and columns that have become short.*)
(*                                                                         *)
(* A state s is the record ProblemUpdate describes.  Coefficients are      *)
(* integers: the quotients that are formed have to be integral, which the  *)
(* presolvers check for integral columns.                                  *)
(***************************************************************************)
EXTENDS RowActivity, Sequences, SequencesExt

CONSTANTS
  NRows, NCols,  \* size of the problem
  MaxFillin      \* presolve.maxfillinpersubstitution

ASSUME SizeAssumption == NRows \in Nat /\ NCols \in Nat \ {0} /\ MaxFillin \in Nat

Rows == 1..NRows
Cols == 1..NCols
Ascending(S) == SetToSortSeq(S, LAMBDA i, j : i < j)

(* The entry the row storage holds; 0 if it holds none.                     *)
Coef(s, r, c) == IF c \in s.rowCols[r] THEN s.a[r][c] ELSE 0
Equation(s, r) == [c \in Cols |-> Coef(s, r, c)]

-----------------------------------------------------------------------------
(* One entry of the row storage, with the activity of its row               *)

(* A column adds to the activity of a row what a row with this one entry    *)
(* would have (update_activity_after_coeffchange).                          *)
Contribution(s, c, v) ==
  IF v = 0 THEN [min |-> 0, max |-> 0, ninfmin |-> 0, ninfmax |-> 0]
  ELSE ComputeRowActivity([k \in {c} |-> v], {c}, s)

(* The contribution of the old coefficient stays when its sign flips.       *)
ActivityAfterAdding(s, r, c, v) ==
  LET old == Contribution(s, c, IF v * Coef(s, r, c) > 0 THEN Coef(s, r, c) ELSE 0)
      new == Contribution(s, c, v)
  IN [f \in DOMAIN s.act[r] |-> s.act[r][f] - old[f] + new[f]]

ActivityAfterCoeffChange(s, r, c, v) ==
  LET old == Contribution(s, c, Coef(s, r, c))
      new == Contribution(s, c, v)
  IN [f \in DOMAIN s.act[r] |-> s.act[r][f] - old[f] + new[f]]

(* The change is reported if a side of the activity without infinite        *)
(* contributions has moved or has lost its last one.                        *)
Reports(old, new) ==
  \/ new.ninfmin = 0 /\ (old.ninfmin # 0 \/ old.min # new.min)
  \/ new.ninfmax = 0 /\ (old.ninfmax # 0 \/ old.max # new.max)

SetEntry(s, r, c, v) ==
  [s EXCEPT !.act[r] = ActivityAfterCoeffChange(s, r, c, v),
            !.a[r][c] = v,
            !.rowCols[r] = IF v = 0 THEN @ \ {c} ELSE @ \cup {c}]

(* A row reported by the changes of a substitution is only put on the list  *)
(* of this round.                                                           *)
ChangeEntry(s, r, c, v) ==
  LET t == SetEntry(s, r, c, v)
  IN IF Reports(s.act[r], t.act[r]) /\ s.lastChange[r] # s.nrounds
     THEN [t EXCEPT !.lastChange[r] = s.nrounds, !.changedLast = @ \cup {r}]
     ELSE t

(* update_activity puts it on the list of the next round as well.           *)
ChangeEntryForNextRound(s, r, c, v) ==
  LET t == SetEntry(s, r, c, v)
  IN IF Reports(s.act[r], t.act[r]) /\ s.lastChange[r] # s.nrounds /\ r \notin s.redundant
     THEN [t EXCEPT !.lastChange[r] = s.nrounds, !.changedNow = @ \cup {r},
                    !.changedLast = IF s.lastChange[r] # s.nrounds - 1 THEN @ \cup {r} ELSE @]
     ELSE t

(* A row that becomes short is not put on the list.                         *)
ResizeForgetting(s, r) ==
  LET n == Cardinality(s.rowCols[r])
  IN [s EXCEPT !.rowSize[r] = n, !.act[r] = IF n = 0 THEN [@ EXCEPT !.min = 0, !.max = 0] ELSE @]

(* Takes the length of row r to its size.                                   *)
Resize(s, r) ==
  LET n == Cardinality(s.rowCols[r])
  IN IF n = s.rowSize[r] THEN s
     ELSE [s EXCEPT !.rowSize[r] = n,
                    !.act[r] = IF n = 0 THEN [@ EXCEPT !.min = 0, !.max = 0] ELSE @,
                    !.singletonRows = IF n = 1 THEN @ \cup {r} ELSE @]

(* Rows that the column did not have before are missed.                     *)
ResizeColumnRemoving(s, c, rs) ==
  LET new == s.colRows[c] \ {r \in rs : c \notin s.rowCols[r]}
  IN [s EXCEPT !.colRows[c] = new, !.colSize[c] = Cardinality(new)]

(* Brings the column storage of the columns cs in line with the rows rs, in *)
(* the order of the columns.                                                *)
ResizeColumn(s, c, rs) ==
  LET new == (s.colRows[c] \ rs) \cup {r \in rs : c \in s.rowCols[r]}
      n == Cardinality(new)
      t == [s EXCEPT !.colRows[c] = new]
  IN IF n = s.colSize[c] THEN t
     ELSE [t EXCEPT !.colSize[c] = n,
                    !.emptyCols = IF n = 0 THEN @ \cup {c} ELSE @,
                    !.singletonCols = IF n = 1 THEN Append(@, c) ELSE @]
FollowColumns(s, cs, rs) ==
  FoldLeft(LAMBDA t, c : ResizeColumn(t, c, rs), s, Ascending(cs))

-----------------------------------------------------------------------------
(* The buffer of outstanding changes: changeCoefficients                    *)

FlushChangedCoeffs(s) ==
  LET rs == {e.row : e \in Range(s.buffer)}
      written == FoldLeft(LAMBDA t, e : ChangeEntryForNextRound(t, e.row, e.col, e.val), s,
                          SortSeq(s.buffer, LAMBDA d, e : d.row < e.row \/ (d.row = e.row /\ d.col < e.col)))
      sized == FoldLeft(Resize, written, Ascending(rs))
  IN [FollowColumns(sized, {e.col : e \in Range(s.buffer)}, rs) EXCEPT !.buffer = <<>>]

(* Entries that are not there yet do not wait (change_coefficient); the     *)
(* storage is taken to have room for them.                                  *)
AddEntry(s, r, c, v) ==
  LET t == ChangeEntry(s, r, c, v)
  IN [t EXCEPT !.rowSize[r] = Cardinality(t.rowCols[r]),
               !.colRows[c] = @ \cup {r}, !.colSize[c] = Cardinality(s.colRows[c] \cup {r})]

-----------------------------------------------------------------------------
(* Substitution of a column: aggregate.  eq are the coefficients of the     *)
(* equation, side is its right hand side, eqrow its row, 0 if the equation  *)
(* is not a row of the matrix.                                              *)

(* A row may not grow too much by what the equation adds to it.             *)
FillinOf(s, r, eq) == Cardinality({c \in Cols : eq[c] # 0} \ s.rowCols[r]) - 1
TotalFillin(s, col, eq, eqrow) ==
  MapThenSumSet(LAMBDA r : FillinOf(s, r, eq), s.colRows[col] \ {eqrow})
    - (IF eqrow \in s.colRows[col] THEN Cardinality({c \in Cols : eq[c] # 0}) ELSE 0)
CheckAggregationSparsityCondition(s, col, eq, eqrow) == TotalFillin(s, col, eq, eqrow) <= MaxFillin

AddToSides(s, r, v) ==
  LET t == [s EXCEPT !.lhs[r] = IF r \in s.lhsInf THEN @ ELSE @ + v,
                     !.rhs[r] = IF r \in s.rhsInf THEN @ ELSE @ + v]
  IN IF r \notin s.lhsInf \cup s.rhsInf /\ v # 0 /\ t.lhs[r] = t.rhs[r]
     THEN [t EXCEPT !.equation = @ \cup {r}] ELSE t

(* The sides of the rows are forgotten.                                     *)
AddEquationWithoutSide(s, r, eq, side, n, k) ==
  LET cs == {c \in Cols : eq[c] # 0}
      Add(t, c) == ChangeEntry(t, r, c, Coef(t, r, c) + FloorDiv(n * eq[c], k))
  IN Resize(FoldLeft(Add, s, Ascending(cs)), r)

(* Row r takes the equation times n / k on.                                 *)
AddEquation(s, r, eq, side, n, k) ==
  LET cs == {c \in Cols : eq[c] # 0}
      Add(t, c) == ChangeEntry(t, r, c, Coef(t, r, c) + FloorDiv(n * eq[c], k))
  IN AddToSides(Resize(FoldLeft(Add, s, Ascending(cs)), r), r, FloorDiv(n * side, k))

DropEquation(s, r) ==
  IF r = 0 THEN s
  ELSE [s EXCEPT !.redundant = @ \cup {r}, !.rowCols[r] = {}, !.rowSize[r] = -1,
                 !.lhs[r] = 0, !.rhs[r] = 0]

Aggregate(s, col, eq, side, eqrow) ==
  LET rs == s.colRows[col]
      Replaced(t, r) == AddEquation(t, r, eq, side, -Coef(s, r, col), eq[col])
      rowsDone == DropEquation(FoldLeft(Replaced, s, Ascending(rs \ {eqrow})), eqrow)
  IN [FollowColumns(rowsDone, {c \in Cols : eq[c] # 0}, rs) EXCEPT
        !.colRows[col] = {}, !.colSize[col] = -1]

-----------------------------------------------------------------------------
(* Sparsification: scale times the equation eqrow is added to row r if that *)
(* cancels more entries than it creates, and creates at most one.           *)

Cancelled(s, eqrow, r, scale) ==
  {c \in s.rowCols[eqrow] \cap s.rowCols[r] : Coef(s, r, c) + scale * Coef(s, eqrow, c) = 0}
Created(s, eqrow, r) == s.rowCols[eqrow] \ s.rowCols[r]

Sparsifies(s, eqrow, r, scale) ==
  /\ Cardinality(Created(s, eqrow, r)) <= 1
  /\ Cardinality(Cancelled(s, eqrow, r, scale)) > Cardinality(Created(s, eqrow, r))

SparsifyRow(s, eqrow, r, scale) ==
  IF ~Sparsifies(s, eqrow, r, scale) THEN s
  ELSE FollowColumns(AddEquation(s, r, Equation(s, eqrow), s.rhs[eqrow], scale, 1),
                     s.rowCols[eqrow], {r})
===============================================================================
