----------------------------- MODULE ProblemUpdate -----------------------------
(***************************************************************************)
(* The operations by which reductions change a problem (core/              *)
(* ProblemUpdate.hpp, with the parts of Problem.hpp, ConstraintMatrix.hpp  *)
(* and PostsolveStorage.hpp they call).  Values are integers; data is      *)
(* chosen so that continuous columns take integral values, too.            *)
(*                                                                         *)
(* An operation maps a state s of the problem to the next.  s is a record: *)
(*   a, obj, offset        coefficients, objective                         *)
(*   lb, ub, lbInf, ubInf  domains of the columns                          *)
(*   lhs, rhs, lhsInf, rhsInf, equation   sides and flags of the rows      *)
(*   integral, implint     columns flagged kIntegral, kImplInt             *)
(*   fixed, merged         columns flagged kFixed, kSubstituted            *)
(*   redundant             rows flagged kRedundant                         *)
(*   rowCols, colRows      what the row and the column storage hold        *)
(*   rowSize, colSize      rowsize and colsize, -1 for deleted             *)
(*   act, lastChange       activities and the round they last changed in   *)
(*   changedNow, changedLast   current_ and last_changed_activities        *)
(*   locks                 up- and downlocks of the columns                *)
(*   colModified, colBoundsModified, rowModified, rowBoundsModified states *)
(*   deletedCols, redundantRows, singletonRows, emptyCols   work lists     *)
(*   singletonCols, firstNewSingleton   columns that got down to one row,  *)
(*                         and the length of the list when the round began *)
(*   buffer                coefficients to be changed (matrix_buffer)      *)
(*   ndeletedcols, ndeletedrows, nint     counters                         *)
(*   nrounds               stats.nrounds                                   *)
(*   dualreds              presolve.dualreds: 0, 1 or 2                    *)
(*   storage               the postsolve stack                             *)
(*   ret                   status the last operation returned              *)
(***************************************************************************)
EXTENDS MatrixChanges

Failed(s) == s.ret \in {"infeasible", "unbndOrInfeas"}
Returning(s, status) == [s EXCEPT !.ret = status]

(* A step that is not taken after a failure, and a loop over rows or        *)
(* columns that stops at the first one.                                     *)
Then(s, Op(_)) == IF Failed(s) THEN s ELSE Op(s)
ForEach(Op(_, _), s, S) ==
  FoldLeft(LAMBDA t, i : IF Failed(t) THEN t ELSE Op(t, i),
           s, Ascending(S))

Inactive(s, c) == c \in s.fixed \/ c \in s.merged
RowOf(s, r) == [lhs |-> s.lhs[r], rhs |-> s.rhs[r],
                lhsInf |-> r \in s.lhsInf, rhsInf |-> r \in s.rhsInf]
Rescan(s) == [r \in Rows |-> ComputeRowActivity(s.a[r], s.rowCols[r], s)]

-----------------------------------------------------------------------------
(* Bounds of columns                                                        *)

(* Adds the new bound of c to the activities of its rows and remembers the  *)
(* rows that can be propagated with it and changed for the first time this  *)
(* round.                                                                   *)
NoteChanged(s, noted) ==
  [s EXCEPT !.changedNow = @ \cup noted,
            !.changedLast = @ \cup {r \in noted : s.lastChange[r] # s.nrounds - 1},
            !.lastChange = [r \in Rows |-> IF r \in noted THEN s.nrounds ELSE @[r]]]

UpdateActivities(s, c, lower, old, oldInf, new) ==
  LET Updated(r) == UpdateActivity(s.act[r], s.a[r][c], lower, old, oldInf, new)
      Usable(act, r) == (IF MovesMin(s.a[r][c], lower) THEN act.ninfmin ELSE act.ninfmax) <= 1
      noted == {r \in s.colRows[c] \ s.redundant : Usable(Updated(r), r) /\ s.lastChange[r] # s.nrounds}
  IN NoteChanged([s EXCEPT !.act = [r \in Rows |-> IF r \in s.colRows[c] THEN Updated(r) ELSE @[r]]],
                 noted)

SetLb(s, c, v) ==
  [UpdateActivities(s, c, TRUE, s.lb[c], c \in s.lbInf, v) EXCEPT
     !.lb[c] = v, !.lbInf = @ \ {c}]
SetUb(s, c, v) ==
  [UpdateActivities(s, c, FALSE, s.ub[c], c \in s.ubInf, v) EXCEPT
     !.ub[c] = v, !.ubInf = @ \ {c}]

(* A column less.                                                           *)
CountOut(s, c) == [s EXCEPT !.ndeletedcols = @ + 1, !.nint = IF c \in s.integral THEN @ - 1 ELSE @]
MarkColFixed(s, c) ==
  [CountOut(s, c) EXCEPT !.fixed = @ \cup {c}, !.deletedCols = @ \cup {c}]

(* changeLB and changeUB, by the bound b.  Reaching the other bound fixes   *)
(* the column; passing it is infeasible.                                    *)
Crosses(s, b) == IF b.lower THEN b.col \notin s.ubInf /\ b.val > s.ub[b.col]
                            ELSE b.col \notin s.lbInf /\ b.val < s.lb[b.col]

BoundChanged(s, c) ==
  LET meets == c \notin s.lbInf /\ c \notin s.ubInf /\ s.lb[c] = s.ub[c]
  IN [(IF meets THEN MarkColFixed(s, c) ELSE s) EXCEPT
        !.colBoundsModified = @ \cup {c}, !.ret = "reduced"]

ChangeBound(s, b) ==
  IF b.col \in s.merged \/ ~Tightens(s, b) THEN Returning(s, "unchanged")
  ELSE IF Crosses(s, b) THEN Returning(s, "infeasible")
  ELSE BoundChanged(IF b.lower THEN SetLb(s, b.col, b.val) ELSE SetUb(s, b.col, b.val), b.col)

(* fixCol with the value n / k, which may not be integral.                  *)
FixCol(s, c, n, k) ==
  LET v == FloorDiv(n, k)
      lbChanged == c \in s.lbInf \/ v # s.lb[c]
      ubChanged == c \in s.ubInf \/ v # s.ub[c]
      outside == (c \notin s.lbInf /\ v < s.lb[c]) \/ (c \notin s.ubInf /\ v > s.ub[c])
      t == IF lbChanged THEN SetLb(s, c, v) ELSE s
      u == IF ubChanged THEN SetUb(t, c, v) ELSE t
  IN IF c \in s.merged THEN Returning(s, "unchanged")
     ELSE IF v * k # n \/ outside THEN Returning(s, "infeasible")
     ELSE IF c \in s.fixed \/ ~(lbChanged \/ ubChanged) THEN Returning(s, "unchanged")
     ELSE [MarkColFixed(u, c) EXCEPT !.colBoundsModified = @ \cup {c}, !.ret = "reduced"]

-----------------------------------------------------------------------------
(* Rows                                                                     *)

MarkRowsRedundant(s, rs) ==
  [s EXCEPT !.redundantRows = @ \cup (rs \ s.redundant),
            !.ndeletedrows = @ + Cardinality(rs \ s.redundant),
            !.redundant = @ \cup rs]

(* modifyLeftHandSide<true> and modifyRightHandSide<true>                    *)
DropSides(s, lhss, rhss) ==
  [s EXCEPT !.lhsInf = @ \cup lhss, !.rhsInf = @ \cup rhss,
            !.equation = @ \ (lhss \cup rhss)]

(* A row with one column becomes a bound of this column.  It is redundant   *)
(* afterwards even if the bound is infeasible.                              *)
SideBound(c, val, side, lower) ==
  [col |-> c, lower |-> lower,
   val |-> IF lower THEN CeilDiv(side, val) ELSE FloorDiv(side, val)]

RemoveSingletonRow(s, r) ==
  LET c == CHOOSE c \in s.rowCols[r] : TRUE
      val == s.a[r][c]
      Left(t) == IF r \in s.lhsInf THEN t
                 ELSE ChangeBound(t, SideBound(c, val, s.lhs[r], val > 0))
      Right(t) == IF r \in s.rhsInf THEN t
                  ELSE ChangeBound(t, SideBound(c, val, s.rhs[r], val < 0))
  IN IF s.rowSize[r] # 1 \/ r \in s.redundant THEN Returning(s, "unchanged")
     ELSE MarkRowsRedundant(IF r \in s.equation THEN FixCol(s, c, s.rhs[r], val)
                            ELSE Then(Left(Returning(s, "unchanged")), Right), {r})

(* What the activities of the rows rs say: redundant rows are marked,       *)
(* redundant sides dropped.  An infeasible row returns at once; the rows    *)
(* handled before it do not matter any more.                                *)
ApplyRowStatuses(s, rs) ==
  LET With(status) == {r \in rs : CheckStatus(s.act[r], RowOf(s, r)) = status}
  IN IF With("infeasible") # {} THEN Returning(s, "infeasible")
     ELSE Returning(
            MarkRowsRedundant(DropSides(s, With("redundantLhs"), With("redundantRhs")),
                              With("redundant")),
            IF With("unknown") = rs THEN "unchanged" ELSE "reduced")

CheckChangedActivities(s) == ApplyRowStatuses(s, s.changedNow \ s.redundant)

-----------------------------------------------------------------------------
(* Taking fixed columns and redundant rows out of the matrix                *)

(* A fixed column is stored for postsolve, and its contribution moves into  *)
(* the offset, the sides and the activities.                                *)
RemoveFixedColKeepingActivity(s, c) ==
  LET v == s.lb[c]
      rs == s.colRows[c] \ s.redundant
      Const(r) == IF r \in rs THEN v * s.a[r][c] ELSE 0
      stored == [s EXCEPT !.storage = Append(@, [type |-> "fixed", col |-> c, val |-> v])]
  IN [stored EXCEPT !.offset = @ + v * s.obj[c], !.obj[c] = 0,
                    !.lhs = [r \in Rows |-> IF r \in s.lhsInf THEN @[r] ELSE @[r] - Const(r)],
                    !.rhs = [r \in Rows |-> IF r \in s.rhsInf THEN @[r] ELSE @[r] - Const(r)]]

RemoveFixedCol(s, c) ==
  LET v == s.lb[c]
      rs == s.colRows[c] \ s.redundant
      Const(r) == IF r \in rs THEN v * s.a[r][c] ELSE 0
      stored == [s EXCEPT !.storage = Append(@, [type |-> "fixed", col |-> c, val |-> v])]
      moved == [stored EXCEPT
        !.offset = @ + v * s.obj[c], !.obj[c] = 0,
        !.act = [r \in Rows |-> [@[r] EXCEPT !.min = @ - Const(r), !.max = @ - Const(r)]],
        !.lhs = [r \in Rows |-> IF r \in s.lhsInf THEN @[r] ELSE @[r] - Const(r)],
        !.rhs = [r \in Rows |-> IF r \in s.rhsInf THEN @[r] ELSE @[r] - Const(r)]]
      meet == {r \in rs \ (s.lhsInf \cup s.rhsInf) : moved.lhs[r] = moved.rhs[r]}
  IN IF v = 0 THEN stored ELSE [moved EXCEPT !.equation = @ \cup meet]

RemoveFixedCols(s) ==
  ForEach(RemoveFixedCol, s,
          {c \in s.deletedCols : c \in s.fixed /\ c \notin s.lbInf /\ c \notin s.ubInf})

ZeroActivity == [min |-> 0, max |-> 0, ninfmin |-> 0, ninfmax |-> 0]

(* The entries of the deleted rows are still counted.                       *)
ColSizesAfterColumns(s, dr, dc) ==
  [c \in Cols |-> IF c \in dc THEN -1 ELSE s.colSize[c]]

ColSizesAfter(s, dr, dc) ==
  [c \in Cols |-> IF c \in dc \/ s.colSize[c] = -1 THEN -1
                  ELSE s.colSize[c] - Cardinality({r \in dr : c \in s.rowCols[r]})]

(* deleteRowsAndCols.  The sizes are counted down from the storage of the   *)
(* other orientation, then each storage is compacted on its own.            *)
DeleteRowsAndCols(s) ==
  LET dr == s.redundantRows
      dc == s.deletedCols
      rsize == [r \in Rows |-> IF r \in dr \/ s.rowSize[r] = -1 THEN -1
                               ELSE s.rowSize[r] - Cardinality({c \in dc : r \in s.colRows[c]})]
      csize == ColSizesAfter(s, dr, dc)
      shorterRow == {r \in Rows : rsize[r] # -1 /\ rsize[r] # Cardinality(s.rowCols[r])}
      shorterCol == {c \in Cols : csize[c] # -1 /\ csize[c] # Cardinality(s.colRows[c])}
  IN IF dr = {} /\ dc = {} THEN s
     ELSE [s EXCEPT
       !.rowSize = rsize, !.colSize = csize,
       !.lhs = [r \in Rows |-> IF r \in dr THEN 0 ELSE @[r]],
       !.rhs = [r \in Rows |-> IF r \in dr THEN 0 ELSE @[r]],
       !.act = [r \in Rows |->
                  IF r \in dr THEN ZeroActivity
                  ELSE IF r \in shorterRow /\ rsize[r] = 0 THEN [@[r] EXCEPT !.min = 0, !.max = 0]
                  ELSE @[r]],
       !.rowCols = [r \in Rows |->
                      IF r \in dr THEN {}
                      ELSE IF r \in shorterRow THEN {c \in @[r] : csize[c] # -1} ELSE @[r]],
       !.colRows = [c \in Cols |->
                      IF c \in dc THEN {}
                      ELSE IF c \in shorterCol THEN {r \in @[c] : rsize[r] # -1} ELSE @[c]],
       !.singletonRows = @ \cup {r \in shorterRow : rsize[r] = 1},
       !.emptyCols = @ \cup {c \in shorterCol : csize[c] = 0},
       !.singletonCols = @ \o Ascending({c \in shorterCol : csize[c] = 1}),
       !.redundantRows = {}, !.deletedCols = {}]

(* The value of an empty column, without regard to its bounds.              *)
EmptyColumnValueAtZero(s, c) == 0

EmptyColumnValue(s, c) ==
  IF s.obj[c] > 0 THEN s.lb[c] ELSE IF s.obj[c] < 0 THEN s.ub[c]
  ELSE IF c \notin s.ubInf /\ s.ub[c] < 0 THEN s.ub[c]
  ELSE IF c \notin s.lbInf /\ s.lb[c] > 0 THEN s.lb[c] ELSE 0

(* An empty column goes to the bound its objective prefers, or as close to  *)
(* 0 as possible.  Its bounds are left as they are.                         *)
RemoveEmptyColumn(s, c) ==
  LET v == EmptyColumnValue(s, c)
      unbounded == \/ s.obj[c] > 0 /\ c \in s.lbInf
                   \/ s.obj[c] < 0 /\ c \in s.ubInf
  IN IF s.colSize[c] # 0 \/ (s.dualreds = 1 /\ s.obj[c] = 0) THEN s
     ELSE IF Inactive(s, c) THEN [s EXCEPT !.colSize[c] = -1]
     ELSE IF unbounded THEN Returning(s, "unbndOrInfeas")
     ELSE [CountOut(s, c) EXCEPT !.storage = Append(@, [type |-> "fixed", col |-> c, val |-> v]),
                                 !.offset = @ + v * s.obj[c], !.obj[c] = 0,
                                 !.fixed = @ \cup {c}, !.colSize[c] = -1]

RemoveEmptyColumns(s) ==
  LET Forget(t) == [t EXCEPT !.emptyCols = {}]
  IN IF s.dualreds = 0 THEN s ELSE Then(ForEach(RemoveEmptyColumn, s, s.emptyCols), Forget)

(* flush(true): outstanding coefficients, singleton rows, changed           *)
(* activities, then the matrix.                                             *)
RemoveSingletonRows(s) == ForEach(RemoveSingletonRow, Returning(s, "unchanged"), s.singletonRows)
ForgetRedundant(s) == [s EXCEPT !.changedNow = @ \ s.redundant, !.changedLast = @ \ s.redundant]

(* Columns that are no singletons any more leave the list.                  *)
StillSingleton(s) ==
  LET Still(c) == s.colSize[c] = 1
  IN [s EXCEPT !.singletonCols = SelectSeq(@, Still),
               !.firstNewSingleton = Len(SelectSeq(SubSeq(s.singletonCols, 1, @), Still))]

(* The rows that got down to one column on this flush are forgotten.        *)
FlushForgettingSingletons(s) ==
  LET Check(t) == CheckChangedActivities(t)
      Delete(t) == StillSingleton(DeleteRowsAndCols(RemoveFixedCols(ForgetRedundant(t))))
      Reduced(t) == Returning([t EXCEPT !.singletonRows = {}], "reduced")
      start == RemoveSingletonRows(FlushChangedCoeffs(s))
  IN Then(Then(Then(Then(start, Check), Delete), RemoveEmptyColumns), Reduced)

Flush(s) ==
  LET Check(t) == CheckChangedActivities([t EXCEPT !.singletonRows = {}])
      Delete(t) == StillSingleton(DeleteRowsAndCols(RemoveFixedCols(ForgetRedundant(t))))
      Reduced(t) == Returning(t, "reduced")
      start == RemoveSingletonRows(FlushChangedCoeffs(s))
  IN Then(Then(Then(Then(start, Check), Delete), RemoveEmptyColumns), Reduced)

-----------------------------------------------------------------------------
(* Trivial presolve                                                         *)

(* recomputeLocks adds to the locks, it does not start from 0.              *)
RecomputeLocks(s) ==
  LET Down(c) == {r \in s.colRows[c] : DownLock(s.a[r][c], RowOf(s, r))}
      Up(c) == {r \in s.colRows[c] : UpLock(s.a[r][c], RowOf(s, r))}
  IN [s EXCEPT !.locks = [c \in Cols |-> [down |-> @[c].down + Cardinality(Down(c)),
                                          up |-> @[c].up + Cardinality(Up(c))]]]

(* apply_dualfix moves a bound without touching the activities, which       *)
(* trivialPresolve computes afresh after the columns.                       *)
ApplyDualfix(s, c) ==
  LET down == s.locks[c].down = 0 /\ s.obj[c] >= 0
      up == s.locks[c].up = 0 /\ s.obj[c] <= 0
      atLb == down /\ c \notin s.lbInf
      atUb == up /\ c \notin s.ubInf
  IN IF s.dualreds = 0 \/ (s.dualreds = 1 /\ s.obj[c] = 0) THEN s
     ELSE IF atLb
     THEN [MarkColFixed(s, c) EXCEPT !.ub[c] = s.lb[c], !.ubInf = @ \ {c}, !.ret = "reduced"]
     ELSE IF s.obj[c] # 0 /\ ((down /\ c \in s.lbInf) \/ (up /\ c \in s.ubInf))
     THEN Returning(s, "unbndOrInfeas")
     ELSE IF atUb
     THEN [MarkColFixed(s, c) EXCEPT !.lb[c] = s.ub[c], !.lbInf = @ \ {c}, !.ret = "reduced"]
     ELSE s

TrivialColumn(s, c) ==
  LET bounded == c \notin s.lbInf /\ c \notin s.ubInf
      t == ApplyDualfix(s, c)
  IN IF Inactive(s, c) THEN s
     ELSE IF bounded /\ s.lb[c] > s.ub[c] THEN Returning(s, "infeasible")
     ELSE IF bounded /\ s.lb[c] = s.ub[c] THEN MarkColFixed(s, c)
     ELSE IF Failed(t) \/ c \in t.fixed THEN t
     ELSE IF s.colSize[c] = 0 THEN [t EXCEPT !.emptyCols = @ \cup {c}]
     ELSE IF s.colSize[c] = 1 THEN [t EXCEPT !.singletonCols = Append(@, c)] ELSE t

TrivialColumnPresolve(s) ==
  ForEach(TrivialColumn,
          [s EXCEPT !.emptyCols = {}, !.singletonCols = <<>>, !.firstNewSingleton = 0], Cols)

(* A row without columns is taken out at once, without counting it.         *)
TrivialRow(s, r) ==
  LET row == RowOf(s, r)
      violated == \/ ~row.lhsInf /\ row.lhs > 0
                  \/ ~row.rhsInf /\ row.rhs < 0
      checked == ApplyRowStatuses(s, {r})
      isEquation == /\ CheckStatus(s.act[r], row) = "unknown"
                    /\ ~row.lhsInf /\ ~row.rhsInf /\ row.lhs = row.rhs
  IN IF s.rowSize[r] = 1 THEN RemoveSingletonRow(s, r)
     ELSE IF s.rowSize[r] # 0
     THEN IF isEquation THEN [checked EXCEPT !.equation = @ \cup {r}] ELSE checked
     ELSE IF violated THEN Returning(s, "infeasible")
     ELSE [s EXCEPT !.redundant = @ \cup {r}, !.rowSize[r] = -1]

TrivialRowPresolve(s) == ForEach(TrivialRow, s, Rows)

ClearStates(s) ==
  [s EXCEPT !.colModified = {}, !.colBoundsModified = {},
            !.rowModified = {}, !.rowBoundsModified = {}]

(* trivialPresolve keeps the number of columns that are new on the list,    *)
(* though the list may have become shorter.                                 *)
KeepNewSingletons(s) ==
  LET Still(c) == s.colSize[c] = 1
      new == Len(s.singletonCols) - s.firstNewSingleton
      kept == SelectSeq(s.singletonCols, Still)
  IN [s EXCEPT !.singletonCols = kept, !.firstNewSingleton = Max({0, Len(kept) - new})]

(* The status of the last flush is dropped.                                 *)
TrivialPresolve(s) ==
  LET Relock(t) == IF s.dualreds # 0 THEN RecomputeLocks(t) ELSE t
      Scan(t) == [t EXCEPT !.act = Rescan(t), !.lastChange = [r \in Rows |-> -1]]
      Delete(t) == DeleteRowsAndCols(RemoveFixedCols(t))
      FlushQuietly(t) == Returning(ClearStates(Flush(t)), t.ret)
      columns == Then(TrivialColumnPresolve(Returning(Relock(s), "unchanged")), Scan)
      rows == Then(Then(Then(columns, TrivialRowPresolve), FlushChangedCoeffs), Delete)
      Check(t) == CheckChangedActivities(KeepNewSingletons(t))
  IN Then(Then(Then(rows, RemoveSingletonRows), Check), FlushQuietly)

-----------------------------------------------------------------------------
(* clearChangeInfo, at the start of a fast round before nrounds is counted. *)
ClearChangeInfo(s) ==
  LET Promising(r) ==
        LET row == RowOf(s, r)
        IN \/ ~row.lhsInf /\ (s.act[r].ninfmin >= 1 \/ s.act[r].min < row.lhs)
           \/ ~row.rhsInf /\ (s.act[r].ninfmax >= 1 \/ s.act[r].max > row.rhs)
  IN [s EXCEPT !.changedLast = IF s.nrounds = 0
                               THEN {r \in Rows \ s.redundant : Promising(r)}
                               ELSE s.changedNow,
               !.changedNow = {}, !.firstNewSingleton = Len(s.singletonCols)]
===============================================================================
