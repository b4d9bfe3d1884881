----------------------------- MODULE MatrixStorage -----------------------------
(***************************************************************************)
(* The constraint matrix (core/ConstraintMatrix.hpp) as it lies in memory: *)
(* one storage with its rows and one with its columns, both changed in     *)
(* place, the sizes of rows and columns (-1 once they are gone), and the   *)
(* buffer in which single changes wait.  coef is the matrix the two        *)
(* storages are to represent.                                              *)
(*                                                                         *)
(* The values are integers; an equation is only used with a coefficient 1  *)
(* or -1 of the column it replaces.                                        *)
(***************************************************************************)
EXTENDS SparseStorage, MatrixBuffer, FiniteSets

CONSTANTS
  Matrices,         \* the matrices to begin with: [1..rows -> [1..columns -> Int]]
  NewValues,        \* values a coefficient is changed to
  MaxFillin,        \* presolve.maxfillinpersubstitution
  MaxShiftPerRow,   \* presolve.maxshiftperrow
  LeavesRoom,       \* bound: a coefficient is added only to rows and columns with room
  MaxDeleted,       \* bound: rows and columns deleted at once
  MaxSteps          \* bound: number of operations

ASSUME StorageAssumption == MaxSteps \in Nat /\ LeavesRoom \in BOOLEAN

VARIABLES
  cons, transp,      \* the row storage and the column storage
  rowsize, colsize,
  buffer,            \* MatrixBuffer of ProblemUpdate
  coef,              \* the matrix meant
  steps

vars == <<cons, transp, rowsize, colsize, buffer, coef, steps>>

Rows == DOMAIN rowsize
Cols == DOMAIN colsize
LiveRows == {r \in Rows : rowsize[r] # -1}
LiveCols == {c \in Cols : colsize[c] # -1}

NonZeros(f) == LET cs == SelectSeq([c \in DOMAIN f |-> c], LAMBDA c : f[c] # 0)
               IN [i \in DOMAIN cs |-> [col |-> cs[i], val |-> f[cs[i]]]]
Transposed(m) == [c \in DOMAIN m[1] |-> [r \in DOMAIN m |-> m[r][c]]]
Indices(entries) == [i \in DOMAIN entries |-> entries[i].col]
Sizes(st) == [r \in RowsOf(st) |-> Size(st, r)]
Increasing(S) == SetToSortSeq(S, LAMBDA i, j : i < j)

Counted == steps < MaxSteps /\ steps' = steps + 1

-----------------------------------------------------------------------------
(* Loading a problem: rows from triplets and their transposed storage, the  *)
(* other way round, or both from the buffer of ProblemBuilder.              *)

FilledBuffer(m) ==
  FoldLeft(LAMBDA buf, r : FoldLeft(LAMBDA b, e : AddEntry(b, r, e.col, e.val), buf, Reverse(NonZeros(m[r]))),
           EmptyBuffer, [r \in DOMAIN m |-> r])

Load(m, how) ==
  LET rows == [r \in DOMAIN m |-> NonZeros(m[r])]
      cols == [c \in DOMAIN m[1] |-> NonZeros(Transposed(m)[c])]
      byRow == FromTriplets(rows, Len(cols))
      byCol == FromTriplets(cols, Len(rows))
  IN IF how = "rows" THEN <<byRow, GetTranspose(byRow)>>
     ELSE IF how = "columns" THEN <<GetTranspose(byCol), byCol>>
     ELSE <<FromBuffer(Lines(FilledBuffer(m), "row", Len(rows)), Len(cols)),
            FromBuffer(Lines(FilledBuffer(m), "col", Len(cols)), Len(rows))>>

Init ==
  /\ coef \in Matrices
  /\ \E how \in {"rows", "columns", "buffer"} : cons = Load(coef, how)[1] /\ transp = Load(coef, how)[2]
  /\ rowsize = Sizes(cons) /\ colsize = Sizes(transp)
  /\ buffer = EmptyBuffer /\ steps = 0

-----------------------------------------------------------------------------
(* Single coefficients                                                      *)

HasEntry(r, c) == c \in {Entries(cons, r)[i].col : i \in 1..Size(cons, r)}

(* A change of an entry the row has waits in the buffer.                    *)
AddChange ==
  /\ Counted
  /\ \E r \in LiveRows, c \in LiveCols, v \in NewValues :
       /\ HasEntry(r, c) /\ v # coef[r][c] /\ FindEntry(buffer, "col", r, c) = 0
       /\ buffer' = AddEntry(buffer, r, c, v)
  /\ UNCHANGED <<cons, transp, rowsize, colsize, coef>>

ChangesOf(buf, order, i) ==
  LET line == SelectSeq(InOrder(buf, order), LAMBDA e : (IF order = "row" THEN e.row ELSE e.col) = i)
  IN [k \in DOMAIN line |-> [col |-> IF order = "row" THEN line[k].col ELSE line[k].row, val |-> line[k].val]]

(* changeCoefficients, and the buffer is cleared.                           *)
WriteChanges(st, order) ==
  FoldLeft(LAMBDA t, i : IF ChangesOf(buffer, order, i) = <<>> THEN t
                         ELSE ChangeRowInplace(t, i, ChangesOf(buffer, order, i)),
           st, [i \in RowsOf(st) |-> i])

Changed(r, c) == \E i \in DOMAIN buffer.entry : buffer.entry[i].row = r /\ buffer.entry[i].col = c
ChangedTo(r, c) == (CHOOSE e \in {buffer.entry[i] : i \in DOMAIN buffer.entry} : e.row = r /\ e.col = c).val

ChangeCoefficients ==
  /\ Counted
  /\ buffer # EmptyBuffer
  /\ cons' = Tidy(WriteChanges(cons, "row")) /\ transp' = Tidy(WriteChanges(transp, "col"))
  /\ rowsize' = [r \in Rows |-> IF rowsize[r] = -1 THEN -1 ELSE Size(cons', r)]
  /\ colsize' = [c \in Cols |-> IF colsize[c] = -1 THEN -1 ELSE Size(transp', c)]
  /\ coef' = [r \in Rows |-> [c \in Cols |-> IF Changed(r, c) THEN ChangedTo(r, c) ELSE coef[r][c]]]
  /\ buffer' = EmptyBuffer

(* change_coefficient, for an entry the row does not have: it is refused    *)
(* if exactly one place is left.                                            *)
OnePlaceLeft(st, r) == st.end[r] + 1 = st.start[r + 1]
NoPlaceLeft(st, r) == st.end[r] = st.start[r + 1]

ChangeCoefficient ==
  /\ Counted
  /\ \E r \in LiveRows, c \in LiveCols, v \in NewValues \ {0} :
       /\ ~HasEntry(r, c)
       /\ LeavesRoom => ~NoPlaceLeft(cons, r) /\ ~NoPlaceLeft(transp, c)
       /\ ~OnePlaceLeft(cons, r) /\ ~OnePlaceLeft(transp, c)
       /\ cons' = ChangeRow(cons, r, <<[col |-> c, val |-> v]>>, FALSE)
       /\ transp' = ChangeRow(transp, c, <<[col |-> r, val |-> v]>>, FALSE)
       /\ rowsize' = [rowsize EXCEPT ![r] = Size(cons', r)]
       /\ colsize' = [colsize EXCEPT ![c] = Size(transp', c)]
       /\ coef' = [coef EXCEPT ![r][c] = v]
  /\ UNCHANGED buffer

-----------------------------------------------------------------------------
(* deleteRowsAndCols: the sizes are counted down in the other storage, then *)
(* what is left is compacted to these sizes.                                *)

SizesWithout(sizes, deleted, other, deletedOther) ==
  [i \in DOMAIN sizes |->
     IF i \in deleted THEN -1
     ELSE IF sizes[i] = -1 THEN -1
     ELSE sizes[i] - Cardinality({j \in deletedOther : i \in {Entries(other, j)[k].col : k \in 1..Size(other, j)}})]

Compacted(st, i, size, othersize) ==
  LET kept == SelectSeq(Entries(st, i), LAMBDA e : othersize[e.col] # -1)
  IN [st EXCEPT !.cell = Written(@, st.start[i], kept), !.end[i] = st.start[i] + size]

CompactedAll(st, sizes, othersize, dropsEmpty) ==
  FoldLeft(LAMBDA t, i :
             IF sizes[i] = -1 \/ sizes[i] = Size(t, i) THEN t
             ELSE IF sizes[i] = 0 /\ dropsEmpty THEN DropRow(t, i)
             ELSE Compacted(t, i, sizes[i], othersize),
           st, [i \in DOMAIN sizes |-> i])

DeleteRowsAndCols ==
  /\ Counted /\ buffer = EmptyBuffer
  /\ \E drows \in SUBSET LiveRows, dcols \in SUBSET LiveCols, backwards \in BOOLEAN :
       LET InTurn(S) == IF backwards THEN Reverse(Increasing(S)) ELSE Increasing(S)
           droppedRows == FoldLeft(DropRow, cons, InTurn(drows))
           droppedCols == FoldLeft(DropRow, transp, InTurn(dcols))
           inDropped == FoldLeft(LAMBDA n, r : n + rowsize[r], 0, Increasing(drows))
       IN /\ Cardinality(drows) + Cardinality(dcols) \in 1..MaxDeleted
          /\ rowsize' = SizesWithout(rowsize, drows, transp, dcols)
          /\ colsize' = SizesWithout(colsize, dcols, cons, drows)
          /\ cons' = Tidy([CompactedAll(droppedRows, rowsize', colsize', FALSE) EXCEPT
                             !.nnz = @ - inDropped - Cardinality({<<r, c>> \in (LiveRows \ drows) \X dcols : HasEntry(r, c)})])
          /\ transp' = Tidy([CompactedAll(droppedCols, colsize', rowsize', TRUE) EXCEPT !.nnz = cons'.nnz])
          /\ coef' = [r \in Rows |-> [c \in Cols |-> IF r \in drows \/ c \in dcols THEN 0 ELSE coef[r][c]]]
  /\ UNCHANGED buffer

(* compress: both storages, each with the sizes of the other one.           *)
Compress ==
  /\ Counted /\ buffer = EmptyBuffer
  /\ \E full \in BOOLEAN :
       /\ cons' = CompressStorage(cons, rowsize, colsize, full)
       /\ transp' = CompressStorage(transp, colsize, rowsize, full)
  /\ rowsize' = SelectSeq(rowsize, LAMBDA n : n # -1)
  /\ colsize' = SelectSeq(colsize, LAMBDA n : n # -1)
  /\ coef' = [i \in DOMAIN Kept(rowsize) |-> [j \in DOMAIN Kept(colsize) |-> coef[Kept(rowsize)[i]][Kept(colsize)[j]]]]
  /\ UNCHANGED buffer

-----------------------------------------------------------------------------
(* Substituting column c by an equation: a row eq.row of the matrix, read   *)
(* where it lies in memory (at, len), or a vector of its own (REPLACE).     *)

RowEquation(q) == [row |-> q, at |-> cons.start[q], len |-> rowsize[q], vector |-> <<>>]
OwnEquation(vector) == [row |-> 0, at |-> 0, len |-> Len(vector), vector |-> vector]
EquationIn(st, eq) == IF eq.row = 0 THEN eq.vector ELSE SubSeq(st.cell, eq.at, eq.at + eq.len - 1)

ColumnsIn(st, r) == {e.col : e \in ToSet(Entries(st, r))}
FillIn(st, eq, entries, r) == IF r = eq.row THEN 0 ELSE Cardinality(ToSet(Indices(entries)) \ ColumnsIn(st, r)) - 1

(* checkAggregationSparsityCondition: not too much fill-in, and room for it *)
(* in every row, then in every column.  Rows that have been shifted stay    *)
(* shifted when the answer is no.                                           *)
RoomForColumns(eq, entries, c, rows, byRow) ==
  LET cols == Indices(entries)
      gone == IF eq.row = 0 THEN 0 ELSE 1
      fillin == [k \in DOMAIN cols |-> IF cols[k] = c THEN 0
                                       ELSE Cardinality(ToSet(rows) \ ColumnsIn(transp, cols[k])) - gone]
      short == \E k \in DOMAIN cols : transp.start[cols[k] + 1] - transp.end[cols[k]] < fillin[k]
      byCol == IF short THEN ShiftRows(transp, cols, fillin, MaxShiftPerRow) ELSE [ok |-> TRUE, st |-> transp]
  IN [ok |-> byCol.ok, cons |-> byRow.st, transp |-> byCol.st]

RoomForRows(eq, entries, c, rows) ==
  LET fillin == [k \in DOMAIN rows |-> FillIn(cons, eq, entries, rows[k])]
      total == FoldLeft(LAMBDA n, k : n + k, IF eq.row = 0 THEN 0 ELSE -Len(entries), fillin)
      byRow == ShiftRows(cons, rows, fillin, MaxShiftPerRow)
  IN IF total > MaxFillin THEN [ok |-> FALSE, cons |-> cons, transp |-> transp]
     ELSE IF ~byRow.ok THEN [ok |-> FALSE, cons |-> byRow.st, transp |-> transp]
     ELSE RoomForColumns(eq, entries, c, rows, byRow)

CheckAggregationSparsityCondition(eq, c) ==
  RoomForRows(eq, EquationIn(cons, eq), c, Indices(Entries(transp, c)))

(* aggregate: in every row of the column the equation is added so that the  *)
(* column vanishes; the equation's own row is emptied when it is met.       *)
(* Every new value is noted for the columns.                                *)
Addition(entries, c, a) ==
  LET base == entries[CHOOSE k \in DOMAIN entries : entries[k].col = c].val
  IN [k \in DOMAIN entries |->
        [col |-> entries[k].col, val |-> IF entries[k].col = c THEN -a ELSE entries[k].val * (-a * base)]]

ValueAt(st, r, c) ==
  LET at == SelectSeq(Entries(st, r), LAMBDA e : e.col = c) IN IF at = <<>> THEN 0 ELSE at[1].val

(* Mutant: entries that have vanished are not noted.                        *)
NotedNonZero(new, r, adds) ==
  SelectSeq([k \in DOMAIN adds |-> [col |-> adds[k].col, row |-> r, val |-> ValueAt(new, r, adds[k].col)]],
            LAMBDA n : n.val # 0)

Noted(new, r, adds) == [k \in DOMAIN adds |-> [col |-> adds[k].col, row |-> r, val |-> ValueAt(new, r, adds[k].col)]]

AddToRow(w, r, adds) ==
  LET new == ChangeRow(w.st, r, adds, TRUE)
  IN [st |-> new, noted |-> w.noted \o Noted(new, r, adds), size |-> [w.size EXCEPT ![r] = Size(new, r)]]

(* Mutant: the entries of the equation stay counted.                        *)
EmptyEquationUncounted(w, eq, entries) ==
  [st |-> DropRow(w.st, eq.row),
   noted |-> w.noted \o [k \in DOMAIN entries |-> [col |-> entries[k].col, row |-> eq.row, val |-> 0]],
   size |-> [w.size EXCEPT ![eq.row] = -1]]

EmptyEquation(w, eq, entries) ==
  [st |-> [DropRow(w.st, eq.row) EXCEPT !.nnz = @ - w.size[eq.row]],
   noted |-> w.noted \o [k \in DOMAIN entries |-> [col |-> entries[k].col, row |-> eq.row, val |-> 0]],
   size |-> [w.size EXCEPT ![eq.row] = -1]]

AggregateRow(w, eq, c, e) ==
  IF eq.row # 0 /\ w.st.start[e.col] = eq.at THEN EmptyEquation(w, [eq EXCEPT !.row = e.col], EquationIn(w.st, eq))
  ELSE AddToRow(w, e.col, Addition(EquationIn(w.st, eq), c, e.val))

(* The noted values are sorted and written column by column.                *)
AggregateColumns(st, noted) ==
  FoldLeft(LAMBDA t, c :
             LET own == SortSeq(SelectSeq(noted, LAMBDA n : n.col = c), LAMBDA m, n : m.row < n.row)
             IN ChangeRow(t, c, [k \in DOMAIN own |-> [col |-> own[k].row, val |-> own[k].val]], FALSE),
           st, Increasing({n.col : n \in ToSet(noted)}))

Aggregated(room, eq, c) ==
  LET rows == FoldLeft(LAMBDA w, e : AggregateRow(w, eq, c, e),
                       [st |-> room.cons, noted |-> <<>>, size |-> rowsize], Entries(room.transp, c))
      cols == AggregateColumns(room.transp, rows.noted)
  IN [cons |-> rows.st, rowsize |-> rows.size, transp |-> DropRow(cols, c),
      colsize |-> [d \in Cols |-> IF d = c THEN -1 ELSE IF colsize[d] = -1 THEN -1 ELSE Size(cols, d)]]

(* The matrix meant: the equation added to the rows of the column.          *)
Coefficient(entries, c) == FoldLeft(LAMBDA v, e : IF e.col = c THEN e.val ELSE v, 0, entries)
Substituted(m, entries, q, c) ==
  [r \in DOMAIN m |-> [d \in DOMAIN m[r] |->
     IF r = q THEN 0 ELSE m[r][d] - m[r][c] * Coefficient(entries, c) * Coefficient(entries, d)]]

Replace(room, eq, c) ==
  IF ~room.ok
  THEN /\ cons' = Tidy(room.cons) /\ transp' = Tidy(room.transp)
       /\ UNCHANGED <<rowsize, colsize, coef>>
  ELSE \E done \in {Aggregated(room, eq, c)} :
         /\ cons' = Tidy(done.cons) /\ transp' = Tidy(done.transp)
         /\ rowsize' = done.rowsize /\ colsize' = done.colsize
         /\ coef' = Substituted(coef, EquationIn(cons, eq), eq.row, c)

Substitute ==
  /\ Counted /\ buffer = EmptyBuffer
  /\ \E q \in LiveRows, c \in LiveCols :
       /\ rowsize[q] > 1 /\ coef[q][c] \in {-1, 1}
       /\ Replace(CheckAggregationSparsityCondition(RowEquation(q), c), RowEquation(q), c)
  /\ UNCHANGED buffer

ReplaceColumn ==
  /\ Counted /\ buffer = EmptyBuffer
  /\ \E c, d \in LiveCols, factor \in NewValues \ {0} :
       LET one == [col |-> c, val |-> 1]
           other == [col |-> d, val |-> -factor]
           eq == OwnEquation(IF c < d THEN <<one, other>> ELSE <<other, one>>)
       IN c # d /\ Replace(CheckAggregationSparsityCondition(eq, c), eq, c)
  /\ UNCHANGED buffer

-----------------------------------------------------------------------------
(* sparsify: an equation is added to a row if that cancels more entries     *)
(* than it adds; at most one is added, in a column with a place to spare.   *)

SparsifyColumns(t, only, both, target, scale) ==
  LET filled == FoldLeft(LAMBDA u, e : ChangeRow(u, e.col, <<[col |-> target, val |-> scale * e.val]>>, FALSE), t, only)
  IN FoldLeft(LAMBDA u, e : ChangeRowInplace(u, e.col, <<[col |-> target, val |-> ValueAt(cons, target, e.col) + scale * e.val]>>),
              filled, both)

Sparsify ==
  /\ Counted /\ buffer = EmptyBuffer
  /\ \E q, target \in LiveRows, scale \in NewValues \ {0} :
       LET eq == Entries(cons, q)
           both == SelectSeq(eq, LAMBDA e : HasEntry(target, e.col))
           only == SelectSeq(eq, LAMBDA e : ~HasEntry(target, e.col))
           cancel == Len(SelectSeq(both, LAMBDA e : ValueAt(cons, target, e.col) + scale * e.val = 0)) - Len(only)
       IN /\ q # target /\ Len(only) < 2 /\ cancel > 0
          /\ \A k \in DOMAIN only : Room(transp, only[k].col) # colsize[only[k].col]
          /\ transp' = Tidy(SparsifyColumns(transp, only, both, target, scale))
          /\ cons' = Tidy(ChangeRow(cons, target, [k \in DOMAIN eq |-> [eq[k] EXCEPT !.val = scale * @]], TRUE))
          /\ rowsize' = [rowsize EXCEPT ![target] = Size(cons', target)]
          /\ colsize' = [c \in Cols |-> IF colsize[c] = -1 THEN -1 ELSE Size(transp', c)]
          /\ coef' = [coef EXCEPT ![target] = [c \in Cols |-> @[c] + scale * coef[q][c]]]
  /\ UNCHANGED buffer

-----------------------------------------------------------------------------
Next == AddChange \/ ChangeCoefficients \/ ChangeCoefficient \/ DeleteRowsAndCols \/ Compress
        \/ Substitute \/ ReplaceColumn \/ Sparsify

Spec == Init /\ [][Next]_vars

-----------------------------------------------------------------------------
(* Properties                                                               *)

Represents(st, sizes, m) ==
  \A i \in DOMAIN sizes : Entries(st, i) = (IF sizes[i] = -1 THEN <<>> ELSE NonZeros(m[i]))

(* Whatever has been added, substituted, deleted, moved or compressed: the  *)
(* row storage holds the matrix that is meant, each row sorted by column    *)
(* and free of zeros.                                                       *)
RowsExact == Represents(cons, rowsize, coef)

(* The column storage, which is kept by other code, holds its transpose.    *)
ColumnsExact ==
  \A c \in Cols : Entries(transp, c) =
    (IF colsize[c] = -1 THEN <<>> ELSE NonZeros([r \in Rows |-> coef[r][c]]))

(* No row and no column reaches into the next one or behind the array       *)
(* (the assertion at SparseStorage.hpp:339).                                *)
NoneOverlaps == Ordered(cons) /\ Ordered(transp)

Counts(st, sizes) ==
  /\ \A i \in DOMAIN sizes : sizes[i] # -1 => sizes[i] = Size(st, i)
  /\ st.nnz = FoldLeft(LAMBDA n, i : n + Size(st, i), 0, [i \in RowsOf(st) |-> i])

(* The sizes and the number of nonzeros, which are counted along by every   *)
(* operation, are those of the storages.                                    *)
SizesExact == Counts(cons, rowsize) /\ Counts(transp, colsize)

(* Both trees of the buffer list the waiting changes, each in its own       *)
(* order: changeRowInplace misses a change that comes too late.  So does the *)
(* traversal that begins behind one of them.                                *)
BufferOrdered ==
  \A order \in Orders :
    LET listed == InOrder(buffer, order)
    IN /\ ToSet(listed) = ToSet(buffer.entry) /\ Len(listed) = Len(buffer.entry)
       /\ \A k \in 1..Len(listed) - 1 : Lesser(order, listed[k], listed[k + 1])
       /\ \A e \in ToSet(buffer.entry) :
            InOrderFrom(buffer, order, e.row, e.col) = SelectSeq(listed, LAMBDA f : Lesser(order, e, f))
================================================================================
