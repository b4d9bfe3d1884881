----------------------------- MODULE SparseStorage -----------------------------
(***************************************************************************)
(* A sparse matrix stored row by row in one array, with spare room between *)
(* the rows (core/SparseStorage.hpp).  Row r takes the cells start[r] ..   *)
(* end[r]-1; the room up to start[r+1] is its own to grow into.  The row   *)
(* behind the last one marks the end of the array.                         *)
(*                                                                         *)
(* Cells outside of the rows are never read: they are set to Unused.       *)
(***************************************************************************)
EXTENDS Integers, Sequences, SequencesExt

CONSTANTS
  SpareRatio,        \* factor of the room a row is given (DEFAULT_SPARE_RATIO)
  MinInterRowSpace   \* room on top of it (DEFAULT_MIN_INTER_ROW_SPACE)

ASSUME SpaceAssumption == SpareRatio \in Nat \ {0} /\ MinInterRowSpace \in Nat

Unused == [col |-> 0, val |-> 0]
Least(a, b) == IF a < b THEN a ELSE b

NRowsOf(st) == Len(st.start) - 1
RowsOf(st) == 1..NRowsOf(st)
Size(st, r) == st.end[r] - st.start[r]
Room(st, r) == st.start[r + 1] - st.start[r]
Entries(st, r) == SubSeq(st.cell, st.start[r], st.end[r] - 1)
RowAlloc(st, size) == size * st.ratio + st.space

(* The cells from position at on are overwritten.                           *)
Written(cell, at, entries) ==
  SubSeq(cell, 1, at - 1) \o entries \o SubSeq(cell, at + Len(entries), Len(cell))

Tidy(st) ==
  [st EXCEPT !.cell = [p \in DOMAIN @ |->
     IF \E r \in RowsOf(st) : st.start[r] <= p /\ p < st.end[r] THEN @[p] ELSE Unused]]

(* No row reaches into the next one or behind the array                     *)
Ordered(st) ==
  /\ \A i \in RowsOf(st) : st.start[i] <= st.end[i] /\ st.end[i] <= st.start[i + 1]
  /\ st.start[NRowsOf(st) + 1] <= Len(st.cell) + 1

-----------------------------------------------------------------------------
(* Layouts                                                                  *)

(* Rows one after the other, row r with the given room; the array ends with *)
(* the last row or where the allocation ends.                               *)
Laid(rows, width, room, endsAtAlloc) ==
  LET n == Len(rows)
      nnz == FoldLeft(LAMBDA k, row : k + Len(row), 0, rows)
      starts[r \in 1..n + 1] == IF r = 1 THEN 1 ELSE starts[r - 1] + room[r - 1]
      alloc == nnz * SpareRatio + n * MinInterRowSpace
      last == IF endsAtAlloc THEN alloc + 1 ELSE starts[n + 1]
      start == [r \in 1..n + 1 |-> IF r > n THEN last ELSE starts[r]]
  IN [start |-> start,
      end |-> [r \in 1..n + 1 |-> IF r > n THEN last ELSE start[r] + Len(rows[r])],
      cell |-> FoldLeft(LAMBDA cell, r : Written(cell, start[r], rows[r]),
                        [p \in 1..alloc |-> Unused], [r \in 1..n |-> r]),
      width |-> width, nnz |-> nnz, ratio |-> SpareRatio, space |-> MinInterRowSpace]

Generous(size) == size * SpareRatio + MinInterRowSpace

(* From triplets: a row is closed, and given room, when the next entry lies *)
(* in another row; the first row is open from the beginning.                *)
FromTriplets(rows, width) ==
  Laid(rows, width, [r \in DOMAIN rows |-> IF r = 1 \/ rows[r] # <<>> THEN Generous(Len(rows[r])) ELSE 0],
       FALSE)

(* From the buffer of entries (buildCSR, buildCSC): empty rows get no room. *)
FromBuffer(rows, width) ==
  Laid(rows, width, [r \in DOMAIN rows |-> IF rows[r] # <<>> THEN Generous(Len(rows[r])) ELSE 0],
       TRUE)

(* The transposed storage: room for every row.                              *)
TransposedRow(st, c) ==
  FoldLeft(LAMBDA row, r : row \o [i \in 1..Len(SelectSeq(Entries(st, r), LAMBDA e : e.col = c)) |->
                                     [col |-> r, val |-> SelectSeq(Entries(st, r), LAMBDA e : e.col = c)[i].val]],
           <<>>, [r \in RowsOf(st) |-> r])
GetTranspose(st) ==
  LET rows == [c \in 1..st.width |-> TransposedRow(st, c)]
  IN Laid(rows, NRowsOf(st), [c \in 1..st.width |-> Generous(Len(rows[c]))], TRUE)

-----------------------------------------------------------------------------
(* Changing a row                                                           *)

(* The cursor i of the loops runs over the old entries; out is what has     *)
(* been written so far.                                                     *)
CopyUpTo(row, w, k) == [i |-> k, out |-> w.out \o SubSeq(row, w.i, k - 1)]
(* Mutant: an entry that has become zero stays.                             *)
WithZero(out, change) == Append(out, change)
WithUnlessZero(out, change) == IF change.val = 0 THEN out ELSE Append(out, change)

(* changeRowInplace: every change is of an existing entry; the cursor only  *)
(* moves forward, so that the changes have to come in the order of the row. *)
InplaceStep(row, w, change) ==
  LET at == {k \in w.i..Len(row) : row[k].col = change.col}
      k == IF at = {} THEN Len(row) + 1 ELSE CHOOSE k \in at : TRUE
  IN [i |-> k + 1, out |-> WithUnlessZero(CopyUpTo(row, w, k).out, change)]

ChangeRowInplace(st, r, changes) ==
  LET row == Entries(st, r)
      done == FoldLeft(LAMBDA w, change : InplaceStep(row, w, change), [i |-> 1, out |-> <<>>], changes)
      new == CopyUpTo(row, done, Len(row) + 1).out
  IN [st EXCEPT !.cell = Written(@, st.start[r], new),
                !.end[r] = st.start[r] + Len(new),
                !.nnz = @ - Len(row) + Len(new)]

(* changeRow: a merge of two ordered sequences.  Where both have an entry   *)
(* the new one is added (the row storage) or taken as it is (the columns).  *)
MergeStep(row, adds, w, change) ==
  LET k == w.i + Len(SelectSeq(SubSeq(row, w.i, Len(row)), LAMBDA e : e.col < change.col))
      copied == CopyUpTo(row, w, k)
      meets == k <= Len(row) /\ row[k].col = change.col
      merged == [change EXCEPT !.val = IF adds THEN @ + row[k].val ELSE @]
  IN IF meets THEN [i |-> k + 1, out |-> WithUnlessZero(copied.out, merged)]
     ELSE [i |-> k, out |-> Append(copied.out, change)]

ChangeRow(st, r, changes, adds) ==
  LET row == Entries(st, r)
      done == FoldLeft(LAMBDA w, change : MergeStep(row, adds, w, change), [i |-> 1, out |-> <<>>], changes)
      new == CopyUpTo(row, done, Len(row) + 1).out
  IN [st EXCEPT !.cell = Written(@, st.start[r], new),
                !.end[r] = st.start[r] + Len(new),
                !.nnz = @ - Len(row) + Len(new)]

(* A row that is dropped: its room falls to the row before it.              *)
DropRow(st, r) == [st EXCEPT !.start[r] = st.start[r + 1], !.end[r] = st.start[r + 1]]

-----------------------------------------------------------------------------
(* Making room: shiftRows moves rows around row to the left and to the      *)
(* right until it has the space it is missing.  l and r are the next rows   *)
(* to move, left and right the space found last on each side, budget the    *)
(* number of entries that may still be moved.                               *)
(*                                                                          *)
(* With one side left the code notes a space of 0 as found, too; the search *)
(* then goes on to that side until it finds some, or fails.                 *)

GoLeft(st, w) ==
  LET found == Least(w.missing, st.start[w.l] - st.end[w.l - 1])
  IN [w EXCEPT !.l = @ - 1, !.budget = @ - Size(st, w.l), !.missing = @ - found,
               !.left = IF found # 0 THEN found ELSE @]

GoRight(st, w) ==
  LET found == Least(w.missing, st.start[w.r + 1] - st.end[w.r])
  IN [w EXCEPT !.r = @ + 1, !.budget = @ - Size(st, w.r), !.missing = @ - found,
               !.right = IF found # 0 THEN found ELSE @]

(* With both sides open the side that gives more space per moved entry.     *)
PrefersLeft(st, w) ==
  LET nleft == Size(st, w.l)
      nright == Size(st, w.r)
      spaceleft == Least(w.missing, st.start[w.l] - st.end[w.l - 1])
      spaceright == Least(w.missing, st.start[w.r + 1] - st.end[w.r])
  IN \/ nleft = 0
     \/ nright # 0 /\ nleft <= w.budget /\ spaceleft * nright >= spaceright * nleft

(* Mutant: rows that already have their room may be moved again.           *)
LeftBoundForgetful(rows, i) == 1
LeftBound(rows, i) == IF i = 1 THEN 1 ELSE rows[i - 1] + 1
RightBound(st, rows, i) == IF i = Len(rows) THEN NRowsOf(st) + 1 ELSE rows[i + 1]

SearchStep(st, leftbound, rightbound, w) ==
  LET openLeft == w.l > leftbound
      openRight == w.r < rightbound
  IN IF w.missing = 0 \/ w.failed THEN w
     ELSE IF openLeft /\ openRight /\ PrefersLeft(st, w) THEN GoLeft(st, w)
     ELSE IF openRight /\ Size(st, w.r) <= w.budget THEN GoRight(st, w)
     ELSE IF openLeft /\ ~openRight /\ Size(st, w.l) <= w.budget THEN GoLeft(st, w)
     ELSE [w EXCEPT !.failed = TRUE]

(* The search ends after a step per row: each moves one.                    *)
Search(st, leftbound, rightbound, initial) ==
  LET after[k \in 0..NRowsOf(st)] ==
        IF k = 0 THEN initial ELSE SearchStep(st, leftbound, rightbound, after[k - 1])
  IN after[NRowsOf(st)]

(* Rows are moved within the array, one after the other in the given order, *)
(* each to its position in to: a row that is moved onto another one that    *)
(* has yet to move overwrites it.  One row may overlap its own new place    *)
(* (std::move and std::move_backward begin at the side they move to).       *)
MovedRange(cell, from, at, size) ==
  [p \in DOMAIN cell |-> IF at <= p /\ p < at + size THEN cell[from + (p - at)] ELSE cell[p]]

MovedRows(st, order, to) ==
  LET after[i \in 0..Len(order)] ==
        IF i = 0 THEN st.cell
        ELSE MovedRange(after[i - 1], st.start[order[i]], to[order[i]], Size(st, order[i]))
  IN after[Len(order)]

(* Rows lo..hi are packed without gaps, from position at on.                *)
Filled(st, lo, hi) == SumFunctionOnSet([k \in lo..hi |-> Size(st, k)], lo..hi)
PackedStart(st, lo, k, at) == at + Filled(st, lo, k - 1)

Packed(st, lo, hi, at, order) ==
  [st EXCEPT !.start = [k \in DOMAIN @ |-> IF k \in lo..hi THEN PackedStart(st, lo, k, at) ELSE @[k]],
             !.end = [k \in DOMAIN @ |-> IF k \in lo..hi THEN PackedStart(st, lo, k, at) + Size(st, k) ELSE @[k]],
             !.cell = MovedRows(st, order, [k \in lo..hi |-> PackedStart(st, lo, k, at)])]

(* To the left from the left, to the right from the right                   *)
Upwards(lo, hi) == [i \in 1..hi - lo + 1 |-> lo + i - 1]
Downwards(lo, hi) == [i \in 1..hi - lo + 1 |-> hi + 1 - i]

(* The rows at the end of the search that found no space stay: the farthest *)
(* row moved is the last one with a gap in front of it, or behind it.       *)
GapBefore(st, k) == st.start[k] # st.end[k - 1]
FarthestLeft(st, row, l) ==
  CHOOSE k \in l + 1..row : GapBefore(st, k) /\ \A j \in l + 1..k - 1 : ~GapBefore(st, j)
FarthestRight(st, row, r) ==
  CHOOSE k \in row + 1..r - 1 : GapBefore(st, k + 1) /\ \A j \in k + 1..r - 1 : ~GapBefore(st, j + 1)

PackedLeft(st, row, w) ==
  LET lo == FarthestLeft(st, row, w.l)
  IN IF w.left = 0 THEN st ELSE Packed(st, lo, row, st.start[lo] - w.left, Upwards(lo, row))

PackedRight(st, row, w) ==
  LET hi == FarthestRight(st, row, w.r)
  IN IF w.right = 0 THEN st
     ELSE Packed(st, row + 1, hi, st.end[hi] + w.right - Filled(st, row + 1, hi), Downwards(row + 1, hi))

Behind(st, r) == st.start[r + 1] - st.end[r]

ShiftOneRow(w, rows, i, required, maxshift) ==
  LET row == rows[i]
      missing == required[i] - Behind(w.st, row)
      initial == [l |-> row, r |-> row + 1, left |-> 0, right |-> 0, missing |-> missing, budget |-> maxshift, failed |-> FALSE]
      found == Search(w.st, LeftBound(rows, i), RightBound(w.st, rows, i), initial)
  IN IF ~w.ok \/ missing <= 0 THEN w
     ELSE IF found.failed THEN [w EXCEPT !.ok = FALSE]
     ELSE [w EXCEPT !.st = PackedRight(PackedLeft(@, row, found), row, found)]

(* What has been moved stays moved when a later row cannot be served.       *)
ShiftRows(st, rows, required, maxshift) ==
  LET served[i \in 0..Len(rows)] ==
        IF i = 0 THEN [ok |-> TRUE, st |-> st] ELSE ShiftOneRow(served[i - 1], rows, i, required, maxshift)
  IN served[Len(rows)]

-----------------------------------------------------------------------------
(* Compressing: dropped rows (size -1) and the room that exceeds the        *)
(* allocation are given up, columns are renumbered.                         *)

NewIndex(size, i) == Len(SelectSeq(SubSeq(size, 1, i), LAMBDA n : n # -1))
Kept(size) == SelectSeq([i \in DOMAIN size |-> i], LAMBDA i : size[i] # -1)

Offsets(st, rowsize) ==
  LET offset[r \in 1..NRowsOf(st) + 1] ==
        IF r = 1 THEN 0
        ELSE LET free == offset[r - 1] + Room(st, r - 1)
                 over == free - RowAlloc(st, Size(st, r - 1))
             IN IF rowsize[r - 1] = -1 THEN free ELSE IF over > 0 THEN over ELSE 0
  IN offset

CompressStorage(st, rowsize, colsize, full) ==
  LET sized == IF full THEN [st EXCEPT !.ratio = 1, !.space = 0] ELSE st
      offset == Offsets(sized, rowsize)
      kept == Kept(rowsize)
      last == NRowsOf(st) + 1
      moved == MovedRows(st, kept, [r \in RowsOf(st) |-> st.start[r] - offset[r]])
  IN [sized EXCEPT
        !.start = [k \in 1..Len(kept) + 1 |-> IF k > Len(kept) THEN st.start[last] - offset[last] ELSE st.start[kept[k]] - offset[kept[k]]],
        !.end = [k \in 1..Len(kept) + 1 |-> IF k > Len(kept) THEN st.end[last] - offset[last] ELSE st.end[kept[k]] - offset[kept[k]]],
        !.cell = [p \in 1..Len(st.cell) - offset[last] |->
                    IF moved[p].col = 0 THEN Unused ELSE [moved[p] EXCEPT !.col = NewIndex(colsize, moved[p].col)]],
        !.width = Len(Kept(colsize))]
================================================================================
