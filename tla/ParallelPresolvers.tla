---------------------------- MODULE ParallelPresolvers ----------------------------
(***************************************************************************)
(* Presolvers that look for proportional columns and rows.                 *)
(***************************************************************************)
EXTENDS BoundPresolvers


(* ParallelColDetection on integral columns with finite bounds.  Buckets of *)
(* proportional columns are sorted by the size of the coefficients and then *)
(* by the random permutation perm.  A column is merged into the first of    *)
(* its bucket; if that fails for one of them, any pair is tried.            *)
Candidates(s) == {c \in Active(s) \ (s.lbInf \cup s.ubInf) : Cardinality(s.colRows[c]) > 1}
Proportional(s, k, c) ==
  /\ s.colRows[k] = s.colRows[c]
  /\ \A r, q \in s.colRows[k] : s.a[r][k] * s.a[q][c] = s.a[q][k] * s.a[r][c]
  /\ \A r \in s.colRows[k] : s.obj[k] * s.a[r][c] = s.obj[c] * s.a[r][k]

(* c into k; the domain of k must fill the gaps between the steps of c.     *)
NoHolesUnchecked(s, k, scale) == TRUE
NoHoles(s, k, scale) == s.ub[k] - s.lb[k] >= AbsOf(scale) - 1
Mergeable(s, k, c) ==
  \A r \in s.colRows[k] : /\ s.a[r][c] % AbsOf(s.a[r][k]) = 0
                          /\ NoHoles(s, k, FloorDiv(s.a[r][c], s.a[r][k]))

ParallelColDetection(s, perm) ==
  LET Before(k, c) == \A r \in s.colRows[k] :
                        \/ AbsOf(s.a[r][k]) < AbsOf(s.a[r][c])
                        \/ AbsOf(s.a[r][k]) = AbsOf(s.a[r][c]) /\ perm[k] < perm[c]
      pairs == {p \in Candidates(s) \X Candidates(s) :
                  p[1] # p[2] /\ Proportional(s, p[1], p[2]) /\ Before(p[1], p[2])}
      first == {p \in pairs : ~\E q \in pairs : q[2] = p[1]}
      Fits(p) == Mergeable(s, p[1], p[2])
      tried == {p \in pairs : p \in first \/ \E q \in first : Proportional(s, q[1], p[1]) /\ ~Fits(q)}
  IN Found({Tsx(0, <<LockCol(p[2]), LockCol(p[1]),
                     [op |-> "parallel", col |-> p[2], col2 |-> p[1]]>>) : p \in {q \in tried : Fits(q)}})

-----------------------------------------------------------------------------
(* ParallelRowDetection.  Rows with the same columns and proportional       *)
(* coefficients form a bucket, sorted by the random permutation perm.  One  *)
(* row remains and takes over the tightest sides: an equation if there is   *)
(* one, otherwise the row with the largest coefficients.                    *)

FirstCol(s, r) == Min(s.rowCols[r])
ParallelRows(s, q, r) ==
  /\ s.rowCols[q] = s.rowCols[r]
  /\ \A c, d \in s.rowCols[r] : s.a[q][c] * s.a[r][d] = s.a[q][d] * s.a[r][c]

(* What is known of the remaining row: its sides and the rows they are from.*)
AsRemaining(s, r) ==
  [row |-> r, lhs |-> s.lhs[r], rhs |-> s.rhs[r], lhsInf |-> r \in s.lhsInf,
   rhsInf |-> r \in s.rhsInf, lhsRow |-> r, rhsRow |-> r, failed |-> FALSE]

(* The sides of a row times n / k; the quotients are integral.               *)
ScaledSides(row, n, k) ==
  LET flip == n * k < 0
      Scaled(v) == FloorDiv(v * n, k)
  IN [row EXCEPT !.lhs = Scaled(IF flip THEN row.rhs ELSE row.lhs),
                 !.rhs = Scaled(IF flip THEN row.lhs ELSE row.rhs),
                 !.lhsInf = IF flip THEN row.rhsInf ELSE row.lhsInf,
                 !.rhsInf = IF flip THEN row.lhsInf ELSE row.rhsInf,
                 !.lhsRow = IF flip THEN row.rhsRow ELSE row.lhsRow,
                 !.rhsRow = IF flip THEN row.lhsRow ELSE row.rhsRow]
ScaledSidesUnflipped(row, n, k) ==
  [row EXCEPT !.lhs = FloorDiv(row.lhs * n, k), !.rhs = FloorDiv(row.rhs * n, k)]

(* Two inequalities: the tighter sides, those of first if they are equal.   *)
TighterSides(first, other) ==
  LET lhsOfOther == ~other.lhsInf /\ (first.lhsInf \/ other.lhs > first.lhs)
      rhsOfOther == ~other.rhsInf /\ (first.rhsInf \/ other.rhs < first.rhs)
  IN [first EXCEPT
        !.lhs = IF lhsOfOther THEN other.lhs ELSE @, !.lhsInf = @ /\ ~lhsOfOther,
        !.lhsRow = IF lhsOfOther THEN other.lhsRow ELSE @,
        !.rhs = IF rhsOfOther THEN other.rhs ELSE @, !.rhsInf = @ /\ ~rhsOfOther,
        !.rhsRow = IF rhsOfOther THEN other.rhsRow ELSE @]

JoinParallelRow(s, kept, r) ==
  LET c == FirstCol(s, r)
      coef == s.a[kept.row][c]   coef2 == s.a[r][c]
      own == AsRemaining(s, r)
      scaled == ScaledSides(own, coef, coef2)
      larger == AbsOf(coef) < AbsOf(coef2)
      equation == kept.row \in s.equation
      disjoint == \/ ~scaled.rhsInf /\ scaled.rhs < kept.lhs
                  \/ ~scaled.lhsInf /\ scaled.lhs > kept.rhs
  IN IF kept.failed THEN kept
     ELSE IF r \in s.equation /\ equation
     THEN IF kept.rhs # scaled.rhs THEN [kept EXCEPT !.failed = TRUE]
          ELSE IF larger THEN own ELSE kept
     ELSE IF r \in s.equation
     THEN IF \/ ~kept.rhsInf /\ kept.rhs < scaled.rhs
             \/ ~kept.lhsInf /\ kept.lhs > scaled.lhs
          THEN [kept EXCEPT !.failed = TRUE] ELSE own
     ELSE IF equation THEN [kept EXCEPT !.failed = disjoint]
     ELSE IF \/ kept.row \notin s.rhsInf /\ ~scaled.lhsInf /\ kept.rhs < scaled.lhs
             \/ kept.row \notin s.lhsInf /\ ~scaled.rhsInf /\ scaled.rhs < kept.lhs
     THEN [kept EXCEPT !.failed = TRUE]
     ELSE IF larger THEN TighterSides(own, ScaledSides(kept, coef2, coef))
     ELSE TighterSides(kept, scaled)

(* A side from another row is given with this row as its reason.            *)
HandleKept(s, bucket, kept) ==
  LET row == kept.row
      others == SelectSeq(bucket, LAMBDA r : r # row)
      newLhs == (kept.lhsInf # (row \in s.lhsInf)) \/ kept.lhs # s.lhs[row]
      newRhs == (kept.rhsInf # (row \in s.rhsInf)) \/ kept.rhs # s.rhs[row]
  IN [failed |-> kept.failed,
      reds |-> <<LockRow(row)>>
                 \o [i \in DOMAIN others |-> LockRow(others[i])]
                 \o (IF newLhs THEN <<SideOfParallelRow(row, TRUE, kept.lhs)>> ELSE <<>>)
                 \o (IF newRhs THEN <<SideOfParallelRow(row, FALSE, kept.rhs)>> ELSE <<>>)
                 \o [i \in DOMAIN others |-> Redundant(others[i])]]
HandleRows(s, bucket) ==
  HandleKept(s, bucket, FoldLeft(LAMBDA k, r : JoinParallelRow(s, k, r), AsRemaining(s, Head(bucket)), Tail(bucket)))

ParallelRowDetection(s, perm) ==
  LET long == {r \in Rows : Cardinality(s.rowCols[r]) > 1}
      Bucket(r) == {q \in long : ParallelRows(s, q, r)}
      buckets == {b \in {Bucket(r) : r \in long} : Cardinality(b) > 1}
      AllHandled(handled) == IF \E h \in handled : h.failed THEN Verdict("infeasible")
                             ELSE Found({Tsx(0, h.reds) : h \in handled})
  IN AllHandled({HandleRows(s, SetToSortSeq(b, LAMBDA q, r : perm[q] < perm[r])) : b \in buckets})
===============================================================================
