----------------------------- MODULE MCPresolveRound -----------------------------
(* Small problems for TLC: three columns and two or three rows.              *)
EXTENDS RoundContract

(* Columns beyond the third, and rows a family does not name, are empty.    *)
Columns(x, y, z) == (1 :> x) @@ (2 :> y) @@ (3 :> z) @@ [c \in 4..NCols |-> 0]

RowChoices == {Columns(1, 1, 0), Columns(1, 1, -1), Columns(2, 1, 0), Columns(0, -1, 2)}
SideChoices == {[lhs |-> 0, rhs |-> 1, lhsInf |-> TRUE, rhsInf |-> FALSE],
                [lhs |-> 2, rhs |-> 0, lhsInf |-> FALSE, rhsInf |-> TRUE],
                [lhs |-> 1, rhs |-> 1, lhsInf |-> FALSE, rhsInf |-> FALSE]}
ObjChoices == {Columns(0, 0, 0), Columns(1, 1, -1), Columns(-2, -1, 0), Columns(1, 0, 2)}
UbChoices == {Columns(2, 2, 1)}

NoSides == [lhs |-> 0, rhs |-> 0, lhsInf |-> TRUE, rhsInf |-> TRUE]
Problem(dualreds, rows, sides, obj, lb, ub, ubInf) ==
  LET side == [r \in Rows |-> IF r \in DOMAIN sides THEN sides[r] ELSE NoSides]
      row == [r \in Rows |-> IF r \in DOMAIN rows THEN rows[r] ELSE Columns(0, 0, 0)]
  IN [enabled |-> {}, integral |-> Cols, dualreds |-> dualreds, a |-> row, obj |-> obj,
      lb |-> lb, ub |-> ub, lbInf |-> {}, ubInf |-> ubInf,
      lhs |-> [r \in Rows |-> side[r].lhs], rhs |-> [r \in Rows |-> side[r].rhs],
      lhsInf |-> {r \in Rows : side[r].lhsInf}, rhsInf |-> {r \in Rows : side[r].rhsInf}]

Enabling(ps, problems) == {[p EXCEPT !.enabled = ps] : p \in problems}

(* Columns 1 and 2 are parallel; one of their coefficients is a multiple of  *)
(* the other.  A row that asks for 3 finds a hole when 5 steps are merged   *)
(* into a domain of 4 values.                                               *)
MergeSides == {[lhs |-> 0, rhs |-> 1, lhsInf |-> TRUE, rhsInf |-> FALSE],
               [lhs |-> 3, rhs |-> 0, lhsInf |-> FALSE, rhsInf |-> TRUE],
               [lhs |-> 1, rhs |-> 1, lhsInf |-> FALSE, rhsInf |-> FALSE]}
MergeProblems ==
  Enabling({"propagation", "parallelcols"},
  {Problem(2, [r \in 1..2 |-> Columns(k[1], k[2], z[r])], sides,
           Columns(t * k[1], t * k[2], 1), Columns(0, -1, 0), Columns(1, 2, 1), {}) :
     k \in {<<1, 1>>, <<2, 1>>, <<-1, 1>>, <<1, -2>>, <<3, 1>>, <<5, 1>>},
     z \in [1..2 -> {-1, 2}], t \in {-1, 0, 1}, sides \in [1..2 -> MergeSides]})

(* The lower bounds of the first two columns already imply the last row.    *)
ConflictProblems ==
  Enabling({"parallelcols", "dualfix"},
  {Problem(2, [r \in Rows |-> IF r = NRows THEN Columns(1, 1, 0) ELSE Columns(1, 1, IF r = 1 THEN 1 ELSE -1)],
           [r \in Rows |-> IF r = NRows THEN [lhs |-> 2, rhs |-> 0, lhsInf |-> FALSE, rhsInf |-> TRUE]
                                        ELSE [lhs |-> 0, rhs |-> 4, lhsInf |-> TRUE, rhsInf |-> FALSE]],
           obj, Columns(1, 1, 0), Columns(3, 3, 2), {}) :
     obj \in {Columns(0, 0, 0), Columns(1, 1, 0), Columns(1, 1, -1)}})
===============================================================================
