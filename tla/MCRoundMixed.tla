------------------------------ MODULE MCRoundMixed ------------------------------
(* Problems on which the presolvers for coefficients, substitutions, dual    *)
(* values and probing find something, a few of them at a time.  The last row *)
(* is the same in all problems of a family.                                  *)
EXTENDS MCPresolveRound

Le(v) == [lhs |-> 0, rhs |-> v, lhsInf |-> TRUE, rhsInf |-> FALSE]
Ge(v) == [lhs |-> v, rhs |-> 0, lhsInf |-> FALSE, rhsInf |-> TRUE]
Eq(v) == [lhs |-> v, rhs |-> v, lhsInf |-> FALSE, rhsInf |-> FALSE]
Ranged(v, w) == [lhs |-> v, rhs |-> w, lhsInf |-> FALSE, rhsInf |-> FALSE]

Row3(f, last) == [r \in Rows |-> IF r = NRows THEN last ELSE f[r]]
Family(ps, dualreds, rows, lastRow, sides, lastSide, objs, lb, ub, integral) ==
  Enabling(ps, {[Problem(dualreds, Row3(f, lastRow), Row3(g, lastSide), obj, lb, ub, {}) EXCEPT !.integral = integral] :
                  f \in [1..(NRows - 1) -> rows], g \in [1..(NRows - 1) -> sides], obj \in objs})

Equations ==
  Family({"doubletoneq", "substitution"}, 0,
         {Columns(1, 1, 1), Columns(1, -1, 0), Columns(0, 1, 2), Columns(2, 3, 0)}, Columns(1, 2, -1),
         {Eq(1), Eq(2), Ranged(0, 2)}, Le(3), {Columns(1, 0, -1), Columns(-1, -1, 1)},
         Columns(0, -1, 0), Columns(2, 2, 1), Cols)

Inequalities ==
  Family({"parallelrows", "coefftightening", "simplifyineq"}, 0,
         {Columns(1, 1, 1), Columns(2, 2, 2), Columns(2, 2, 1), Columns(-1, 0, 3)}, Columns(-1, -1, -1),
         {Le(3), Ge(1), Eq(2), Ranged(1, 2)}, Le(0), {Columns(1, -1, -1)},
         Columns(0, 0, 0), Columns(2, 1, 1), Cols)

Sparse ==
  Family({"sparsify", "propagation"}, 0,
         {Columns(1, 1, 1), Columns(1, 1, 0), Columns(2, 2, 1)}, Columns(1, 1, -1),
         {Eq(2), Le(3), Ranged(1, 2)}, Ge(1), {Columns(1, 0, -1), Columns(-1, -1, 1)},
         Columns(0, -1, 0), Columns(2, 2, 1), Cols)

Stuffing ==
  Family({"stuffing", "dualfix"}, 1,
         {Columns(1, 1, 1), Columns(0, 1, -1), Columns(-1, 0, 1)}, Columns(0, 0, 1),
         {Le(1), Ge(2), Eq(1)}, Le(1), {Columns(1, 1, -1), Columns(-1, -2, 1), Columns(-2, 1, 0)},
         Columns(0, -1, 0), Columns(2, 2, 1), {3})

CliqueProblems ==
  Family({"cliquemerging", "coefftightening"}, 1,
         {Columns(1, 1, 0), Columns(1, 0, 1), Columns(1, 2, 2), Columns(2, 2, 1)}, Columns(0, 1, 1),
         {Le(1), Le(2)}, Le(1), {Columns(-1, -1, -1), Columns(-3, -2, 1)},
         Columns(0, 0, 0), Columns(1, 1, 1), Cols)

Dominated ==
  Family({"domcol", "probing"}, 2,
         {Columns(1, 1, 1), Columns(1, 2, 0), Columns(-1, 1, 1), Columns(-1, -1, -3)}, Columns(1, 1, 2),
         {Le(2), Ge(1), Ranged(1, 2)}, Ge(1), {Columns(1, 1, 1), Columns(0, 2, -2)},
         Columns(0, 0, 0), Columns(1, 1, 2), Cols)

Linear ==
  Family({"dualinfer", "implint"}, 1,
         {Columns(1, 1, 1), Columns(0, 1, 1), Columns(-1, -1, 0)}, Columns(1, 1, 0),
         {Le(2), Ge(1), Eq(2)}, Ge(1), {Columns(1, 1, 1), Columns(3, 2, -1)},
         Columns(0, 0, 0), Columns(2, 2, 1), {3})

Balanced ==
  Family({"simpleprobing", "propagation"}, 0,
         {Columns(1, 1, 5), Columns(1, -1, -5), Columns(1, 2, 8), Columns(1, 1, -1)}, Columns(1, -1, 1),
         {Le(2), Eq(5), Eq(-2), Eq(8)}, Le(3), {Columns(-1, 2, -1)},
         Columns(0, 0, 0), Columns(2, 3, 1), Cols)

(* The third column is a slack of the first row, with and without being      *)
(* integral, and the presolvers beside "singletoncols" change the same row.  *)
Slacks(ps, dualreds, integral) ==
  Enabling(ps, {[Problem(dualreds, [r \in Rows |-> CASE r = 1 -> row [] r = NRows -> Columns(1, 1, 0) [] OTHER -> Columns(1, -1, 0)],
                         [r \in Rows |-> CASE r = 1 -> side [] r = NRows -> Le(3) [] OTHER -> Ge(0)],
                         obj, Columns(0, 0, -1), Columns(2, 2, 2), {}) EXCEPT !.integral = integral] :
                  row \in {Columns(1, 1, 1), Columns(2, 2, -2), Columns(1, -1, -1), Columns(2, 4, 2)},
                  side \in {Eq(2), Eq(4), Le(2), Ge(4), Ranged(0, 2)},
                  obj \in {Columns(1, -1, 0), Columns(-1, -1, 1), Columns(1, 1, -2), Columns(-1, -2, -1)}})

SlackProblems ==
  UNION {Slacks({"singletoncols", "propagation", "dualfix"}, dualreds, integral) : dualreds \in 0..2, integral \in {Cols, {1, 2}}}
    \cup UNION {Slacks({"singletoncols", "coefftightening", "parallelrows", "simplifyineq", "implint"}, dualreds, integral) :
                  dualreds \in 0..1, integral \in {Cols, {1, 2}}}

MixedProblems ==
  Equations \cup Inequalities \cup Sparse \cup Stuffing \cup CliqueProblems \cup Dominated \cup Linear \cup Balanced
    \cup SlackProblems

(* An integral column that takes the values 1 and 2 follows a binary one.    *)
FollowingProblems ==
  Enabling({"probing"},
    {Problem(2, [r \in Rows |-> IF r = 1 THEN Columns(2, 0, -2) ELSE Columns(k, 1, -1)],
             [r \in Rows |-> IF r = 1 THEN Ranged(1, 2) ELSE Le(3)], Columns(1, -1, 1),
             Columns(0, 0, 0), Columns(2, 1, 1), {}) : k \in 0..2})
===============================================================================
