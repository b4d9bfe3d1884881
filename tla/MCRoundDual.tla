------------------------------ MODULE MCRoundDual ------------------------------
(* Problems without and with an infinite bound.                              *)
EXTENDS MCPresolveRound

ProblemsOf(dualreds, objs, lb, ubInf) ==
  {Problem(dualreds, rows, sides, obj, lb, ub, ubInf) :
     rows \in [1..2 -> RowChoices], sides \in [1..2 -> SideChoices], obj \in objs, ub \in UbChoices}

SmallProblems == ProblemsOf(2, ObjChoices, Columns(1, -1, 0), {})

(* An infinite upper bound only where the objective does not make use of it. *)
OpenProblems ==
  ProblemsOf(2, {Columns(1, 1, -1), Columns(1, 0, 2)}, Columns(1, -1, 0), {2})
    \cup UNION {ProblemsOf(d, {Columns(1, 0, 2)}, Columns(0, 0, 0), {2}) : d \in 0..1}

DualProblems == Enabling({"propagation", "dualfix"}, SmallProblems \cup OpenProblems)

(* Three pairs of columns, each with a row of its own.  Propagation tightens *)
(* the bound 4, and the pairs are left for solvers.                          *)
PairRow(i, x, y) == [c \in Cols |-> IF c = 2 * i - 1 THEN x ELSE IF c = 2 * i THEN y ELSE 0]
PairCoefs == {<<2, 3>>, <<3, -2>>, <<-2, -3>>}
PairSides(k) == IF k[2] > 0 THEN [lhs |-> 0, rhs |-> 7, lhsInf |-> TRUE, rhsInf |-> FALSE]
                ELSE [lhs |-> -7, rhs |-> 1, lhsInf |-> k[1] > 0, rhsInf |-> FALSE]
PairProblemsOf(ubInf) ==
  Enabling({"propagation"},
    {Problem(2, [r \in Rows |-> PairRow(r, k[r][1], k[r][2])], [r \in Rows |-> PairSides(k[r])],
             [c \in Cols |-> IF c % 2 = 1 THEN -1 ELSE t], [c \in Cols |-> 0],
             [c \in Cols |-> IF c % 2 = 1 THEN 4 ELSE 2], ubInf) :
       k \in [Rows -> PairCoefs], t \in {-1, 1}})
PairProblems == PairProblemsOf({})
DualAndMergeProblems == DualProblems \cup MergeProblems \cup PairProblems

(* The second column may grow without limit, which its objective forbids.   *)
OpenPairProblems ==
  {p \in PairProblemsOf({2}) : p.a[1][2] = -2 /\ p.obj[2] = 1}

(* The window holds an optimal solution of each problem that has one.       *)
ASSUME WindowSuffices ==
  \A p \in OpenProblems :
    LET wide == [p EXCEPT !.ubInf = {}, !.ub[2] = 2 * Window]
        Optimum(q) == {Value(q, x) : x \in OptimalSolutions(q, AllRows)}
    IN Optimum(p) = Optimum(wide)
===============================================================================
