---------------------------- MODULE ParallelColSplit ----------------------------
(***************************************************************************)
(* Postsolve of one pair of parallel columns: every pair that              *)
(* ParallelColDetection merges, with every value that the solver may       *)
(* return for the column that stands for both, is split again.             *)
(***************************************************************************)
EXTENDS Postsolve, FiniteSets

CONSTANTS
  Kinds,  \* kinds of pairs: "integral", "continuous", "mixed"
  Scales, \* Scales[kind]: ratios of the coefficients of col1 and col2; those
          \* of a continuous col1 divide 2, so that quotients are exact
  Low,    \* bound: finite bounds and values of the merged column, in units,
  High    \* lie in Low..High

ASSUME SplitAssumption ==
  /\ Kinds \subseteq {"integral", "continuous", "mixed"}
  /\ \A kind \in Kinds : Scales[kind] \subseteq Int \ {0}
  /\ \A kind \in Kinds \ {"integral"} : Scales[kind] \subseteq {-2, -1, 1, 2}
  /\ Low \in Int /\ High \in Int

VARIABLES pair, merged, split

vars == <<pair, merged, split>>

Unsplit == [val1 |-> 0, val2 |-> 0, done |-> FALSE]

Grid(integral) == {v \in Low..High : v % (IF integral THEN Unit ELSE 2) = 0}

(* Domains of an active column: not empty, not a single point.              *)
ColumnDomains(integral, mayBeInf) ==
  {e \in [lb : Grid(integral), ub : Grid(integral),
          lbInf : IF mayBeInf THEN BOOLEAN ELSE {FALSE},
          ubInf : IF mayBeInf THEN BOOLEAN ELSE {FALSE}] :
     /\ e.lbInf => e.lb = 0
     /\ e.ubInf => e.ub = 0
     /\ e.lbInf \/ e.ubInf \/ e.lb < e.ub}

(* What findParallelCols asks of the pair: for integral columns a range of  *)
(* col2 that covers the scale, for a continuous col1 and an integral col2   *)
(* a range of col1 that covers a unit of col2.                              *)
HasHolesOffByOne(e2, scale) == e2.ub - e2.lb < (Abs(scale) - 2) * Unit
HasHoles(e2, scale) == e2.ub - e2.lb < (Abs(scale) - 1) * Unit
CanBeMerged(kind, e1, e2, scale) ==
  IF kind = "integral" THEN ~HasHoles(e2, scale)
  ELSE kind = "mixed" =>
         e1.lbInf \/ e1.ubInf \/ (e1.ub - e1.lb) * Abs(scale) >= Unit

Record(kind, e1, e2, scale) ==
  [type |-> "parallel", col1 |-> 1, col2 |-> 2, scale |-> scale,
   int1 |-> kind = "integral", lb1 |-> e1.lb, ub1 |-> e1.ub,
   lbInf1 |-> e1.lbInf, ubInf1 |-> e1.ubInf,
   int2 |-> kind # "continuous", lb2 |-> e2.lb, ub2 |-> e2.ub,
   lbInf2 |-> e2.lbInf, ubInf2 |-> e2.ubInf]

(* The domain that merge_parallel_columns gives col2.                       *)
NewLbInf(r) == r.lbInf2 \/ (IF r.scale < 0 THEN r.ubInf1 ELSE r.lbInf1)
NewUbInf(r) == r.ubInf2 \/ (IF r.scale < 0 THEN r.lbInf1 ELSE r.ubInf1)
NewLb(r) == r.lb2 + r.scale * (IF r.scale < 0 THEN r.ub1 ELSE r.lb1)
NewUb(r) == r.ub2 + r.scale * (IF r.scale < 0 THEN r.lb1 ELSE r.ub1)

Solvals(r) ==
  {v \in Grid(r.int1) : /\ NewLbInf(r) \/ v >= NewLb(r)
                        /\ NewUbInf(r) \/ v <= NewUb(r)}

Init ==
  /\ \E kind \in Kinds : \E scale \in Scales[kind] :
       LET integral1 == kind = "integral"
           integral2 == kind # "continuous"
       IN \E e1 \in ColumnDomains(integral1, ~integral1),
             e2 \in ColumnDomains(integral2, ~integral1) :
            /\ CanBeMerged(kind, e1, e2, scale)
            /\ pair = Record(kind, e1, e2, scale)
  /\ merged \in Solvals(pair)
  /\ split = Unsplit

SplitPair ==
  /\ ~split.done
  /\ LET s == Split(pair, merged)
     IN split' = [val1 |-> s.val1, val2 |-> s.val2, done |-> TRUE]
  /\ UNCHANGED <<pair, merged>>

Next == SplitPair
Spec == Init /\ [][Next]_vars

-----------------------------------------------------------------------------
(* Properties                                                               *)

(* Every value of the merged column splits into values of col1 and col2     *)
(* within the bounds and the integrality that the two had when they were    *)
(* merged (the assertions after the split in                                *)
(* apply_parallel_col_to_original_solution).                                *)
SplitFeasible ==
  split.done =>
    /\ pair.lbInf1 \/ split.val1 >= pair.lb1
    /\ pair.ubInf1 \/ split.val1 <= pair.ub1
    /\ pair.lbInf2 \/ split.val2 >= pair.lb2
    /\ pair.ubInf2 \/ split.val2 <= pair.ub2
    /\ pair.int1 => Integral(split.val1)
    /\ pair.int2 => Integral(split.val2)

(* The two values contribute to every row and to the objective what the     *)
(* merged column contributed.                                               *)
SplitSums == split.done => split.val2 + pair.scale * split.val1 = merged
===============================================================================
