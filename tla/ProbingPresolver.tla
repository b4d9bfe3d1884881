---------------------------- MODULE ProbingPresolver ----------------------------
(***************************************************************************)
(* Probing (presolvers/Probing.hpp) with its view of the problem           *)
(* (core/ProbingView.hpp): a binary column is set to 1, the consequences   *)
(* are propagated and remembered, the view is reset, the column is set to  *)
(* 0, and what both branches have in common is a reduction.                *)
(***************************************************************************)
EXTENDS DualPresolvers

(* The view: domains and activities that propagation changes, and the rows  *)
(* to be propagated next.                                                   *)
FreshView(s) == [lb |-> s.lb, ub |-> s.ub, lbInf |-> s.lbInf, ubInf |-> s.ubInf, act |-> s.act,
                 next |-> <<>>, infeasible |-> FALSE]

(* activityChanged: a row is put on the list once a round.                  *)
ViewActivityChanged(s, v, b, r) ==
  LET lower == b.lower   c == b.col
      act == UpdateActivity(v.act[r], s.a[r][c], lower, IF lower THEN v.lb[c] ELSE v.ub[c],
                            c \in (IF lower THEN v.lbInf ELSE v.ubInf), b.val)
      breaks == IF MovesMin(s.a[r][c], lower) THEN act.ninfmin = 0 /\ r \notin s.rhsInf /\ s.rhs[r] < act.min
                                              ELSE act.ninfmax = 0 /\ r \notin s.lhsInf /\ s.lhs[r] > act.max
  IN [v EXCEPT !.act[r] = act, !.infeasible = @ \/ breaks,
               !.next = IF r \in Range(@) THEN @ ELSE Append(@, r)]

(* changeLb, changeUb                                                       *)
ViewChangeBound(s, v, b) ==
  LET t == FoldLeft(LAMBDA w, r : ViewActivityChanged(s, w, b, r), v, Ascending(s.colRows[b.col]))
  IN IF b.lower THEN [t EXCEPT !.lb[b.col] = b.val, !.lbInf = @ \ {b.col}]
                ELSE [t EXCEPT !.ub[b.col] = b.val, !.ubInf = @ \ {b.col}]

(* A bound that one row implies.  On a column with one infinite bound the   *)
(* other one stays; on a continuous column small changes are not worth it.  *)
WorthChanging(s, v, b) ==
  LET c == b.col
      range == v.ub[c] - v.lb[c]
      delta == IF b.lower THEN b.val - v.lb[c] ELSE v.ub[c] - b.val
  IN \/ c \in (IF b.lower THEN v.lbInf ELSE v.ubInf)
     \/ /\ c \notin v.lbInf \cup v.ubInf /\ delta > 0
        /\ c \in s.integral \cup s.implint \/ 10 * delta >= 3 * range

ViewTakeBound(s, v, b) ==
  IF v.infeasible THEN v
  ELSE IF Crosses(v, b) THEN [v EXCEPT !.infeasible = TRUE]
  ELSE IF WorthChanging(s, v, b) THEN ViewChangeBound(s, v, b) ELSE v

(* propagate_row with the bounds in place: those of the left hand side see  *)
(* what the right hand side has changed.                                    *)
ViewPropagateRow(s, v, r) ==
  LET All(w, bs) == FoldLeft(LAMBDA x, b : ViewTakeBound(s, x, b), w, SetToSortSeq(bs, LAMBDA b, d : b.col < d.col))
      right == All(v, FromRhs(s.a[r], s.rowCols[r], v.act[r], RowOf(s, r), v))
  IN IF v.infeasible THEN v
     ELSE All(right, FromLhs(s.a[r], s.rowCols[r], right.act[r], RowOf(s, r), right))

(* propagateDomains, for ProbingRounds rounds; on problems with small       *)
(* domains it ends before.                                                  *)
ProbingRounds == 8
PropagateDomains(s, view) ==
  LET Round(v, i) == FoldLeft(LAMBDA w, r : ViewPropagateRow(s, w, r), [v EXCEPT !.next = <<>>], v.next)
  IN FoldLeft(Round, view, [i \in 1..ProbingRounds |-> i])

ProbeValue(s, c, value) ==
  PropagateDomains(s, ViewChangeBound(s, FreshView(s), [col |-> c, lower |-> value = 1, val |-> value]))

-----------------------------------------------------------------------------
(* What the two branches say: one is the view for the value 1, zero that    *)
(* for 0.                                                                   *)

ChangedBounds(s, v) ==
  {b \in {[col |-> c, lower |-> l, val |-> IF l THEN v.lb[c] ELSE v.ub[c]] : c \in Cols, l \in BOOLEAN} :
     b.col \notin (IF b.lower THEN v.lbInf ELSE v.ubInf) /\ Tightens(s, b)}

(* A change that makes a bound meet the other one.                          *)
ImpliedFixing(s, b) == IF b.lower THEN b.col \notin s.ubInf /\ s.ub[b.col] = b.val
                                  ELSE b.col \notin s.lbInf /\ s.lb[b.col] = b.val
FixedIn(v, c) == c \notin v.lbInf \cup v.ubInf /\ v.lb[c] = v.ub[c]

(* The other column follows the probing column.  Of two binary columns the  *)
(* one with the smaller index is kept; the values of the one that goes are  *)
(* taken for those of a binary column.                                      *)
ProbingSubstitution(s, c, zero, oneFixed, d) ==
  LET scale == oneFixed - zero.lb[d]
      const == zero.lb[d]
  IN IF d < c /\ AbsOf(scale) = 1 /\ const \in {0, 1} /\ d \in s.integral
     THEN [col1 |-> c, col2 |-> d, scale |-> scale, const |-> const]
     ELSE [col1 |-> d, col2 |-> c, scale |-> scale, const |-> const]

(* The bound is taken from the tighter branch.                              *)
CommonBoundOfOne(b, zero, one) == [b EXCEPT !.val = IF b.lower THEN Max({zero.lb[b.col], one.lb[b.col]})
                                                               ELSE Min({zero.ub[b.col], one.ub[b.col]})]
CommonBound(b, zero, one) == [b EXCEPT !.val = IF b.lower THEN Min({zero.lb[b.col], one.lb[b.col]})
                                                          ELSE Max({zero.ub[b.col], one.ub[b.col]})]

(* analyzeImplications, without the two branches both infeasible.           *)
Analyze(s, c, zero, one) ==
  LET implied == {b \in ChangedBounds(s, one) : b.col # c}
      Fixes(b) == ImpliedFixing(s, b) /\ FixedIn(zero, b.col) /\ zero.lb[b.col] # b.val
      InBoth(b) == \E d \in ChangedBounds(s, zero) : d.col = b.col /\ d.lower = b.lower
  IN IF one.infeasible THEN [bounds |-> ChangedBounds(s, zero), substs |-> {}]
     ELSE IF zero.infeasible THEN [bounds |-> implied \cup {[col |-> c, lower |-> TRUE, val |-> 1]}, substs |-> {}]
     ELSE [bounds |-> {CommonBound(b, zero, one) : b \in {d \in implied : ~Fixes(d) /\ InBoth(d)}},
           substs |-> {ProbingSubstitution(s, c, zero, b.val, b.col) : b \in {d \in implied : Fixes(d)}}]

-----------------------------------------------------------------------------
(* The presolver                                                            *)

IsBinary(s, c) == /\ c \in s.integral /\ c \notin s.lbInf \cup s.ubInf /\ s.colSize[c] > 0
                  /\ s.lb[c] = 0 /\ s.ub[c] = 1
ProbingCands(s) == {c \in Active(s) : IsBinary(s, c)}

(* Up to ten candidates are probed in the first badge, and with so few the  *)
(* order in which their scores put them is of no account.  The tightest     *)
(* bound found is applied, and one substitution of a column.                *)
Probed(s, branches) ==
  LET results == {Analyze(s, c, branches[c].zero, branches[c].one) : c \in ProbingCands(s)}
      bounds == UNION {res.bounds : res \in results}
      substs == UNION {res.substs : res \in results}
      Tighter(b, d) == b.col = d.col /\ b.lower = d.lower /\ (IF b.lower THEN b.val > d.val ELSE b.val < d.val)
      tightest == {b \in bounds : ~\E d \in bounds : Tighter(d, b)}
      kept == {f \in substs : ~\E g \in substs : g.col1 = f.col1 /\ g.col2 > f.col2}
  IN IF \E c \in ProbingCands(s) : branches[c].zero.infeasible /\ branches[c].one.infeasible
     THEN Verdict("infeasible")
     ELSE Found({Tsx(2 * b.col + (IF b.lower THEN 0 ELSE 1), <<Bound(b.col, b.lower, b.val)>>) : b \in tightest}
                  \cup {Tsx(4 * NCols - f.col1, <<Replace(f.col1, f.col2, f.scale, f.const)>>) : f \in kept})
Probing(s) == Probed(s, [c \in ProbingCands(s) |-> [zero |-> ProbeValue(s, c, 0), one |-> ProbeValue(s, c, 1)]])
===============================================================================
