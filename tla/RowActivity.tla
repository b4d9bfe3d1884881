------------------------------ MODULE RowActivity ------------------------------
(***************************************************************************)
(* Activities of a row (core/SingleRow.hpp): the smallest and the largest  *)
(* value its linear form takes within the bounds of the columns.  A bound  *)
(* that is infinite is not part of the sum but counted in ninfmin or       *)
(* ninfmax.  An infinite bound is a column in lbInf or ubInf; the value    *)
(* stored beside the flag is then meaningless, as in VariableDomains.      *)
(*                                                                         *)
(* Throughout, a is the function from columns to coefficients of the row,  *)
(* cs the columns its storage holds, d a record with the fields lb, ub,    *)
(* lbInf and ubInf, and row a record with lhs, rhs, lhsInf and rhsInf.     *)
(***************************************************************************)
EXTENDS Integers, FiniteSets, FiniteSetsExt, Functions

MinInf(a, d, c) == IF a[c] < 0 THEN c \in d.ubInf ELSE c \in d.lbInf
MaxInf(a, d, c) == IF a[c] < 0 THEN c \in d.lbInf ELSE c \in d.ubInf
MinTerm(a, d, c) == a[c] * (IF a[c] < 0 THEN d.ub[c] ELSE d.lb[c])
MaxTerm(a, d, c) == a[c] * (IF a[c] < 0 THEN d.lb[c] ELSE d.ub[c])

ComputeRowActivity(a, cs, d) ==
  LET infMin == {c \in cs : MinInf(a, d, c)}
      infMax == {c \in cs : MaxInf(a, d, c)}
  IN [min |-> SumFunctionOnSet([c \in cs |-> MinTerm(a, d, c)], cs \ infMin),
      max |-> SumFunctionOnSet([c \in cs |-> MaxTerm(a, d, c)], cs \ infMax),
      ninfmin |-> Cardinality(infMin),
      ninfmax |-> Cardinality(infMax)]

(* The minimum moves with the lower bound of a column with a positive       *)
(* coefficient and with the upper bound of one with a negative coefficient. *)
MovesMin(coef, lower) == lower <=> coef > 0

(* An infinite bound that becomes finite is taken for a finite one.         *)
UpdateActivityAsFinite(act, coef, lower, old, oldInf, new) ==
  LET delta == coef * (new - old)
  IN IF MovesMin(coef, lower) THEN [act EXCEPT !.min = @ + delta]
                              ELSE [act EXCEPT !.max = @ + delta]

(* Every bound that changes is taken for an infinite one in the counters.   *)
UpdateActivityUncounting(act, coef, lower, old, oldInf, new) ==
  LET delta == coef * (IF oldInf THEN new ELSE new - old)
  IN IF MovesMin(coef, lower) THEN [act EXCEPT !.min = @ + delta, !.ninfmin = @ - 1]
                              ELSE [act EXCEPT !.max = @ + delta, !.ninfmax = @ - 1]

UpdateActivity(act, coef, lower, old, oldInf, new) ==
  LET delta == coef * (IF oldInf THEN new ELSE new - old)
      ninf == IF oldInf THEN 1 ELSE 0
  IN IF MovesMin(coef, lower)
     THEN [act EXCEPT !.min = @ + delta, !.ninfmin = @ - ninf]
     ELSE [act EXCEPT !.max = @ + delta, !.ninfmax = @ - ninf]

-----------------------------------------------------------------------------
(* What the activity says about the sides                                   *)

Violated(act, row) ==
  \/ ~row.lhsInf /\ act.ninfmax = 0 /\ act.max < row.lhs
  \/ ~row.rhsInf /\ act.ninfmin = 0 /\ act.min > row.rhs
LhsHoldsIgnoringCount(act, row) == row.lhsInf \/ act.min >= row.lhs
LhsHolds(act, row) == row.lhsInf \/ (act.ninfmin = 0 /\ act.min >= row.lhs)
RhsHolds(act, row) == row.rhsInf \/ (act.ninfmax = 0 /\ act.max <= row.rhs)

CheckStatus(act, row) ==
  IF Violated(act, row) THEN "infeasible"
  ELSE IF LhsHolds(act, row) /\ RhsHolds(act, row) THEN "redundant"
  ELSE IF LhsHolds(act, row) /\ ~row.lhsInf THEN "redundantLhs"
  ELSE IF RhsHolds(act, row) /\ ~row.rhsInf THEN "redundantRhs"
  ELSE "unknown"

(* Locks of a column with coefficient coef in a row (count_locks).           *)
DownLock(coef, row) == IF coef < 0 THEN ~row.rhsInf ELSE ~row.lhsInf
UpLock(coef, row) == IF coef < 0 THEN ~row.lhsInf ELSE ~row.rhsInf

-----------------------------------------------------------------------------
(* Propagation of a row on integral columns (propagate_row)                 *)

FloorDiv(n, k) == IF k < 0 THEN (-n) \div (-k) ELSE n \div k
CeilDiv(n, k) == -FloorDiv(-n, k)

(* A bound equal to the present one is taken for a tighter one.             *)
TightensWeakly(d, b) ==
  IF b.lower THEN b.col \in d.lbInf \/ b.val >= d.lb[b.col]
             ELSE b.col \in d.ubInf \/ b.val <= d.ub[b.col]

Tightens(d, b) ==
  IF b.lower THEN b.col \in d.lbInf \/ b.val > d.lb[b.col]
             ELSE b.col \in d.ubInf \/ b.val < d.ub[b.col]

(* With one infinite contribution only the column that causes it gets a     *)
(* bound, otherwise all do.                                                 *)
TargetsAll(a, cs, act, d) == cs
Targets(a, cs, act, d) ==
  IF act.ninfmin = 1 THEN {c \in cs : MinInf(a, d, c)} ELSE cs

(* Bounds that the right hand side implies: each column in turn takes what  *)
(* the others leave at their smallest.                                      *)
FromRhs(a, cs, act, row, d) ==
  LET Rest(c) == act.min - (IF act.ninfmin = 1 THEN 0 ELSE MinTerm(a, d, c))
      Bound(c) == IF a[c] < 0 THEN CeilDiv(row.rhs - Rest(c), a[c])
                              ELSE FloorDiv(row.rhs - Rest(c), a[c])
  IN IF row.rhsInf \/ act.ninfmin > 1 \/ ~(act.ninfmax >= 1 \/ act.max > row.rhs)
     THEN {}
     ELSE {b \in {[col |-> c, lower |-> a[c] < 0, val |-> Bound(c)] : c \in Targets(a, cs, act, d)} :
             Tightens(d, b)}

(* The left hand side is the right hand side of the negated row.             *)
FromLhs(a, cs, act, row, d) ==
  FromRhs([c \in DOMAIN a |-> -a[c]], cs,
          [min |-> -act.max, max |-> -act.min, ninfmin |-> act.ninfmax, ninfmax |-> act.ninfmin],
          [lhs |-> -row.rhs, rhs |-> -row.lhs, lhsInf |-> row.rhsInf, rhsInf |-> row.lhsInf], d)

PropagateRow(a, cs, act, row, d) == FromRhs(a, cs, act, row, d) \cup FromLhs(a, cs, act, row, d)
===============================================================================
