----------------------------- MODULE RowPropagation -----------------------------
(***************************************************************************)
(* One row whose activity is kept up to date while bounds of its columns   *)
(* change: by propagating the row itself and by reductions found           *)
(* elsewhere.  All columns are integral.                                   *)
(***************************************************************************)
EXTENDS RowActivity

CONSTANTS
  Cols,        \* columns of the row
  CoefChoices, \* coefficients a column may have
  LbChoices,   \* finite lower bounds of the initial domains
  UbChoices,   \* finite upper bounds of the initial domains
  SideChoices, \* finite sides
  Window       \* bound: bounds and solution values up to Window in size

ASSUME RowAssumption ==
  /\ IsFiniteSet(Cols)
  /\ CoefChoices \subseteq Int \ {0}
  /\ SideChoices \subseteq Int
  /\ Window \in Nat
  /\ LbChoices \subseteq -Window..Window
  /\ UbChoices \subseteq -Window..Window

VARIABLES
  a,          \* coefficients, fixed by Init
  row,        \* sides, fixed by Init
  d,          \* domains of the columns
  act,        \* the activity kept for the row
  infeasible  \* some bound change was refused

vars == <<a, row, d, act, infeasible>>

Values == -Window..Window
Sides ==
  {r \in [lhs : SideChoices \cup {0}, rhs : SideChoices \cup {0},
          lhsInf : BOOLEAN, rhsInf : BOOLEAN] :
     /\ ~(r.lhsInf /\ r.rhsInf)
     /\ IF r.lhsInf THEN r.lhs = 0 ELSE r.lhs \in SideChoices
     /\ IF r.rhsInf THEN r.rhs = 0 ELSE r.rhs \in SideChoices
     /\ r.lhsInf \/ r.rhsInf \/ r.lhs <= r.rhs}
Domains ==
  {e \in [lb : [Cols -> LbChoices \cup {0}], ub : [Cols -> UbChoices \cup {0}],
          lbInf : SUBSET Cols, ubInf : SUBSET Cols] :
     \A c \in Cols :
       /\ IF c \in e.lbInf THEN e.lb[c] = 0 ELSE e.lb[c] \in LbChoices
       /\ IF c \in e.ubInf THEN e.ub[c] = 0 ELSE e.ub[c] \in UbChoices
       /\ c \in e.lbInf \/ c \in e.ubInf \/ e.lb[c] < e.ub[c]}

Init ==
  /\ a \in [Cols -> CoefChoices]
  /\ row \in Sides
  /\ d \in Domains
  /\ act = ComputeRowActivity(a, Cols, d)
  /\ infeasible = FALSE

Crosses(b) ==
  IF b.lower THEN b.col \notin d.ubInf /\ b.val > d.ub[b.col]
             ELSE b.col \notin d.lbInf /\ b.val < d.lb[b.col]

(* changeLB and changeUB of ProblemUpdate on a value that tightens.         *)
ChangeBound(b) ==
  /\ Tightens(d, b) /\ ~Crosses(b)
  /\ IF b.lower
     THEN /\ d' = [d EXCEPT !.lb[b.col] = b.val, !.lbInf = @ \ {b.col}]
          /\ act' = UpdateActivity(act, a[b.col], TRUE, d.lb[b.col], b.col \in d.lbInf, b.val)
     ELSE /\ d' = [d EXCEPT !.ub[b.col] = b.val, !.ubInf = @ \ {b.col}]
          /\ act' = UpdateActivity(act, a[b.col], FALSE, d.ub[b.col], b.col \in d.ubInf, b.val)
  /\ UNCHANGED <<a, row, infeasible>>

(* Without the bound on the value this need not end: 2x + 2y = 1 with x >= 0 *)
(* moves the two domains away from 0 for ever.                              *)
Propagate ==
  /\ ~infeasible
  /\ \E b \in PropagateRow(a, Cols, act, row, d) :
       \/ b.val \in Values /\ ChangeBound(b)
       \/ Crosses(b) /\ infeasible' = TRUE /\ UNCHANGED <<a, row, d, act>>

(* A bound found by some other row or presolver.                            *)
Tighten ==
  /\ ~infeasible
  /\ \E c \in Cols, lower \in BOOLEAN, v \in Values :
       ChangeBound([col |-> c, lower |-> lower, val |-> v])

Next == Propagate \/ Tighten
Spec == Init /\ [][Next]_vars

-----------------------------------------------------------------------------
(* Properties                                                               *)

InDomain(x) ==
  \A c \in Cols : /\ c \in d.lbInf \/ x[c] >= d.lb[c]
                  /\ c \in d.ubInf \/ x[c] <= d.ub[c]
Activity(x) == SumFunctionOnSet([c \in Cols |-> a[c] * x[c]], Cols)
Satisfies(x) == /\ row.lhsInf \/ Activity(x) >= row.lhs
                /\ row.rhsInf \/ Activity(x) <= row.rhs
Points == {x \in [Cols -> Values] : InDomain(x)}

(* The activity updated bound by bound (update_activity_after_boundchange)  *)
(* is the one compute_row_activity finds afresh, whatever the order in      *)
(* which bounds became finite and moved.                                    *)
ActivityExact == act = ComputeRowActivity(a, Cols, d)

(* checkStatus calls a row redundant, one of its sides redundant, or the    *)
(* row infeasible only if that is so for every point within the bounds.     *)
StatusSound ==
  LET status == CheckStatus(act, row)
  IN \A x \in Points :
       /\ status = "redundant" => Satisfies(x)
       /\ status = "redundantLhs" => Activity(x) >= row.lhs
       /\ status = "redundantRhs" => Activity(x) <= row.rhs
       /\ status = "infeasible" => ~Satisfies(x)

(* No bound that propagate_row reports cuts off an integral point that      *)
(* satisfies the row.                                                       *)
PropagationSound ==
  \A b \in PropagateRow(a, Cols, act, row, d), x \in Points :
    Satisfies(x) => IF b.lower THEN x[b.col] >= b.val ELSE x[b.col] <= b.val

(* A row whose propagation crosses the bounds of a column has no integral   *)
(* point within the bounds that satisfies it.                               *)
InfeasibleSound == infeasible => \A x \in Points : ~Satisfies(x)
===============================================================================
