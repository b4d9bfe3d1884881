----------------------------- MODULE BoundPresolvers -----------------------------
(***************************************************************************)
(* Presolvers that fix columns and tighten their bounds, on integral       *)
(* columns: ConstraintPropagation and DualFix.                             *)
(*                                                                         *)
(* A presolver reads a state of the problem and returns what it found: a   *)
(* status and a set of transactions.  The transactions are applied in the  *)
(* order of their rank; where they share one, because the code looks at    *)
(* rows or columns in parallel, the order is open.                         *)
(***************************************************************************)
EXTENDS Transactions

Tsx(rank, reds) == [rank |-> rank, reds |-> reds]
InOrder(tsxs) == {Tsx(i, tsxs[i]) : i \in DOMAIN tsxs}
Found(tsxs) == [status |-> IF tsxs = {} THEN "unchanged" ELSE "reduced", tsxs |-> tsxs]
Verdict(status) == [status |-> status, tsxs |-> {}]

AbsOf(n) == IF n < 0 THEN -n ELSE n
Active(s) == {c \in Cols : ~Inactive(s, c)}
ActiveRows(s) == Rows \ s.redundant

-----------------------------------------------------------------------------
(* ConstraintPropagation on the rows whose activity changed.  A row first   *)
(* reports the bounds its right hand side implies, then those of its left   *)
(* hand side.  A bound beyond the opposite one makes the result infeasible, *)
(* but a later bound of the same row makes it reduced again.                *)

Reported(s, r) == PropagateRow(s.a[r], s.rowCols[r], s.act[r], RowOf(s, r), s)
LastReported(s, r) ==
  LET OfLhs(b) == b.lower <=> s.a[r][b.col] > 0
      Later(b, o) == \/ OfLhs(b) /\ ~OfLhs(o)
                     \/ (OfLhs(b) <=> OfLhs(o)) /\ b.col > o.col
  IN {b \in Reported(s, r) : \A o \in Reported(s, r) \ {b} : Later(b, o)}

PropagatedRows(s) == {r \in s.changedLast \ s.redundant : Cardinality(s.rowCols[r]) > 1}
EmptyRows(s) == {r \in s.changedLast \ s.redundant : s.rowCols[r] = {}}
HoldsEmpty(s, r) == /\ r \in s.lhsInf \/ s.lhs[r] <= 0
                    /\ r \in s.rhsInf \/ s.rhs[r] >= 0

PropagationFails(s) ==
  \/ \E r \in PropagatedRows(s) : \E b \in LastReported(s, r) : Crosses(s, b)
  \/ \E r \in EmptyRows(s) : ~HoldsEmpty(s, r)

FromBound(s, b) ==
  LET meets == IF b.lower THEN b.col \notin s.ubInf /\ b.val = s.ub[b.col]
                          ELSE b.col \notin s.lbInf /\ b.val = s.lb[b.col]
  IN IF meets THEN Fix(b.col, b.val) ELSE Bound(b.col, b.lower, b.val)

(* Without a bound the result stays unchanged, and empty rows are not       *)
(* marked.                                                                  *)
ConstraintPropagation(s) ==
  LET bounds == {b \in UNION {Reported(s, r) : r \in PropagatedRows(s)} : ~Crosses(s, b)}
  IN IF PropagationFails(s) THEN Verdict("infeasible")
     ELSE IF bounds = {} THEN Verdict("unchanged")
     ELSE Found({Tsx(0, <<FromBound(s, b)>>) : b \in bounds}
                  \cup {Tsx(0, <<Redundant(r)>>) : r \in EmptyRows(s)})

-----------------------------------------------------------------------------
(* DualFix.  A column no row and no objective keeps from going down (up) is *)
(* fixed at its lower (upper) bound, or at infinity with the rows it is in  *)
(* redundant.                                                               *)

CanFallAtAnyCost(s, c) == ~\E r \in s.colRows[c] : DownLock(s.a[r][c], RowOf(s, r))
CanFall(s, c) == s.obj[c] >= 0 /\ ~\E r \in s.colRows[c] : DownLock(s.a[r][c], RowOf(s, r))
CanRise(s, c) == s.obj[c] <= 0 /\ ~\E r \in s.colRows[c] : UpLock(s.a[r][c], RowOf(s, r))

ToInfinity(s, c, up) ==
  LET rs == s.colRows[c]
      dropped == [i \in 1..Cardinality(rs) |-> Redundant(Ascending(rs)[i])]
  IN <<LockCol(c)>> \o LockAllRows(rs) \o dropped \o <<FixInfinity(c, up)>>

(* Dual substitution: the value of c from which on every row that locks it  *)
(* in this direction is redundant, whatever the other columns do.           *)
Residual(s, r, c, fall) ==
  LET upperSide == (s.a[r][c] < 0) <=> fall
      ninf == IF upperSide THEN s.act[r].ninfmax ELSE s.act[r].ninfmin
      own == IF fall THEN c \in s.lbInf ELSE c \in s.ubInf
      term == s.a[r][c] * (IF fall THEN s.lb[c] ELSE s.ub[c])
      activity == IF upperSide THEN s.act[r].max ELSE s.act[r].min
  IN [known |-> ninf = (IF own THEN 1 ELSE 0),
      gap |-> (IF upperSide THEN s.rhs[r] ELSE s.lhs[r]) - activity + (IF own THEN 0 ELSE term)]

Locking(s, c, fall) ==
  {r \in s.colRows[c] \ s.redundant :
     IF fall THEN DownLock(s.a[r][c], RowOf(s, r)) ELSE UpLock(s.a[r][c], RowOf(s, r))}

Strengthened(s, c, fall) ==
  LET gaps == {Residual(s, r, c, fall) : r \in Locking(s, c, fall)}
      Candidate(r) == IF fall THEN CeilDiv(Residual(s, r, c, fall).gap, s.a[r][c])
                              ELSE FloorDiv(Residual(s, r, c, fall).gap, s.a[r][c])
      cands == {Candidate(r) : r \in Locking(s, c, fall)}
      new == IF fall THEN Max(cands) ELSE Min(cands)
      clipped == IF fall THEN (IF c \in s.lbInf THEN new ELSE Max({new, s.lb[c]}))
                         ELSE (IF c \in s.ubInf THEN new ELSE Min({new, s.ub[c]}))
  IN IF /\ (IF fall THEN s.obj[c] >= 0 ELSE s.obj[c] <= 0)
        /\ gaps # {} /\ \A g \in gaps : g.known
        /\ Tightens(s, [col |-> c, lower |-> ~fall, val |-> new])
     THEN {<<LockCol(c), LockColBounds(c), Bound(c, ~fall, clipped)>>}
     ELSE {}

DualFixColumn(s, c) ==
  IF CanFall(s, c)
  THEN {IF c \in s.lbInf THEN ToInfinity(s, c, FALSE) ELSE <<LockCol(c), Fix(c, s.lb[c])>>}
  ELSE IF CanRise(s, c)
  THEN {IF c \in s.ubInf THEN ToInfinity(s, c, TRUE)
        ELSE <<LockCol(c)>> \o LockAllRows(s.colRows[c]) \o <<Fix(c, s.ub[c])>>}
  ELSE IF Strengthened(s, c, TRUE) # {} THEN Strengthened(s, c, TRUE)
  ELSE Strengthened(s, c, FALSE)

DualFixedAll(s) == Active(s)
DualFixed(s) == {c \in Active(s) : s.dualreds = 2 \/ s.obj[c] # 0}
DualFixFails(s) ==
  \E c \in DualFixed(s) : s.obj[c] # 0 /\ (\/ CanFall(s, c) /\ c \in s.lbInf
                                           \/ CanRise(s, c) /\ c \in s.ubInf)
DualFix(s) ==
  IF DualFixFails(s) THEN Verdict("unbndOrInfeas")
  ELSE Found({Tsx(c, reds) : <<c, reds>> \in UNION {{c} \X DualFixColumn(s, c) : c \in DualFixed(s)}})
===============================================================================
