----------------------------- MODULE DualPresolvers -----------------------------
(***************************************************************************)
(* Presolvers that argue with the dual problem or with the values an       *)
(* optimal solution can be given: DominatedCols and DualInfer; and two     *)
(* that only look at equations: SimpleProbing and ImplIntDetection.        *)
(***************************************************************************)
EXTENDS SubstitutionPresolvers

-----------------------------------------------------------------------------
(* DominatedCols.  A column that may grow without meeting a bound (in the   *)
(* direction scale) dominates another one that uses the rows no better and  *)
(* costs no less; the other one goes to its bound.                          *)

(* Why c has no bound of its own: -1 if it is infinite, the first row that  *)
(* implies it, 0 if it does have one.                                       *)
Free(s, c, lower) ==
  IF InfiniteAt(s, c, ~lower) THEN -1 ELSE FirstImplying(s, Ascending(s.colRows[c]), c, lower)

(* Ways to move c against row r, with the row that implies the bound.       *)
FreeMoves(s, c, r) ==
  LET Locked(up) == IF up THEN UpLock(s.a[r][c], RowOf(s, r)) ELSE DownLock(s.a[r][c], RowOf(s, r))
      Moves(up) == IF Free(s, c, ~up) # 0 /\ Locked(up)
                   THEN {[row |-> r, scale |-> IF up THEN 1 ELSE -1, lock |-> Free(s, c, ~up)]} ELSE {}
      up == Moves(TRUE)   down == Moves(FALSE)
  IN IF up # {} /\ \A m \in up, n \in down : m.lock <= n.lock THEN up ELSE down

(* The shortest row that limits c, with the least to lock; none if such a   *)
(* row has no other column.                                                 *)
BestOf(s, moves) ==
  LET Before(m, n) == \/ s.rowSize[m.row] < s.rowSize[n.row]
                      \/ s.rowSize[m.row] = s.rowSize[n.row] /\ m.lock < n.lock
                      \/ s.rowSize[m.row] = s.rowSize[n.row] /\ m.lock = n.lock /\ m.row < n.row
  IN IF \E m \in moves : s.rowSize[m.row] = 1 THEN {}
     ELSE {m \in moves : \A n \in moves \ {m} : Before(m, n)}
BestMove(s, c) == BestOf(s, UNION {FreeMoves(s, c, r) : r \in s.colRows[c]})

(* Only the right hand sides are compared.                                  *)
DominatesRhs(s, c, d, scale, other) ==
  /\ scale * s.obj[c] <= other * s.obj[d]
  /\ \A r \in s.colRows[c] \cup s.colRows[d] :
       r \notin s.rhsInf => scale * Coef(s, r, c) <= other * Coef(s, r, d)

Dominates(s, c, d, scale, other) ==
  /\ scale * s.obj[c] <= other * s.obj[d]
  /\ \A r \in s.colRows[c] \cup s.colRows[d] :
       /\ r \notin s.rhsInf => scale * Coef(s, r, c) <= other * Coef(s, r, d)
       /\ r \notin s.lhsInf => scale * Coef(s, r, c) >= other * Coef(s, r, d)

(* What c dominates, in the order in which the code finds it.               *)
DominatedOver(s, c, move) ==
  LET Of(d) ==
        LET Domination(toLb) == [sink |-> c, source |-> d, lock |-> move.lock, toLb |-> toLb]
        IN IF d \notin s.lbInf /\ Dominates(s, c, d, move.scale, 1) THEN <<Domination(TRUE)>>
           ELSE IF d \notin s.ubInf /\ Dominates(s, c, d, move.scale, -1) THEN <<Domination(FALSE)>>
           ELSE <<>>
      Others(r) == {d \in s.rowCols[r] \ {c} : /\ ~(d \in s.lbInf /\ d \in s.ubInf)
                                              /\ c \in s.integral => d \in s.integral}
  IN FoldLeft(LAMBDA seq, d : seq \o Of(d), <<>>, Reverse(Ascending(Others(move.row))))
Dominations(s, c) == FoldSet(LAMBDA move, seq : seq \o DominatedOver(s, c, move), <<>>, BestMove(s, c))

(* A column is dominated once, and not by one that it dominates itself.     *)
Root(forest, c) ==
  LET Up(n, i) == IF \E e \in forest : e.source = n THEN (CHOOSE e \in forest : e.source = n).sink ELSE n
  IN FoldLeft(Up, c, [i \in 1..NCols |-> i])
NoCycles(forest, e) ==
  IF (\E f \in forest : f.source = e.source) \/ Root(forest, e.sink) = e.source THEN forest
  ELSE forest \cup {e}

Height(forest, c) ==
  LET Below(cs, i) == {e.source : e \in {f \in forest : f.sink \in cs}}
      Level(i) == FoldLeft(Below, {c}, [j \in 1..i |-> j])
  IN Max({i \in 0..NCols : Level(i) # {}})

(* Those that need no row to stay as it is come first.                      *)
UnlockedFirst(all) == SelectSeq(all, LAMBDA e : e.lock = -1) \o SelectSeq(all, LAMBDA e : e.lock # -1)
DominationForest(s) ==
  FoldLeft(NoCycles, {}, UnlockedFirst(FoldLeft(LAMBDA seq, c : seq \o Dominations(s, c), <<>>, Ascending(Active(s)))))

FixDominated(s, e) ==
  <<LockCol(e.sink), LockColBounds(e.sink), LockCol(e.source), LockColBounds(e.source)>>
    \o (IF e.lock > 0 THEN <<LockRow(e.lock)>> ELSE <<>>)
    \o <<Fix(e.source, BoundAt(s, e.source, ~e.toLb))>>

FixAll(s, forest) == Found({Tsx(Height(forest, e.source), FixDominated(s, e)) : e \in forest})
DominatedCols(s) == FixAll(s, DominationForest(s))

-----------------------------------------------------------------------------
(* DualInfer.  Propagation in the dual problem: the rows have dual values,  *)
(* a continuous column whose bounds its rows imply a dual equation.         *)

Column(s, c) == [r \in Rows |-> Coef(s, r, c)]

(* A bound that a row implies does not count when other rows are asked.     *)
RemoveFiniteBound(s, c, lower) ==
  LET old == IF lower THEN s.lb[c] ELSE s.ub[c]
      After(act, coef) == IF MovesMin(coef, lower) THEN [act EXCEPT !.min = @ - coef * old, !.ninfmin = @ + 1]
                                                   ELSE [act EXCEPT !.max = @ - coef * old, !.ninfmax = @ + 1]
      t == [s EXCEPT !.act = [r \in Rows |-> IF r \in s.colRows[c] THEN After(@[r], s.a[r][c]) ELSE @[r]]]
  IN IF lower THEN [t EXCEPT !.lbInf = @ \cup {c}] ELSE [t EXCEPT !.ubInf = @ \cup {c}]

RelaxImplied(s, c) ==
  LET Relax(t, r, lower) ==
        IF c \notin (IF lower THEN t.lbInf ELSE t.ubInf) /\ RowImplies(t, r, RowOf(t, r), c, lower)
        THEN RemoveFiniteBound(t, c, lower) ELSE t
  IN FoldLeft(LAMBDA t, r : Relax(Relax(t, r, FALSE), r, TRUE), s, Ascending(s.colRows[c]))

Continuous(s) == {c \in Active(s) \ s.integral : s.colSize[c] > 0}
AllRelaxed(s, perm) ==
  LET Weight(c) == Cardinality({l \in {s.lbInf, s.ubInf} : c \notin l}) * s.colSize[c] * NCols + perm[c]
  IN FoldLeft(RelaxImplied, s, SetToSortSeq(Continuous(s), LAMBDA c, d : Weight(c) < Weight(d)))

DualRow(s, d, c) == [lhs |-> s.obj[c], rhs |-> s.obj[c], lhsInf |-> c \in d.lhsInf, rhsInf |-> c \in d.rhsInf]
DualRedundant(s, d, c) == LhsHolds(d.act[c], DualRow(s, d, c)) /\ RhsHolds(d.act[c], DualRow(s, d, c))

(* The dual problem: d.lhsInf are the columns whose reduced cost may be     *)
(* positive, because they have a lower bound, and so on.                    *)
DualOf(s, t) ==
  LET bounded == Cols \ (Continuous(s) \cap (t.lbInf \cup t.ubInf))
      domains == [lb |-> [r \in Rows |-> 0], ub |-> [r \in Rows |-> 0],
                  lbInf |-> ActiveRows(s) \ s.rhsInf, ubInf |-> ActiveRows(s) \ s.lhsInf]
      d == [lb |-> domains.lb, ub |-> domains.ub, lbInf |-> domains.lbInf, ubInf |-> domains.ubInf,
            lhsInf |-> Cols \ t.lbInf, rhsInf |-> Cols \ t.ubInf, redundant |-> bounded,
            act |-> [c \in Cols |-> ComputeRowActivity(Column(s, c), s.colRows[c], domains)],
            changed |-> <<>>, next |-> <<>>, fails |-> FALSE]
      redundant == bounded \cup {c \in Cols : DualRedundant(s, d, c)}
      Usable(c) == \/ d.act[c].ninfmax <= 1 /\ c \notin d.lhsInf
                   \/ d.act[c].ninfmin <= 1 /\ c \notin d.rhsInf
  IN [d EXCEPT !.redundant = redundant, !.changed = Ascending({c \in Cols \ redundant : Usable(c)})]
DualProblem(s, perm) == DualOf(s, AllRelaxed(s, perm))

(* A new bound of the dual value of row b.col.                               *)
DualBoundFails(d, b) == IF b.lower THEN b.col \notin d.ubInf /\ b.val > d.ub[b.col]
                                   ELSE b.col \notin d.lbInf /\ b.val < d.lb[b.col]

DualActivityChanged(s, d, b, c) ==
  LET lower == b.lower   r == b.col   coef == Coef(s, r, c)
      act == UpdateActivity(d.act[c], coef, lower, IF lower THEN d.lb[r] ELSE d.ub[r],
                            r \in (IF lower THEN d.lbInf ELSE d.ubInf), b.val)
      t == [d EXCEPT !.act[c] = act]
      usable == IF MovesMin(coef, lower) THEN c \notin d.rhsInf /\ act.ninfmin <= 1
                                         ELSE c \notin d.lhsInf /\ act.ninfmax <= 1
  IN IF c \in d.redundant THEN d
     ELSE IF DualRedundant(s, t, c) THEN [t EXCEPT !.redundant = @ \cup {c}]
     ELSE IF usable /\ c \notin Range(d.next) THEN [t EXCEPT !.next = Append(@, c)] ELSE t

DualBoundChanged(s, d, b) ==
  LET t == FoldLeft(LAMBDA e, c : DualActivityChanged(s, e, b, c), d, Ascending(s.rowCols[b.col]))
  IN IF DualBoundFails(d, b) THEN [d EXCEPT !.fails = TRUE]
     ELSE IF ~Tightens(d, b) THEN d
     ELSE IF b.lower THEN [t EXCEPT !.lb[b.col] = b.val, !.lbInf = @ \ {b.col}]
     ELSE [t EXCEPT !.ub[b.col] = b.val, !.ubInf = @ \ {b.col}]

(* First the bounds of the right hand side, then those of the left one with *)
(* the activity these leave.                                                *)
PropagateDualRow(s, d, c) ==
  LET All(e, bs) == FoldLeft(LAMBDA f, b : DualBoundChanged(s, f, b), e,
                             SetToSortSeq(bs, LAMBDA x, y : x.col < y.col))
      right == All(d, FromRhs(Column(s, c), s.colRows[c], d.act[c], DualRow(s, d, c), d))
  IN IF c \in d.redundant \/ d.fails THEN d
     ELSE All(right, FromLhs(Column(s, c), s.colRows[c], right.act[c], DualRow(s, d, c), right))

(* The code goes on until nothing changes, or until the bounds that grow    *)
(* become infinite; here for DualRounds rounds.                             *)
DualRounds == 8
PropagateDual(s, d) ==
  LET Round(e, i) == LET f == FoldLeft(LAMBDA g, c : PropagateDualRow(s, g, c), e, e.changed)
                     IN [f EXCEPT !.changed = f.next, !.next = <<>>]
  IN FoldLeft(Round, d, [i \in 1..DualRounds |-> i])

-----------------------------------------------------------------------------
(* What the dual bounds say about the problem                               *)

IsPrimalBounded(s) == \A c \in Active(s) : /\ s.obj[c] > 0 => c \notin s.lbInf
                                           /\ s.obj[c] < 0 => c \notin s.ubInf

(* A dual value that cannot be 0 makes the row hold with equality.          *)
ImpliedEquation(s, d, r) ==
  IF r \in s.equation \/ ~IsPrimalBounded(s) THEN {}
  ELSE IF r \notin d.lbInf /\ d.lb[r] > 0
  THEN IF s.act[r].ninfmax # 0 \/ s.lhs[r] < s.act[r].max THEN {<<LockRow(r), Side(r, FALSE, s.lhs[r])>>} ELSE {}
  ELSE IF r \notin d.ubInf /\ d.ub[r] < 0
  THEN IF s.act[r].ninfmin # 0 \/ s.rhs[r] > s.act[r].min THEN {<<LockRow(r), Side(r, TRUE, s.rhs[r])>>} ELSE {}
  ELSE {}

(* A reduced cost that cannot be 0 puts the column at a bound.              *)
DualActivity(s, d, c) == ComputeRowActivity(Column(s, c), s.colRows[c], d)
CostPositive(s, d, c) == LET act == DualActivity(s, d, c) IN act.ninfmax = 0 /\ act.max < s.obj[c]
CostNegative(s, d, c) == LET act == DualActivity(s, d, c) IN act.ninfmin = 0 /\ act.min > s.obj[c]

DualFixings(s, d, c) ==
  IF CostPositive(s, d, c) THEN {<<LockColBounds(c), Fix(c, s.lb[c])>>}
  ELSE IF CostNegative(s, d, c) THEN {<<LockColBounds(c), Fix(c, s.ub[c])>>} ELSE {}

DualInferFails(s, d) ==
  \/ d.fails
  \/ \E c \in Active(s) : /\ s.colSize[c] > 0
                          /\ \/ CostPositive(s, d, c) /\ c \in s.lbInf
                             \/ CostNegative(s, d, c) /\ c \in s.ubInf

Inferred(s, d) ==
  LET cols == {c \in Active(s) : s.colSize[c] > 0}
  IN IF DualInferFails(s, d) THEN Verdict("unbndOrInfeas")
     ELSE Found(UNION {{Tsx(r, reds) : reds \in ImpliedEquation(s, d, r)} : r \in ActiveRows(s)}
                  \cup UNION {{Tsx(NRows + c, reds) : reds \in DualFixings(s, d, c)} : c \in cols})
DualInfer(s, perm) == Inferred(s, PropagateDual(s, DualProblem(s, perm)))

-----------------------------------------------------------------------------
(* SimpleProbing: an equation with a binary column that puts all others at  *)
(* their bounds, with one value on one side and with the other on the other *)

ProbingRows(s) ==
  {r \in s.equation \ s.redundant :
     /\ s.rowSize[r] > 2 /\ s.act[r].ninfmin = 0 /\ s.act[r].ninfmax = 0
     /\ s.act[r].min + s.act[r].max = 2 * s.rhs[r]}
Deciding(s, r) ==
  {c \in s.rowCols[r] \cap s.integral :
     s.lb[c] = 0 /\ s.ub[c] = 1 /\ AbsOf(s.a[r][c]) = s.act[r].max - s.rhs[r]}

ReplaceByBinary(s, r, c, bin) ==
  LET range == s.ub[c] - s.lb[c]
  IN <<IF s.a[r][c] * s.a[r][bin] > 0 THEN Replace(c, bin, -range, s.ub[c])
                                      ELSE Replace(c, bin, range, s.lb[c])>>

SimpleProbing(s) ==
  LET Others(r, bin) == {c \in s.rowCols[r] \ {bin} : s.lb[c] # s.ub[c]}
      Of(r, bin) == {Tsx((r * NCols + bin) * NCols + c, ReplaceByBinary(s, r, c, bin)) : c \in Others(r, bin)}
  IN Found(UNION {UNION {Of(r, bin) : bin \in Deciding(s, r)} : r \in ProbingRows(s)})

-----------------------------------------------------------------------------
(* ImplIntDetection: a continuous column that only takes integral values    *)

IntegralRest(s, r, c, sides) ==
  /\ \A v \in sides : Divides(s.a[r][c], v)
  /\ \A d \in s.rowCols[r] \ {c} : d \in s.integral \cup s.implint /\ Divides(s.a[r][c], s.a[r][d])

FiniteSides(s, r) == (IF r \in s.lhsInf THEN {} ELSE {s.lhs[r]}) \cup (IF r \in s.rhsInf THEN {} ELSE {s.rhs[r]})

IsImpliedInteger(s, c) ==
  LET eqs == s.colRows[c] \cap s.equation
  IN IF eqs # {} THEN \E r \in eqs : IntegralRest(s, r, c, {s.rhs[r]})
     ELSE s.dualreds = 2 /\ \A r \in s.colRows[c] : IntegralRest(s, r, c, FiniteSides(s, r))

ImplIntDetection(s) ==
  Found({Tsx(c, <<ImplInt(c)>>) : c \in {d \in Active(s) \ (s.integral \cup s.implint) : IsImpliedInteger(s, d)}})
===============================================================================
