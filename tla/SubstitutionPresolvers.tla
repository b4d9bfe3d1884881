--------------------------- MODULE SubstitutionPresolvers ---------------------------
(***************************************************************************)
(* Presolvers that use an equation to get rid of a column: SingletonCols,  *)
(* SingletonStuffing, SimpleSubstitution and FreeVarSubstitution.          *)
(***************************************************************************)
EXTENDS BoundPresolvers

(* A row with the sides of row implies a bound of its column c, whatever    *)
(* the values of the other columns (row_implies_LB, row_implies_UB).        *)
RowImplies(s, r, row, c, lower) ==
  LET coef == s.a[r][c]
      fromLhs == (coef > 0) <=> lower
      other == IF lower THEN c \in s.ubInf ELSE c \in s.lbInf
      ninf == IF fromLhs THEN s.act[r].ninfmax ELSE s.act[r].ninfmin
      own == IF other THEN 0 ELSE coef * (IF lower THEN s.ub[c] ELSE s.lb[c])
      rest == (IF fromLhs THEN row.lhs - s.act[r].max ELSE row.rhs - s.act[r].min) + own
  IN \/ IF lower THEN c \in s.lbInf ELSE c \in s.ubInf
     \/ /\ ~(IF fromLhs THEN row.lhsInf ELSE row.rhsInf)
        /\ ninf = IF other THEN 1 ELSE 0
        /\ IF coef > 0
           THEN IF lower THEN rest >= coef * s.lb[c] ELSE rest <= coef * s.ub[c]
           ELSE IF lower THEN rest <= coef * s.lb[c] ELSE rest >= coef * s.ub[c]

(* The upper bound is looked for on the side of the lower one.              *)
RowImpliesLowerOnly(s, r, row, c, lower) == RowImplies(s, r, row, c, TRUE)

AsEquation(side) == [lhs |-> side, rhs |-> side, lhsInf |-> FALSE, rhsInf |-> FALSE]

-----------------------------------------------------------------------------
(* Columns with one entry: SingletonCols and the first part of              *)
(* SingletonStuffing                                                        *)

(* A side that a bound of the column does not imply moves with it; with     *)
(* primal postsolve the row is divided by the size of the coefficient.      *)
ShiftedSide(side, val, bound) == FloorDiv(side, AbsOf(val)) - (IF val > 0 THEN bound ELSE -bound)

(* c leaves the equation r, which becomes an inequality for the others.     *)
Inequality(s, c, r, lbImplied, ubImplied, side) ==
  LET val == s.a[r][c]
      lhsDropped == IF val < 0 THEN lbImplied ELSE ubImplied
      rhsDropped == IF val < 0 THEN ubImplied ELSE lbImplied
      newLhs == IF lhsDropped THEN side ELSE ShiftedSide(side, val, IF val < 0 THEN s.lb[c] ELSE s.ub[c])
      newRhs == IF rhsDropped THEN side ELSE ShiftedSide(side, val, IF val < 0 THEN s.ub[c] ELSE s.lb[c])
      toLhs == IF newLhs # side THEN <<Side(r, TRUE, newLhs)>> ELSE <<>>
      toRhs == IF newRhs # side THEN <<Side(r, FALSE, newRhs)>> ELSE <<>>
      others == Ascending(s.rowCols[r] \ {c})
  IN <<ChangeCoef(r, c, 0)>>
       \o (IF lhsDropped THEN <<SideInf(r, TRUE)>> ELSE <<>>)
       \o (IF rhsDropped THEN <<SideInf(r, FALSE)>> ELSE <<>>)
       \o (IF newLhs > side THEN toRhs \o toLhs ELSE toLhs \o toRhs)
       \o (IF AbsOf(val) = 1 THEN <<>>
           ELSE [i \in DOMAIN others |-> ChangeCoef(r, others[i], FloorDiv(s.a[r][others[i]], AbsOf(val)))])

(* handleEquation.  madeEquation: only the dual value makes r an equation.  *)
RemoveSlack(s, c, r, lbImplied, ubImplied, madeEquation, side) ==
  <<LockColBounds(c), LockRow(r)>>
    \o (IF madeEquation THEN <<Side(r, r \in s.lhsInf, side)>> ELSE <<>>)
    \o (IF s.rowSize[r] <= 1 THEN <<>>
        ELSE <<SubstituteObj(c, r)>>
               \o (IF lbImplied /\ ubImplied THEN <<Redundant(r)>>
                   ELSE Inequality(s, c, r, lbImplied, ubImplied, side)))

(* An integral column needs integral columns with multiples of its          *)
(* coefficient beside it.                                                   *)
SuitsIntegral(s, c, r) ==
  c \in s.integral => \A d \in s.rowCols[r] \ {c} : d \in s.integral /\ s.a[r][d] % AbsOf(s.a[r][c]) = 0

OnlyRow(s, c) == CHOOSE r \in s.colRows[c] : TRUE

SingletonInEquation(s, c) ==
  LET r == OnlyRow(s, c)
      lbImplied == RowImplies(s, r, RowOf(s, r), c, TRUE)
      ubImplied == RowImplies(s, r, RowOf(s, r), c, FALSE)
  IN IF /\ s.rowSize[r] > 1
        /\ lbImplied \/ ubImplied \/ s.obj[c] = 0
        /\ SuitsIntegral(s, c, r)
     THEN {RemoveSlack(s, c, r, lbImplied, ubImplied, FALSE, s.rhs[r])} ELSE {}

(* The column bounds the dual value of its row; if that cannot be 0, the    *)
(* row holds with equality in an optimal solution.                          *)
TightSide(s, c) ==
  LET r == OnlyRow(s, c)
      coef == s.a[r][c]
      lbImplied == RowImplies(s, r, RowOf(s, r), c, TRUE)
      ubImplied == RowImplies(s, r, RowOf(s, r), c, FALSE)
      dualBounded(below) == IF (coef > 0) <=> below THEN lbImplied ELSE ubImplied
  IN IF c \in s.integral THEN "none"
     ELSE IF dualBounded(TRUE) /\ s.obj[c] * coef > 0 THEN "lhs"
     ELSE IF dualBounded(FALSE) /\ s.obj[c] * coef < 0 THEN "rhs" ELSE "none"

ImpliedWith(s, c, r, side) ==
  {lower \in BOOLEAN : RowImplies(s, r, RowOf(s, r), c, lower) \/ RowImplies(s, r, AsEquation(side), c, lower)}
EquationWith(s, c, r, left, side, implied) ==
  IF implied # {} THEN RemoveSlack(s, c, r, TRUE \in implied, FALSE \in implied, TRUE, side)
  ELSE <<LockColBounds(c), LockRow(r), Side(r, ~left, side)>>
MakeEquation(s, c) ==
  LET r == OnlyRow(s, c)
      At(left, side) == EquationWith(s, c, r, left, side, ImpliedWith(s, c, r, side))
  IN IF TightSide(s, c) = "lhs" THEN At(TRUE, s.lhs[r]) ELSE At(FALSE, s.rhs[r])

(* Singletons outside of equations are a dual reduction.                    *)
DualSingleton(s, c) ==
  LET r == OnlyRow(s, c)
  IN /\ r \notin s.equation
     /\ s.dualreds = 2 \/ (s.dualreds = 1 /\ s.obj[c] # 0)
     /\ ~(DownLock(s.a[r][c], RowOf(s, r)) /\ UpLock(s.a[r][c], RowOf(s, r)))

UnboundedSingleton(s, c) ==
  /\ DualSingleton(s, c) /\ s.obj[c] # 0
  /\ (CanFall(s, c) /\ c \in s.lbInf) \/ (CanRise(s, c) /\ c \in s.ubInf)

(* What is found for column c; lock is the lock of a fixing.                *)
SingletonTsx(s, c, lock) ==
  IF OnlyRow(s, c) \in s.equation THEN SingletonInEquation(s, c)
  ELSE IF ~DualSingleton(s, c) THEN {}
  ELSE IF CanFall(s, c) THEN (IF c \in s.lbInf THEN {} ELSE {<<lock, Fix(c, s.lb[c])>>})
  ELSE IF CanRise(s, c) THEN (IF c \in s.ubInf THEN {} ELSE {<<lock, Fix(c, s.ub[c])>>})
  ELSE IF TightSide(s, c) # "none" THEN {MakeEquation(s, c)} ELSE {}

Ranked(list, Op(_)) == UNION {{Tsx(i, reds) : reds \in Op(list[i])} : i \in DOMAIN list}

(* Only columns that came on the list since the round began are looked at.  *)
SingletonCols(s) ==
  LET list == SubSeq(s.singletonCols, s.firstNewSingleton + 1, Len(s.singletonCols))
  IN IF \E c \in Range(list) : UnboundedSingleton(s, c) THEN Verdict("unbndOrInfeas")
     ELSE Found(Ranked(list, LAMBDA c : SingletonTsx(s, c, LockCol(c))))

-----------------------------------------------------------------------------
(* Singleton stuffing: a row with several continuous singletons that pay    *)
(* for its slack.  Those with the best ratio of price and coefficient are   *)
(* moved until the row holds whatever the other columns do; the others stay *)
(* at the bound their objective prefers.                                    *)

IsPenalty(s, c) ==
  /\ DualSingleton(s, c) /\ ~CanFall(s, c) /\ ~CanRise(s, c)
  /\ c \notin s.integral /\ TightSide(s, c) = "none"
PenaltyRows(s) ==
  {r \in Rows : Cardinality({c \in Range(s.singletonCols) : IsPenalty(s, c) /\ OnlyRow(s, c) = r}) > 1}

(* The coefficient in the row read as a . x <= rhs.                         *)
StuffCoef(s, r, c) == IF r \in s.rhsInf THEN -s.a[r][c] ELSE s.a[r][c]

(* The cheap bound of a penalty column, which is the one where it adds most *)
(* to the row, as it is taken for other columns; a column that can be fixed *)
(* by its objective is at the other bound.                                  *)
PenaltyVars(s, r) ==
  {c \in s.rowCols[r] :
     /\ s.colSize[c] = 1 /\ c \notin s.integral
     /\ \/ StuffCoef(s, r, c) > 0 /\ s.obj[c] < 0 /\ c \notin s.ubInf
        \/ StuffCoef(s, r, c) < 0 /\ s.obj[c] > 0 /\ c \notin s.lbInf}
FixedByObjective(s, r) ==
  {c \in s.rowCols[r] :
     /\ s.colSize[c] = 1 /\ c \notin s.integral
     /\ \/ StuffCoef(s, r, c) > 0 /\ s.obj[c] >= 0 /\ c \notin s.lbInf
        \/ StuffCoef(s, r, c) < 0 /\ s.obj[c] <= 0 /\ c \notin s.ubInf}

AtUpper(s, r, c) == (StuffCoef(s, r, c) > 0) # (c \in FixedByObjective(s, r))
BoundAt(s, c, upper) == IF upper THEN s.ub[c] ELSE s.lb[c]
InfiniteAt(s, c, upper) == IF upper THEN c \in s.ubInf ELSE c \in s.lbInf

StuffRow(s, r) ==
  LET Cheaper(c, d) == LET left == AbsOf(s.obj[c] * StuffCoef(s, r, d))
                           right == AbsOf(s.obj[d] * StuffCoef(s, r, c))
                       IN left < right \/ (left = right /\ c < d)
      vars == SetToSortSeq(PenaltyVars(s, r), Cheaper)
      side == IF r \in s.rhsInf THEN -s.lhs[r] ELSE s.rhs[r]
      room == side - MapThenSumSet(LAMBDA c : StuffCoef(s, r, c) * BoundAt(s, c, AtUpper(s, r, c)), s.rowCols[r])
      Gained(k) == MapThenSumSet(LAMBDA i : AbsOf(StuffCoef(s, r, vars[i])) * (s.ub[vars[i]] - s.lb[vars[i]]), 1..k)
      moved == Min({k \in DOMAIN vars \cup {0} : room + Gained(k) >= 0} \cup {Len(vars)})
      suitable == /\ \A c \in s.rowCols[r] : ~InfiniteAt(s, c, AtUpper(s, r, c))
                  /\ \A i \in 1..moved : ~InfiniteAt(s, vars[i], ~AtUpper(s, r, vars[i]))
  IN IF ~suitable THEN {}
     ELSE {<<LockColBounds(vars[i]), Fix(vars[i], BoundAt(s, vars[i], AtUpper(s, r, vars[i])))>> :
             i \in {j \in DOMAIN vars : j > moved}}

(* Without a reduction of the first part the status stays unchanged, and    *)
(* what the second part has found is not applied.                           *)
SingletonStuffing(s) ==
  LET list == s.singletonCols
      first == Found(Ranked(list, LAMBDA c : SingletonTsx(s, c, LockColBounds(c))))
      stuffed == IF s.dualreds < 2 THEN {} ELSE UNION {StuffRow(s, r) : r \in PenaltyRows(s)}
  IN IF \E c \in Range(list) : UnboundedSingleton(s, c) THEN Verdict("unbndOrInfeas")
     ELSE [first EXCEPT !.tsxs = @ \cup {Tsx(Len(list) + 1, reds) : reds \in stuffed}]

-----------------------------------------------------------------------------
(* SimpleSubstitution: equations with two columns                           *)

Sparser(s, c, d, perm) ==
  \/ s.colSize[c] < s.colSize[d]
  \/ /\ s.colSize[c] = s.colSize[d]
     /\ \/ s.obj[c] = 0 /\ s.obj[d] # 0
        \/ (s.obj[c] = 0 <=> s.obj[d] = 0) /\ perm[c] < perm[d]

Divides(m, n) == n % AbsOf(m) = 0

(* The column to substitute, of the columns c < d of row r.                 *)
Leaving(s, r, c, d, perm) ==
  LET vc == AbsOf(s.a[r][c])   vd == AbsOf(s.a[r][d])
      sparser == IF Sparser(s, c, d, perm) THEN c ELSE d
  IN IF (c \in s.integral) # (d \in s.integral) THEN (IF c \in s.integral THEN d ELSE c)
     ELSE IF c \in s.integral
     THEN IF vc < vd THEN c ELSE IF vc = vd THEN sparser ELSE d
     ELSE IF Divides(vc, vd) = Divides(vd, vc) THEN sparser
     ELSE IF Divides(vc, vd) THEN d ELSE c

(* Integral solutions of the equation lie on a line y |-> (s - v y, t + u y)*)
(* that must meet the bounds; flags of infinite bounds are not looked at.   *)
LineMeetsBounds(s, u, v, side, leave, stay) ==
  LET near == 0..(AbsOf(u) - 1)
      t == CHOOSE n \in near : (side - v * n) % AbsOf(u) = 0
      x == FloorDiv(side - v * t, u)
      Least(low, high, step) == CeilDiv(IF step > 0 THEN low ELSE high, step)
      Greatest(low, high, step) == FloorDiv(IF step > 0 THEN high ELSE low, step)
  IN Max({Least(t - s.ub[leave], t - s.lb[leave], u), Least(s.lb[stay] - x, s.ub[stay] - x, v)})
       <= Min({Greatest(t - s.ub[leave], t - s.lb[leave], u), Greatest(s.lb[stay] - x, s.ub[stay] - x, v)})

GcdOfTwo(m, n) == CHOOSE g \in 1..AbsOf(m) : /\ Divides(g, m) /\ Divides(g, n)
                                              /\ \A h \in (g + 1)..AbsOf(m) : ~(Divides(h, m) /\ Divides(h, n))

HasIntegralSolution(s, r, leave, stay) ==
  LET g == GcdOfTwo(s.a[r][stay], s.a[r][leave])
  IN /\ Divides(g, s.rhs[r])
     /\ \/ Divides(s.a[r][leave], s.a[r][stay])
        \/ LineMeetsBounds(s, FloorDiv(s.a[r][stay], g), FloorDiv(s.a[r][leave], g),
                           FloorDiv(s.rhs[r], g), leave, stay)

(* The bounds of the column that leaves become bounds of the one that stays.*)
BoundOfOther(s, r, leave, stay, fromUpper) ==
  LET same == s.a[r][leave] * s.a[r][stay] > 0
      lower == same <=> fromUpper
      gap == s.rhs[r] - s.a[r][leave] * BoundAt(s, leave, fromUpper)
      b == Bound(stay, lower, IF lower THEN CeilDiv(gap, s.a[r][stay]) ELSE FloorDiv(gap, s.a[r][stay]))
  IN IF InfiniteAt(s, leave, fromUpper) \/ ~Tightens(s, b) THEN <<>> ELSE <<b>>

SubstituteSimple(s, r, leave, stay) ==
  <<LockRow(r), LockColBounds(leave)>>
    \o BoundOfOther(s, r, leave, stay, FALSE) \o BoundOfOther(s, r, leave, stay, TRUE)
    \o <<Substitute(leave, r)>>

(* Pairs of the column that leaves and the column that stays.               *)
PairOf(s, r, perm) ==
  LET c == Min(s.rowCols[r])   d == Max(s.rowCols[r])
  IN IF Leaving(s, r, c, d, perm) = c THEN <<c, d>> ELSE <<d, c>>
SimpleRows(s) == {r \in s.equation \ s.redundant : s.rowSize[r] = 2}

SimpleSubstitution(s, perm) ==
  LET Pair(r) == PairOf(s, r, perm)
      Integral(r) == s.rowCols[r] \subseteq s.integral
      usable == {r \in SimpleRows(s) : Integral(r) => Divides(s.a[r][Pair(r)[1]], s.a[r][Pair(r)[2]])}
  IN IF \E r \in SimpleRows(s) : Integral(r) /\ ~HasIntegralSolution(s, r, Pair(r)[1], Pair(r)[2])
     THEN Verdict("infeasible")
     ELSE Found({Tsx(perm[r], SubstituteSimple(s, r, Pair(r)[1], Pair(r)[2])) : r \in usable})

-----------------------------------------------------------------------------
(* FreeVarSubstitution: a column whose bounds its rows imply                *)

(* Columns of equation r that may be substituted: continuous ones, or       *)
(* integral ones with the smallest coefficient that divides all others.     *)
FreeCandidates(s, r) ==
  LET least == Min({AbsOf(s.a[r][c]) : c \in s.rowCols[r]})
  IN IF s.rowCols[r] \subseteq s.integral
     THEN {c \in s.rowCols[r] : /\ AbsOf(s.a[r][c]) = least
                                /\ \A d \in s.rowCols[r] : Divides(least, s.a[r][d])}
     ELSE s.rowCols[r] \ s.integral

(* The rows that may imply a bound: the equation itself, then untouched     *)
(* rows, then those a substitution found before will change.                *)
RowsInTurn(s, r, c, touched) ==
  LET others == s.colRows[c] \ {r}
  IN <<r>> \o Ascending(others \ touched) \o Ascending(others \cap touched)
FirstImplying(s, rows, c, lower) ==
  LET implying == {i \in DOMAIN rows : RowImplies(s, rows[i], RowOf(s, rows[i]), c, lower)}
  IN IF implying = {} THEN 0 ELSE rows[Min(implying)]

FreeLocks(s, r, c, touched) ==
  {FirstImplying(s, RowsInTurn(s, r, c, touched), c, lower) : lower \in BOOLEAN}

SubstituteFree(s, r, c, touched) ==
  <<LockRow(r)>> \o LockAllRows(FreeLocks(s, r, c, touched) \ {r})
    \o <<LockColBounds(c), Substitute(c, r)>>

(* The candidates of an equation are tried in the order of their sparsity   *)
(* until one is implied free; no column is tried twice.                     *)
TryEquation(s, seen, r, perm) ==
  LET cands == SetToSortSeq(FreeCandidates(s, r) \ seen.used, LAMBDA c, d : Sparser(s, c, d, perm))
      free == {i \in DOMAIN cands : 0 \notin FreeLocks(s, r, cands[i], seen.touched)}
      n == Min(free \cup {Len(cands)})
      tried == [seen EXCEPT !.used = @ \cup {cands[i] : i \in 1..n}]
  IN IF free = {} THEN tried
     ELSE [tried EXCEPT !.touched = @ \cup s.colRows[cands[n]],
                        !.tsxs = Append(@, SubstituteFree(s, r, cands[n], seen.touched))]

(* Equations that were used in earlier calls come later, whatever their     *)
(* length: any order may occur, perm decides.                               *)
FreeVarSubstitution(s, perm) ==
  LET eqs == {r \in s.equation \ s.redundant : s.rowSize[r] > 1}
      sorted == SetToSortSeq(eqs, LAMBDA q, r : perm[q] < perm[r])
      none == [used |-> {}, touched |-> {}, tsxs |-> <<>>]
  IN Found(InOrder(FoldLeft(LAMBDA seen, r : TryEquation(s, seen, r, perm), none, sorted).tsxs))
================================================================================
