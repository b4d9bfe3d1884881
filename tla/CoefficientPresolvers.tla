--------------------------- MODULE CoefficientPresolvers ---------------------------
(***************************************************************************)
(* Presolvers that change coefficients of rows: CoefficientStrengthening,  *)
(* SimplifyInequalities, CliqueMerging and Sparsify, on integral columns.  *)
(***************************************************************************)
EXTENDS BoundPresolvers


-----------------------------------------------------------------------------
(* CoefficientStrengthening.  A row with one side, read as a . x <= rhs,    *)
(* exceeds it by at most surplus = maxact - rhs; larger coefficients are    *)
(* cut down to it and the side follows.  The column stays where it made the *)
(* row tightest.                                                            *)

OneSided(s, r) == (r \in s.lhsInf) # (r \in s.rhsInf)
MaxActivityKnown(s, r) == IF r \in s.lhsInf THEN s.act[r].ninfmax = 0 ELSE s.act[r].ninfmin = 0
Surplus(s, r) == IF r \in s.lhsInf THEN s.act[r].max - s.rhs[r] ELSE s.lhs[r] - s.act[r].min

StrengthenedCols(s, r) == {c \in s.rowCols[r] \ s.fixed : AbsOf(s.a[r][c]) > Surplus(s, r)}
StrengthenedCoef(s, r, c) == IF s.a[r][c] < 0 THEN -Surplus(s, r) ELSE Surplus(s, r)

(* The side moves as far as the row at the bound of the column.              *)
SideShift(s, r, c) ==
  LET atUpper == (s.a[r][c] > 0) <=> r \in s.lhsInf
  IN (StrengthenedCoef(s, r, c) - s.a[r][c]) * (IF atUpper THEN s.ub[c] ELSE s.lb[c])

(* The bound where the column relaxes the row is taken.                      *)
SideShiftAtOtherBound(s, r, c) ==
  LET atUpper == (s.a[r][c] > 0) <=> r \in s.lhsInf
  IN (StrengthenedCoef(s, r, c) - s.a[r][c]) * (IF atUpper THEN s.lb[c] ELSE s.ub[c])

StrengthenRow(s, r) ==
  LET cs == Ascending(StrengthenedCols(s, r))
      left == r \in s.rhsInf
      old == IF left THEN s.lhs[r] ELSE s.rhs[r]
      new == old + MapThenSumSet(LAMBDA c : SideShift(s, r, c), Range(cs))
  IN <<LockRow(r)>> \o [i \in DOMAIN cs |-> ChangeCoef(r, cs[i], StrengthenedCoef(s, r, cs[i]))]
       \o (IF new = old THEN <<>> ELSE <<Side(r, left, new)>>)

CoefficientStrengthening(s) ==
  Found({Tsx(0, StrengthenRow(s, r)) :
           r \in {q \in s.changedLast : /\ OneSided(s, q) /\ MaxActivityKnown(s, q)
                                        /\ Cardinality(s.rowCols[q]) > 1
                                        /\ StrengthenedCols(s, q) # {}}})

-----------------------------------------------------------------------------
(* SimplifyInequalities.  The entries are taken in the order of their size; *)
(* if their greatest common divisor leaves so much room at the side that    *)
(* the rest of the row always fits in, the rest is deleted and the side     *)
(* rounded to a multiple of the divisor.                                    *)

Gcd(m, n) == CHOOSE d \in 1..AbsOf(m) :
               /\ m % d = 0 /\ n % d = 0
               /\ \A e \in (d + 1)..AbsOf(m) : ~(m % e = 0 /\ n % e = 0)
GcdOf(s, r, cs) == FoldLeft(LAMBDA d, c : Gcd(d, s.a[r][c]), AbsOf(s.a[r][Head(cs)]), Tail(cs))

(* Entries of the same size: in the order of the row.                       *)
BySize(s, r) ==
  SetToSortSeq(s.rowCols[r], LAMBDA c, d : \/ AbsOf(s.a[r][c]) > AbsOf(s.a[r][d])
                                           \/ AbsOf(s.a[r][c]) = AbsOf(s.a[r][d]) /\ c < d)

(* The activity of the columns that are not among the first i.              *)
RestActivity(s, r, i) ==
  ComputeRowActivity(s.a[r], Range(SubSeq(BySize(s, r), i + 1, Len(BySize(s, r)))), s)

SideRest(s, r, gcd) ==
  IF r \notin s.rhsInf THEN s.rhs[r] % gcd
  ELSE IF s.lhs[r] % gcd = 0 THEN gcd ELSE s.lhs[r] % gcd

RestFitsIgnoringGap(s, r, i) ==
  LET gcd == GcdOf(s, r, SubSeq(BySize(s, r), 1, i))
      rest == RestActivity(s, r, i)
      side == SideRest(s, r, gcd)
  IN \/ r \notin s.rhsInf /\ rest.max <= side
     \/ r \notin s.lhsInf /\ rest.min >= side - gcd

RestFits(s, r, i) ==
  LET gcd == GcdOf(s, r, SubSeq(BySize(s, r), 1, i))
      rest == RestActivity(s, r, i)
      side == SideRest(s, r, gcd)
  IN \/ r \notin s.rhsInf /\ rest.max <= side /\ side - gcd < rest.min
     \/ r \notin s.lhsInf /\ rest.min >= side - gcd /\ side > rest.max

(* The numbers of entries that may be kept: the divisor is greater than 1   *)
(* up to there.                                                             *)
KeepsRow(s, r) ==
  {i \in 1..Cardinality(s.rowCols[r]) :
     /\ GcdOf(s, r, SubSeq(BySize(s, r), 1, i)) > 1
     /\ RestFits(s, r, i)}

SimplifyTo(s, r, n, gcd) ==
  LET dropped == SubSeq(BySize(s, r), n + 1, Cardinality(s.rowCols[r]))
      left == r \in s.rhsInf
      old == IF left THEN s.lhs[r] ELSE s.rhs[r]
      new == gcd * (IF left THEN CeilDiv(old, gcd) ELSE FloorDiv(old, gcd))
  IN IF dropped = <<>> /\ new = old THEN {}
     ELSE {<<LockRow(r)>> \o [i \in DOMAIN dropped |-> ChangeCoef(r, dropped[i], 0)]
             \o (IF new = old THEN <<>> ELSE <<Side(r, left, new)>>)}
SimplifyKeeping(s, r, n) == SimplifyTo(s, r, n, GcdOf(s, r, SubSeq(BySize(s, r), 1, n)))
SimplifyRow(s, r) == SimplifyKeeping(s, r, Min(KeepsRow(s, r)))

SimplifyInequalities(s) ==
  LET simple == {r \in ActiveRows(s) : /\ OneSided(s, r) /\ Cardinality(s.rowCols[r]) > 1
                                       /\ s.act[r].ninfmin = 0 /\ s.act[r].ninfmax = 0
                                       /\ KeepsRow(s, r) # {}}
  IN Found({Tsx(tsx[1], tsx[2]) : tsx \in UNION {{r} \X SimplifyRow(s, r) : r \in simple}})

-----------------------------------------------------------------------------
(* CliqueMerging.  Of the binary columns of a clique at most one can be 1.  *)
(* A clique is extended by columns that exclude every member, and then      *)
(* makes the cliques it covers redundant.                                   *)

(* Two entries together exceed the side, each alone does not.                *)
IsCliqueOf(s, r, sign, side) ==
  LET w == [c \in s.rowCols[r] |-> sign * s.a[r][c]]
  IN /\ \A c \in s.rowCols[r] : w[c] > 0 /\ w[c] <= side
     /\ \A c, d \in s.rowCols[r] : c < d => w[c] + w[d] > side

IsClique(s, r) ==
  /\ r \notin s.redundant /\ Cardinality(s.rowCols[r]) > 1
  /\ \A c \in s.rowCols[r] : c \notin s.lbInf \cup s.ubInf /\ s.lb[c] = 0 /\ s.ub[c] = 1
  /\ \/ r \notin s.rhsInf /\ s.lhs[r] <= 0 /\ IsCliqueOf(s, r, 1, s.rhs[r])
     \/ r \notin s.lhsInf /\ s.rhs[r] >= 0 /\ IsCliqueOf(s, r, -1, -s.lhs[r])

Cliques(s) == {r \in Rows : IsClique(s, r)}
Exclude(s, c, d) == \E r \in Cliques(s) : c # d /\ {c, d} \subseteq s.rowCols[r]

GreedyClique(s, r) ==
  LET start == s.rowCols[r]
      near == {c \in Cols \ start : Exclude(s, Min(start), c)}
      Extend(k, c) == IF \A d \in k : Exclude(s, c, d) THEN k \cup {c} ELSE k
  IN FoldLeft(Extend, start, Ascending(near))

Covered(s, r) == {q \in Cliques(s) \ {r} : s.rowCols[q] \subseteq GreedyClique(s, r)}

MergeCliques(s, r) ==
  LET members == Ascending(s.rowCols[r])
      new == Ascending(GreedyClique(s, r) \ s.rowCols[r])
      covered == Ascending(Covered(s, r))
      LockBoth(cs) == FlattenSeq([i \in DOMAIN cs |-> <<LockCol(cs[i]), LockColBounds(cs[i])>>])
  IN LockBoth(members \o new) \o [i \in DOMAIN covered |-> LockRow(covered[i])] \o <<LockRow(r)>>
       \o [i \in DOMAIN new |-> ChangeCoef(r, new[i], s.a[r][Head(members)])]
       \o [i \in DOMAIN covered |-> Redundant(covered[i])]

(* The transactions are sorted by the new members and the row.               *)
CliqueMerging(s) ==
  LET Key(r) == Ascending(GreedyClique(s, r) \ s.rowCols[r]) \o <<r - 1>>
      Less(p, q) == \/ \E i \in DOMAIN p \cap DOMAIN q : p[i] < q[i] /\ \A j \in 1..(i - 1) : p[j] = q[j]
                    \/ Len(p) < Len(q) /\ \A j \in DOMAIN p : p[j] = q[j]
      merging == {r \in Cliques(s) : Covered(s, r) # {}}
      sorted == SetToSortSeq(merging, LAMBDA p, q : Less(Key(p), Key(q)))
  IN Found(InOrder([i \in DOMAIN sorted |-> MergeCliques(s, sorted[i])]))

-----------------------------------------------------------------------------
(* Sparsify.  For every equation the rows that share almost all its columns *)
(* are candidates; each takes the multiple that cancels the most entries,   *)
(* if that is more than the equation creates.                               *)

BinaryCol(s, c) == c \notin s.lbInf \cup s.ubInf /\ s.lb[c] = 0 /\ s.ub[c] = 1

IsCandidate(s, eq, r) ==
  LET bins == {c \in s.rowCols[eq] : BinaryCol(s, c)}
      ints == s.rowCols[eq] \ bins
      hits == Cardinality(bins \cap s.rowCols[r])
  IN /\ r # eq
     /\ bins # {} => hits >= 1 /\ hits >= Cardinality(bins) - 1
     /\ ints \subseteq s.rowCols[r]

Scales(s, eq, r) == {-FloorDiv(s.a[r][c], s.a[eq][c]) : c \in s.rowCols[eq] \cap s.rowCols[r]}
Gain(s, eq, r, scale) ==
  Cardinality(Cancelled(s, eq, r, scale)) - 1 - Cardinality(Created(s, eq, r))
BestScale(s, eq, r) ==
  LET best == Max({Gain(s, eq, r, k) : k \in Scales(s, eq, r)})
  IN Min({k \in Scales(s, eq, r) : Gain(s, eq, r, k) = best})

SparsifyWith(s, eq) ==
  LET rows == {r \in Rows : IsCandidate(s, eq, r) /\ Gain(s, eq, r, BestScale(s, eq, r)) > 0}
      cands == [i \in 1..Cardinality(rows) |->
                  [row |-> Ascending(rows)[i], scale |-> BestScale(s, eq, Ascending(rows)[i])]]
  IN IF rows = {} THEN {} ELSE {<<LockRow(eq), Sparsification(eq, cands)>>}

(* Short equations come first, then those with many candidates; perm        *)
(* decides between equals.                                                  *)
SortedSparsifications(s, with, perm) ==
  LET eqs == {r \in DOMAIN with : with[r] # {}}
      Tsxs(r) == CHOOSE tsx \in with[r] : TRUE
      NCands(r) == Len(Tsxs(r)[2].cands)
      Earlier(p, q) == \/ s.rowSize[p] < s.rowSize[q]
                       \/ s.rowSize[p] = s.rowSize[q] /\ NCands(p) > NCands(q)
                       \/ s.rowSize[p] = s.rowSize[q] /\ NCands(p) = NCands(q) /\ perm[p] < perm[q]
      sorted == SetToSortSeq(eqs, Earlier)
  IN Found(InOrder([i \in DOMAIN sorted |-> Tsxs(sorted[i])]))
SparsifyPresolver(s, perm) ==
  SortedSparsifications(s, [r \in {q \in s.equation \ s.redundant : s.rowSize[q] > 1} |-> SparsifyWith(s, r)], perm)
===============================================================================
