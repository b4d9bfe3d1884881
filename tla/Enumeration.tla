------------------------------- MODULE Enumeration -------------------------------
(***************************************************************************)
(* Solving a small problem by enumeration: what the properties compare the *)
(* reductions with.  p is a record with the fields of a problem; On maps   *)
(* the rows in force to the columns their storage holds.                   *)
(***************************************************************************)
EXTENDS MatrixChanges

CONSTANT Window  \* bound: values -Window..Window stand for an infinite domain

ASSUME WindowAssumption == Window \in Nat

(* Of a column that is in no row and has no objective, one value is enough. *)
ValuesOf(p, On, c) ==
  LET all == (IF c \in p.lbInf THEN -Window ELSE p.lb[c])..(IF c \in p.ubInf THEN Window ELSE p.ub[c])
      used == p.obj[c] # 0 \/ \E r \in DOMAIN On : c \in On[r]
  IN IF used \/ all = {} THEN all ELSE {CHOOSE v \in all : TRUE}

Dot(f, x) ==
  LET sum[n \in 0..NCols] == IF n = 0 THEN 0 ELSE sum[n - 1] + f[n] * x[n]
  IN sum[NCols]
Value(p, x) == Dot(p.obj, x)

Holds(p, r, cs, x) ==
  LET activity == Dot([c \in Cols |-> IF c \in cs THEN p.a[r][c] ELSE 0], x)
  IN /\ r \in p.lhsInf \/ activity >= p.lhs[r]
     /\ r \in p.rhsInf \/ activity <= p.rhs[r]

Solutions(p, On) ==
  LET Extend(X, c) == {[x EXCEPT ![c] = v] : x \in X, v \in ValuesOf(p, On, c)}
      all == FoldLeft(Extend, {[c \in Cols |-> 0]}, Ascending(Cols))
  IN {x \in all : \A r \in DOMAIN On : Holds(p, r, On[r], x)}

OptimalSolutions(p, On) ==
  LET X == Solutions(p, On)
      best == Min({Value(p, x) : x \in X})
  IN {x \in X : Value(p, x) = best}

AllRows == [r \in Rows |-> Cols]
===============================================================================
