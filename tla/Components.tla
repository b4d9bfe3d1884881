------------------------------- MODULE Components -------------------------------
(***************************************************************************)
(* Independent parts of a problem (core/Components.hpp) and what presolve  *)
(* does with them in the end (core/Presolve.hpp): all but the largest are  *)
(* handed to a solver, in parallel, and those that were solved leave the   *)
(* problem.                                                                *)
(***************************************************************************)
EXTENDS BoundPresolvers, Enumeration

-----------------------------------------------------------------------------
(* detectComponents                                                         *)

(* Rows of two columns are passed over.                                     *)
JoinedByLongRows(s, parts, r) ==
  LET met == {p \in parts : p \cap s.rowCols[r] # {}}
  IN IF Cardinality(s.rowCols[r]) <= 2 THEN parts ELSE (parts \ met) \cup {UNION met}

(* A row of two columns or more joins the sets of its columns.              *)
Joined(s, parts, r) ==
  LET met == {p \in parts : p \cap s.rowCols[r] # {}}
  IN IF Cardinality(s.rowCols[r]) <= 1 THEN parts ELSE (parts \ met) \cup {UNION met}

ComponentCols(s) ==
  FoldLeft(LAMBDA parts, r : Joined(s, parts, r), {{c} : c \in Active(s)}, Ascending(Rows \ s.redundant))

(* A row belongs where its first column does.                               *)
ComponentRows(s, part) == {r \in Rows \ s.redundant : Min(s.rowCols[r]) \in part}

(* compInfo is sorted by integral columns, nonzeros, continuous columns and *)
(* the number of the component, which is that of its first column.          *)
ComponentInfo(s, part) ==
  <<Cardinality(part \cap s.integral), MapThenSumSet(LAMBDA c : s.colSize[c], part),
    Cardinality(part \ s.integral), Min(part)>>
Smaller(x, y) == \E i \in 1..4 : x[i] < y[i] /\ \A j \in 1..(i - 1) : x[j] = y[j]
Largest(s, parts) ==
  CHOOSE part \in parts : \A p \in parts \ {part} : Smaller(ComponentInfo(s, p), ComponentInfo(s, part))

-----------------------------------------------------------------------------
(* Solving components                                                       *)

(* What a solver may answer: an optimal solution of the rows of the         *)
(* component (setUp), written to the places of its columns (getSolution).   *)
ComponentOptima(s, part) ==
  LET alone == [s EXCEPT !.obj = [c \in Cols |-> IF c \in part THEN @[c] ELSE 0]]
      rows == [r \in ComponentRows(s, part) |-> s.rowCols[r]]
  IN {[c \in part |-> x[c]] : x \in OptimalSolutions(alone, rows)}

(* The bounds are set without ado: infinity flags, activities and states    *)
(* stay as they are.                                                        *)
FixComponents(s, solution) ==
  LET solved == DOMAIN solution
      NewBound(c, old) == IF c \in solved THEN solution[c] ELSE old
      set == [s EXCEPT !.lb = [c \in Cols |-> NewBound(c, @[c])], !.ub = [c \in Cols |-> NewBound(c, @[c])]]
      fixed == FoldLeft(LAMBDA t, c : MarkColFixed(t, c), set, Ascending(solved))
  IN Flush(MarkRowsRedundant(fixed, {r \in Rows \ s.redundant : Min(s.rowCols[r]) \in solved}))
=================================================================================
