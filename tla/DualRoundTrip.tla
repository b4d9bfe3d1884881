----------------------------- MODULE DualRoundTrip -----------------------------
(***************************************************************************)
(* A linear program on its way through presolve with dual postsolve: some  *)
(* reductions, an optimal basic solution of what is left, and the records  *)
(* undone one by one.  After each record the solution has to be an optimal *)
(* basic solution of the program the record was stored for.                *)
(*                                                                         *)
(* Presolvers run on a program the trivial presolve is done with.          *)
(***************************************************************************)
EXTENDS DualPostsolve

CONSTANTS
  Problems,       \* the linear programs presolve starts from
  MaxReductions   \* bound on the number of reductions

(* Bounds, objective and sides of every column and row, and a full matrix.  *)
LinearPrograms ==
  LET Bounds == Int \cup {NoBound}
  IN [rows : SUBSET Rows, cols : SUBSET Cols, lb : [Cols -> Bounds], ub : [Cols -> Bounds], obj : [Cols -> Int],
      lhs : [Rows -> Bounds], rhs : [Rows -> Bounds], a : [Rows -> [Cols -> Int]]]

ASSUME InstanceAssumption == MaxReductions \in Nat /\ Problems \subseteq LinearPrograms

(* So that the quotients of the code are exact                              *)
ASSUME CoefficientAssumption == \A lp \in Problems, r \in Rows, c \in Cols : lp.a[r][c] \in {-1, 0, 1}

VARIABLES
  calculateBasis, \* the parameter calculate_basis_for_dual
  phase,          \* "presolve", "infeasible", "solve", "undo" or "done"
  reductions,     \* number of reductions so far
  st,             \* the program and the postsolve storage
  u,              \* the solution that is carried back and the stored bounds
  next            \* the record that is undone next

vars == <<calculateBasis, phase, reductions, st, u, next>>

Nothing ==
  [s |-> [primal |-> [c \in Cols |-> 0], rc |-> [c \in Cols |-> 0], dual |-> [r \in Rows |-> 0],
          varBasis |-> [c \in Cols |-> "undefined"], rowBasis |-> [r \in Rows |-> "undefined"],
          basis |-> TRUE],
   stored |-> [lb |-> [c \in Cols |-> 0], ub |-> [c \in Cols |-> 0]],
   broken |-> FALSE]

Init ==
  /\ calculateBasis \in BOOLEAN
  /\ reductions = 0
  /\ st \in {[lp |-> lp, log |-> <<>>] : lp \in Problems}
  /\ phase = IF Crossed(st.lp) THEN "infeasible" ELSE "presolve"
  /\ u = Nothing
  /\ next = 0

-----------------------------------------------------------------------------
(* Presolve                                                                 *)

(* Bounds that would cross end presolve: kInfeasible, without a postsolve.  *)
Reduce(after) ==
  /\ phase = "presolve"
  /\ reductions < MaxReductions
  /\ reductions' = reductions + 1
  /\ IF Crossed(after.lp) THEN phase' = "infeasible" /\ st' = st ELSE phase' = phase /\ st' = after
  /\ UNCHANGED <<calculateBasis, u, next>>

Settled(lp) ==
  /\ \A r \in lp.rows : Cardinality(RowCols(lp, r)) > 1
  /\ \A c \in lp.cols : ColRows(lp, c) # {}

SingletonRow ==
  \E r \in st.lp.rows : /\ Cardinality(RowCols(st.lp, r)) = 1
                        /\ Reduce(RemoveSingletonRow(st, r))

RedundantSides ==
  \E r \in st.lp.rows :
    LET left == LhsFulfilled(st.lp, r)
        right == RhsFulfilled(st.lp, r)
    IN /\ \/ left /\ right
          \/ (left \/ right) /\ st.lp.lhs[r] # NoBound /\ st.lp.rhs[r] # NoBound
       /\ Reduce(DropSides(st, r))

EmptyColumn ==
  \E c \in st.lp.cols : /\ ColRows(st.lp, c) = {}
                        /\ EmptyColumnValue(st.lp, c) # NoBound
                        /\ Reduce(RemoveEmptyColumn(st, c))

(* Down, if nothing holds the column there, before up                       *)
FixToBound ==
  \E c \in st.lp.cols, below \in BOOLEAN :
    /\ Settled(st.lp)
    /\ Unlocked(st.lp, c, below)
    /\ below \/ ~Unlocked(st.lp, c, TRUE) \/ st.lp.lb[c] = NoBound
    /\ (IF below THEN st.lp.lb[c] ELSE st.lp.ub[c]) # NoBound
    /\ Reduce(DualFix(st, c, below))

FixToInfinity ==
  \E c \in st.lp.cols, below \in BOOLEAN :
    /\ Settled(st.lp)
    /\ Unlocked(st.lp, c, below)
    /\ below \/ ~Unlocked(st.lp, c, TRUE)
    /\ (IF below THEN st.lp.lb[c] ELSE st.lp.ub[c]) = NoBound
    /\ st.lp.obj[c] = 0
    /\ Reduce(DualFixInfinity(st, c, below))

TightenByRow ==
  \E r \in st.lp.rows : \E c \in RowCols(st.lp, r), isLower \in BOOLEAN :
    LET after == Propagate(st, r, c, isLower, calculateBasis)
    IN /\ Settled(st.lp)
       /\ after # st
       /\ Reduce(after)

SubstituteColumn ==
  \E c \in st.lp.cols, r \in st.lp.rows :
    /\ Settled(st.lp)
    /\ SingletonSubstitutable(st.lp, c, r)
    /\ Reduce(SubstituteSingleton(st, c, r))

MakeEquation ==
  \E c \in st.lp.cols, r \in st.lp.rows :
    /\ Settled(st.lp)
    /\ ColRows(st.lp, c) = {r}
    /\ st.lp.lhs[r] = NoBound \/ st.lp.rhs[r] = NoBound
    /\ \A below \in BOOLEAN : ~Unlocked(st.lp, c, below)
    /\ DualBoundGoesUp(st.lp, c, r) \/ DualBoundGoesDown(st.lp, c, r)
    /\ Reduce(ToEquation(st, c, r))

DeleteParallelRow ==
  \E kept, r \in st.lp.rows :
    /\ Settled(st.lp)
    /\ kept # r
    /\ ParallelRows(st.lp, kept, r)
    /\ Equation(st.lp, r) => Equation(st.lp, kept)
    /\ Reduce(RemoveParallelRow(st, kept, r))

MergeColumns ==
  \E c1, c2 \in st.lp.cols :
    /\ Settled(st.lp)
    /\ ParallelCols(st.lp, c1, c2)
    /\ Reduce(MergeParallelCols(st, c1, c2))

FinishPresolve ==
  /\ phase = "presolve"
  /\ st' = StoreReducedBounds(st)
  /\ phase' = "solve"
  /\ UNCHANGED <<calculateBasis, reductions, u, next>>

-----------------------------------------------------------------------------
(* The solver: any optimal basis of at most two columns                     *)

First(S) == CHOOSE x \in S : \A y \in S : x <= y
Second(S) == CHOOSE x \in S : \A y \in S : x >= y

Determinant(a, R, C) ==
  CASE R = {} -> 1
    [] Cardinality(R) = 1 -> a[First(R)][First(C)]
    [] OTHER -> a[First(R)][First(C)] * a[Second(R)][Second(C)] - a[First(R)][Second(C)] * a[Second(R)][First(C)]

(* x_c in  sum over C of a[r][c] * x_c = b[r]  for the rows R               *)
Solved(a, R, C, b, c) ==
  LET r == First(R)
      q == Second(R)
      d == First(C)
      e == Second(C)
  IN IF Cardinality(R) = 1 THEN Exact(b[r], a[r][c])
     ELSE IF c = d THEN Exact(b[r] * a[q][e] - b[q] * a[r][e], Determinant(a, R, C))
     ELSE Exact(a[r][d] * b[q] - a[q][d] * b[r], Determinant(a, R, C))

Transposed(a) == [c \in Cols |-> [r \in Rows |-> a[r][c]]]

ValueOf(status, lower, upper) ==
  IF status = "zero" THEN 0 ELSE IF status = "onUpper" THEN upper ELSE lower

ProperStatus(status, lower, upper) ==
  CASE status = "fixed" -> lower # NoBound /\ lower = upper
    [] status = "onLower" -> lower # NoBound /\ lower # upper
    [] status = "onUpper" -> upper # NoBound /\ lower # upper
    [] status = "zero" -> lower = NoBound /\ upper = NoBound
    [] OTHER -> FALSE

(* The solution with basic columns C, rows R not in the basis, and the      *)
(* statuses of what is not in the basis                                     *)
BasicSolution(lp, C, R, colStatus, rowStatus) ==
  LET at == [c \in lp.cols \ C |-> ValueOf(colStatus[c], lp.lb[c], lp.ub[c])]
      b == [r \in R |-> ValueOf(rowStatus[r], lp.lhs[r], lp.rhs[r])
                          - SumFunctionOnSet([c \in lp.cols \ C |-> lp.a[r][c] * at[c]], lp.cols \ C)]
      dual == [r \in Rows |-> IF r \in R THEN Solved(Transposed(lp.a), C, R, lp.obj, r) ELSE 0]
  IN [primal |-> [c \in Cols |-> IF c \in C THEN Solved(lp.a, R, C, b, c) ELSE IF c \in lp.cols THEN at[c] ELSE 0],
      rc |-> [c \in Cols |-> IF c \in lp.cols THEN lp.obj[c] - ColValue(lp, dual, c) ELSE 0],
      dual |-> dual,
      varBasis |-> [c \in Cols |-> IF c \in C THEN "basic" ELSE IF c \in lp.cols THEN colStatus[c] ELSE "undefined"],
      rowBasis |-> [r \in Rows |-> IF r \in R THEN rowStatus[r] ELSE IF r \in lp.rows THEN "basic" ELSE "undefined"],
      basis |-> TRUE]

ProperStatuses(S, lower, upper) ==
  {f \in [S -> Statuses] : \A x \in S : ProperStatus(f[x], lower[x], upper[x])}

Solve ==
  /\ phase = "solve"
  /\ \E C \in SUBSET st.lp.cols, R \in SUBSET st.lp.rows :
       /\ Cardinality(C) = Cardinality(R)
       /\ Determinant(st.lp.a, R, C) # 0
       /\ \E colStatus \in ProperStatuses(st.lp.cols \ C, st.lp.lb, st.lp.ub),
             rowStatus \in ProperStatuses(R, st.lp.lhs, st.lp.rhs) :
            LET s == BasicSolution(st.lp, C, R, colStatus, rowStatus)
            IN /\ PrimalFeasible(st.lp, s)
               /\ DualOptimal(st.lp, s)
               /\ u' = [u EXCEPT !.s = CopyFromReduced(s, calculateBasis)]
  /\ phase' = "undo"
  /\ next' = Len(st.log)
  /\ UNCHANGED <<calculateBasis, reductions, st>>

-----------------------------------------------------------------------------
(* Postsolve                                                                *)

UndoNext ==
  /\ phase = "undo"
  /\ next > 0
  /\ ~u.broken
  /\ u' = UndoRecord(u, st.log, next)
  /\ next' = next - RecordsUndone(st.log, next)
  /\ UNCHANGED <<calculateBasis, phase, reductions, st>>

Finished ==
  /\ phase = "undo"
  /\ next = 0 \/ u.broken
  /\ phase' = "done"
  /\ UNCHANGED <<calculateBasis, reductions, st, u, next>>

Next ==
  \/ SingletonRow \/ RedundantSides \/ EmptyColumn
  \/ FixToBound \/ FixToInfinity
  \/ TightenByRow
  \/ SubstituteColumn \/ MakeEquation
  \/ DeleteParallelRow \/ MergeColumns
  \/ FinishPresolve \/ Solve \/ UndoNext \/ Finished

Spec == Init /\ [][Next]_vars

-----------------------------------------------------------------------------
(* Properties                                                               *)

(* The program the solution belongs to now, and whether it has to be one    *)
(* already: what a substitution leaves behind is undone with it.            *)
Program == st.log[next + 1].before
AtProgram == phase = "undo" /\ next < Len(st.log) /\ ~BelongsToSubstitution(st.log, next + 1)

(* Every column and every row has a value, a price and a status, whichever   *)
(* records have been undone.                                                *)
TypeOK ==
  /\ calculateBasis \in BOOLEAN
  /\ phase \in {"presolve", "infeasible", "solve", "undo", "done"}
  /\ reductions \in 0..MaxReductions
  /\ st.lp.rows \subseteq Rows /\ st.lp.cols \subseteq Cols
  /\ next \in 0..Len(st.log)
  /\ u.s.primal \in [Cols -> Int] /\ u.s.rc \in [Cols -> Int] /\ u.s.dual \in [Rows -> Int]
  /\ u.s.varBasis \in [Cols -> Statuses] /\ u.s.rowBasis \in [Rows -> Statuses]
  /\ u.s.basis \in BOOLEAN /\ u.broken \in BOOLEAN

(* Undoing a record gives a feasible point of the program before it: a value  *)
(* that is computed again fits the bounds and rows that come back.            *)
StepFeasible == AtProgram => PrimalFeasible(Program, u.s)

(* ... with prices that prove it optimal: the price a bound carried moves to  *)
(* the row the bound came from, and no price pulls at a bound or side that is *)
(* gone.                                                                      *)
StepOptimal == AtProgram => DualOptimal(Program, u.s)

(* ... and with the statuses of a basis: as many basic as there are rows, and *)
(* the others on the bound their status names.                                *)
StepBasis == AtProgram => ~BasisViolated(Program, u.s)

(* The bounds kept during postsolve are those of the program before the       *)
(* record (BoundStorage): the statuses computed from them are right.          *)
StoredBoundsExact ==
  AtProgram => \A c \in Program.cols : u.stored.lb[c] = Program.lb[c] /\ u.stored.ub[c] = Program.ub[c]

(* The row a bound came from is found among the records before it.            *)
SavedRowFound == ~u.broken

(* The solution of the original problem passes the checks of verifySolution.  *)
Accepted == phase = "done" => VerifySolution(st.log[1].before, u.s) = "ok"
==============================================================================
