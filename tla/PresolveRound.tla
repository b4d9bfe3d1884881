------------------------------ MODULE PresolveRound ------------------------------
(***************************************************************************)
(* The loop of Presolve::apply() at work on a problem: trivial presolve,   *)
(* rounds of the fast, the medium and the exhaustive class, the            *)
(* transactions the presolvers store against one state of the problem and  *)
(* that are then applied one after the other, those postponed to the end   *)
(* of the round, the flush.  Presolvers of a class run in parallel, so     *)
(* each sees the problem as the round found it.                            *)
(*                                                                         *)
(* The problem is small enough to be solved by enumeration, which is what  *)
(* the properties compare the reductions with.                             *)
(***************************************************************************)
EXTENDS ParallelPresolvers, CoefficientPresolvers, ProbingPresolver, Components

CONSTANTS
  Problems,  \* problems to presolve: records with the fields of Init
  MaxRounds  \* bound: fast rounds

(* The presolvers in the order in which their reductions are applied.       *)
Presolvers ==
  <<"singletoncols", "coefftightening", "propagation", "simpleprobing", "parallelrows",
    "parallelcols", "stuffing", "dualfix", "simplifyineq", "doubletoneq", "cliquemerging",
    "implint", "domcol", "dualinfer", "probing", "substitution", "sparsify">>
ClassOf(p) ==
  IF p \in {"singletoncols", "coefftightening", "propagation"} THEN "fast"
  ELSE IF p \in {"implint", "domcol", "dualinfer", "probing", "substitution", "sparsify"} THEN "exhaustive" ELSE "medium"

ASSUME RoundAssumption ==
  /\ \A p \in Problems : p.dualreds \in 0..2 /\ p.enabled \subseteq Range(Presolvers)
  /\ MaxRounds \in Nat

VARIABLES
  orig,      \* the problem before presolve
  st,        \* the problem, its update and its postsolve storage
  phase,     \* "trivial", "class", "apply", "stop", "components" or "done"
  class,     \* round_to_evaluate
  pending,   \* transactions stored and not yet applied
  postponed, \* transactions that wait for the end of the round
  before,    \* what the statistics of a round compare: the problem at its start
  verdict,   \* "none", "infeasible" or "unbndOrInfeas"
  unsolved,  \* components a solver is to be called for
  solution,  \* values of the columns of the components that were solved
  optimum    \* for the properties: {optimal value of orig}, {} if infeasible

vars == <<orig, st, phase, class, pending, postponed, before, verdict, unsolved, solution, optimum>>
loop == <<orig, class, pending, postponed, before, verdict, optimum>>

Post == INSTANCE Postsolve WITH Unit <- 1

(* The problem with the coefficients that wait in the buffer.               *)
Current == FlushChangedCoeffs(st)
RemainingRows(s) == [r \in Rows \ s.redundant |-> s.rowCols[r]]

-----------------------------------------------------------------------------
(* Running presolvers                                                       *)

(* Presolvers whose random permutation or parallel search matters get perm. *)
Find(p, s, perm) ==
  CASE p = "singletoncols" -> SingletonCols(s)
    [] p = "coefftightening" -> CoefficientStrengthening(s)
    [] p = "propagation" -> ConstraintPropagation(s)
    [] p = "simpleprobing" -> SimpleProbing(s)
    [] p = "parallelrows" -> ParallelRowDetection(s, perm)
    [] p = "parallelcols" -> ParallelColDetection(s, perm)
    [] p = "stuffing" -> SingletonStuffing(s)
    [] p = "dualfix" -> DualFix(s)
    [] p = "simplifyineq" -> SimplifyInequalities(s)
    [] p = "doubletoneq" -> SimpleSubstitution(s, perm)
    [] p = "cliquemerging" -> CliqueMerging(s)
    [] p = "implint" -> ImplIntDetection(s)
    [] p = "domcol" -> DominatedCols(s)
    [] p = "dualinfer" -> DualInfer(s, perm)
    [] p = "probing" -> Probing(s)
    [] p = "substitution" -> FreeVarSubstitution(s, perm)
    [] p = "sparsify" -> SparsifyPresolver(s, perm)

UsesOrder == {"parallelrows", "parallelcols", "doubletoneq", "dualinfer", "substitution", "sparsify"}
Indices == 1..Max({NRows, NCols})
Orders(ran) ==
  LET shuffled == IF ran \cap UsesOrder = {} THEN {} ELSE Active(st) \cup (Rows \ st.redundant)
  IN {[i \in Indices |-> IF i \in shuffled THEN o[i] ELSE i] : o \in Permutations(shuffled)}

(* What the problem at the start switches off (initialize), and what its    *)
(* columns do now (PresolveMethod::run).                                    *)
Binary(p) == \A c \in Cols : c \notin p.lbInf \cup p.ubInf /\ p.lb[c] >= 0 /\ p.ub[c] <= 1
NeedsIntegral == {"simplifyineq", "coefftightening", "cliquemerging", "simpleprobing", "implint", "probing"}
NeedsContinuous == {"dualinfer", "implint"}

Available ==
  {p \in orig.enabled :
     /\ p = "parallelcols" => orig.dualreds = 2 /\ ~Binary(orig)
     /\ p \in {"dualfix", "dualinfer"} => orig.dualreds # 0
     /\ p = "domcol" => orig.dualreds = 2
     /\ p \in NeedsIntegral => \E c \in Active(st) : c \in st.integral
     /\ p \in NeedsContinuous => \E c \in Active(st) : c \notin st.integral}

Index(p) == CHOOSE i \in DOMAIN Presolvers : Presolvers[i] = p
Numbered(p, tsxs) == {[t EXCEPT !.rank = @ + 1000 * Index(p)] : t \in tsxs}

-----------------------------------------------------------------------------
(* The loop                                                                 *)

Harder(c) == CASE c = "fast" -> "medium" [] c = "medium" -> "exhaustive" [] OTHER -> "stop"

Image(s) == <<s.lb, s.ub, s.lbInf, s.ubInf, s.lhs, s.rhs, s.lhsInf, s.rhsInf, s.a, s.rowCols,
              s.ndeletedcols, s.ndeletedrows>>

Conclude(status) ==
  /\ verdict' = status
  /\ phase' = "stop"
  /\ pending' = {} /\ postponed' = <<>>
  /\ UNCHANGED <<orig, class, before, optimum>>

(* trivialPresolve, at the start and after a round that changed something.  *)
RunTrivialPresolve ==
  /\ phase = "trivial"
  /\ st' = TrivialPresolve(st)
  /\ UNCHANGED <<unsolved, solution>>
  /\ IF Failed(st') THEN Conclude(st'.ret)
     ELSE /\ phase' = IF class = "stop" \/ Active(st') = {} \/ st'.ndeletedrows >= NRows
                      THEN "stop" ELSE "class"
          /\ UNCHANGED <<orig, class, pending, postponed, before, verdict, optimum>>

(* The presolvers of the class that are not asleep run on st.  Only what a  *)
(* presolver with status reduced has stored is applied; a verdict of one    *)
(* decides the round, infeasible before unbounded.                          *)
Evaluate(found) ==
  LET With(status) == {p \in DOMAIN found : found[p].status = status}
  IN IF With("infeasible") # {} THEN Conclude("infeasible")
     ELSE IF With("unbndOrInfeas") # {} THEN Conclude("unbndOrInfeas")
     ELSE /\ pending' = UNION {Numbered(p, found[p].tsxs) : p \in With("reduced")}
          /\ before' = Image(st')
          /\ IF pending' = {} THEN class' = Harder(class) /\ UNCHANGED phase
                             ELSE phase' = "apply" /\ UNCHANGED class
          /\ UNCHANGED <<orig, postponed, verdict, optimum>>

StartClass ==
  /\ phase = "class" /\ class # "stop"
  /\ UNCHANGED <<unsolved, solution>>
  /\ class = "fast" => st.nrounds < MaxRounds
  /\ st' = IF class = "fast" THEN [ClearChangeInfo(st) EXCEPT !.nrounds = @ + 1] ELSE st
  /\ \E ran \in SUBSET {p \in Available : ClassOf(p) = class} : \E perm \in Orders(ran) :
       Evaluate([p \in ran |-> Find(p, st', perm)])

(* An infeasible transaction decides the round; nothing done after it       *)
(* matters.                                                                 *)
Apply ==
  /\ phase = "apply"
  /\ UNCHANGED <<unsolved, solution>>
  /\ \E t \in pending :
       /\ \A u \in pending : t.rank <= u.rank
       /\ st' = ApplyTransaction(st, t.reds, TRUE)
       /\ IF Failed(st') THEN Conclude(st'.ret)
          ELSE /\ pending' = pending \ {t}
               /\ postponed' = IF st'.ret = "postponed" THEN Append(postponed, t.reds) ELSE postponed
               /\ UNCHANGED <<orig, phase, class, before, verdict, optimum>>

(* applyPostponed: what a postponed transaction returns is not looked at.   *)
ApplyPostponed(s, tsxs) ==
  FoldLeft(LAMBDA t, reds : ApplyTransaction(t, reds, FALSE), FlushChangedCoeffs(s), tsxs)

(* The postponed transactions, flush and finishRound.  A round with an      *)
(* effect may count as a success, after which the fast presolvers run again.*)
FinishRound ==
  /\ phase = "apply" /\ pending = {}
  /\ UNCHANGED <<unsolved, solution>>
  /\ st' = Then(Flush(ApplyPostponed(st, postponed)), ClearStates)
  /\ IF Failed(st') THEN Conclude(st'.ret)
     ELSE /\ IF Image(st') = before
             THEN class' = Harder(class) /\ phase' = "class"
             ELSE class' \in {"fast", Harder(class)} /\ phase' = "trivial"
          /\ postponed' = <<>>
          /\ UNCHANGED <<orig, pending, before, verdict, optimum>>

-----------------------------------------------------------------------------
(* After the loop                                                           *)

(* Whether the statistics count anything at all.                            *)
Reduced ==
  \/ st.ndeletedcols > 0 \/ st.ndeletedrows > 0
  \/ <<st.lb, st.ub, st.lbInf, st.ubInf, st.a>> # <<orig.lb, orig.ub, orig.lbInf, orig.ubInf, orig.a>>
  \/ <<st.lhs, st.rhs, st.lhsInf, st.rhsInf>> # <<orig.lhs, orig.rhs, orig.lhsInf, orig.rhsInf>>

(* The loop ends before trivial presolve or after the last class.           *)
DetectComponents ==
  /\ phase = "stop" \/ (phase = "class" /\ class = "stop")
  /\ verdict = "none" /\ orig.dualreds = 2 /\ Reduced
  /\ LET parts == ComponentCols(st)
     IN /\ Cardinality(parts) > 1
        /\ unsolved' = parts \ {Largest(st, parts)}
  /\ phase' = "components"
  /\ UNCHANGED <<loop, st, solution>>

(* Solvers run in parallel and write into one solution.  One may stop at a  *)
(* limit, or not be called at all when the time is up.                      *)
SolveComponent ==
  /\ phase = "components"
  /\ \E part \in unsolved :
       /\ unsolved' = unsolved \ {part}
       /\ \/ UNCHANGED solution
          \/ \E x \in ComponentOptima(st, part) : solution' = x @@ solution
  /\ UNCHANGED <<loop, st, phase>>

RemoveSolved ==
  /\ phase = "components" /\ unsolved = {}
  /\ st' = IF DOMAIN solution = {} THEN st ELSE FixComponents(st, solution)
  /\ phase' = "done"
  /\ UNCHANGED <<loop, unsolved, solution>>

Init ==
  /\ orig \in Problems
  /\ st = [a |-> orig.a, obj |-> orig.obj, offset |-> 0,
           lb |-> orig.lb, ub |-> orig.ub, lbInf |-> orig.lbInf, ubInf |-> orig.ubInf,
           lhs |-> orig.lhs, rhs |-> orig.rhs, lhsInf |-> orig.lhsInf, rhsInf |-> orig.rhsInf,
           equation |-> {r \in Rows \ (orig.lhsInf \cup orig.rhsInf) : orig.lhs[r] = orig.rhs[r]},
           integral |-> orig.integral, implint |-> {},
           fixed |-> {}, merged |-> {}, redundant |-> {},
           rowCols |-> [r \in Rows |-> {c \in Cols : orig.a[r][c] # 0}],
           colRows |-> [c \in Cols |-> {r \in Rows : orig.a[r][c] # 0}],
           rowSize |-> [r \in Rows |-> Cardinality({c \in Cols : orig.a[r][c] # 0})],
           colSize |-> [c \in Cols |-> Cardinality({r \in Rows : orig.a[r][c] # 0})],
           act |-> [r \in Rows |-> ZeroActivity], lastChange |-> [r \in Rows |-> -1],
           changedNow |-> {}, changedLast |-> {},
           locks |-> [c \in Cols |-> [down |-> 0, up |-> 0]],
           colModified |-> {}, colBoundsModified |-> {}, rowModified |-> {}, rowBoundsModified |-> {},
           deletedCols |-> {}, redundantRows |-> {}, singletonRows |-> {}, emptyCols |-> {},
           singletonCols |-> <<>>, firstNewSingleton |-> 0, buffer |-> <<>>,
           ndeletedcols |-> 0, ndeletedrows |-> 0, nint |-> Cardinality(orig.integral),
           nrounds |-> 0, dualreds |-> orig.dualreds, storage |-> <<>>, ret |-> "unchanged"]
  /\ phase = "trivial" /\ class = "fast" /\ pending = {} /\ postponed = <<>>
  /\ before = <<>> /\ verdict = "none" /\ unsolved = {} /\ solution = <<>>
  /\ optimum = {Value(orig, x) : x \in OptimalSolutions(orig, AllRows)}

Next ==
  \/ RunTrivialPresolve \/ StartClass \/ Apply \/ FinishRound
  \/ DetectComponents \/ SolveComponent \/ RemoveSolved
Spec == Init /\ [][Next]_vars

-----------------------------------------------------------------------------
(* Properties                                                               *)

(* The loop is in one of its phases, and no size and no counter of infinite  *)
(* bounds leaves its range: -1 stands for a row or column that is gone.      *)
TypeOK ==
  /\ phase \in {"trivial", "class", "apply", "stop", "components", "done"}
  /\ unsolved \subseteq SUBSET Cols /\ DOMAIN solution \subseteq Cols
  /\ class \in {"fast", "medium", "exhaustive", "stop"}
  /\ verdict \in {"none", "infeasible", "unbndOrInfeas"}
  /\ st.fixed \subseteq Cols /\ st.merged \subseteq Cols /\ st.redundant \subseteq Rows
  /\ st.changedNow \cup st.changedLast \cup st.singletonRows \subseteq Rows
  /\ \A r \in Rows : /\ st.rowSize[r] \in -1..NCols
                     /\ st.act[r].ninfmin \in 0..NCols /\ st.act[r].ninfmax \in 0..NCols
  /\ \A c \in Cols : st.colSize[c] \in -1..NRows

(* The reductions of a round, each found on the problem as the round found  *)
(* it and applied to what the others have left, keep the optimal value.     *)
(* Presolve calls a problem infeasible or unbounded only if it is (problems *)
(* here are never unbounded).                                               *)
OptimumKept ==
  IF verdict = "none"
  THEN LET s == Current IN optimum = {s.offset + Value(s, x) : x \in OptimalSolutions(s, RemainingRows(s))}
  ELSE optimum = {}

(* presolve.dualreds limits what may be lost: with 0 every solution of the  *)
(* original problem is a solution of the presolved one with the columns     *)
(* fixed to its values, with 1 every optimal solution is.                   *)
Protected == IF orig.dualreds = 0 THEN Solutions(orig, AllRows)
             ELSE IF orig.dualreds = 1 THEN OptimalSolutions(orig, AllRows) ELSE {}
Survives(s, x) ==
  /\ \A c \in Active(s) : /\ c \in s.lbInf \/ x[c] >= s.lb[c]
                          /\ c \in s.ubInf \/ x[c] <= s.ub[c]
  /\ \A r \in Rows \ s.redundant : Holds(s, r, s.rowCols[r], x)
  /\ \A i \in DOMAIN s.storage :
       LET entry == s.storage[i]
       IN /\ entry.type = "fixed" => x[entry.col] = entry.val
          /\ entry.type = "subst" => Dot(entry.coefs, x) = entry.side
ProtectedSurvive == verdict = "none" => LET s == Current IN \A x \in Protected : Survives(s, x)

(* Postsolve turns every optimal solution of the presolved problem into a   *)
(* solution of the original one with the optimal value.                     *)
PostsolveRestores ==
  verdict = "none" =>
    \A x \in OptimalSolutions(Current, RemainingRows(Current)) :
      LET y == Post!Undo(st.storage, Post!CopyFromReduced(x, Active(st) \cup st.deletedCols))
      IN /\ \A c \in Cols : /\ c \in orig.lbInf \/ y[c] >= orig.lb[c]
                            /\ c \in orig.ubInf \/ y[c] <= orig.ub[c]
         /\ \A r \in Rows : Holds(orig, r, Cols, y)
         /\ Value(orig, y) \in optimum

(* After a round, before trivial presolve scans the whole problem again.     *)
RoundDone == phase = "trivial" /\ st.nrounds > 0

(* The activities kept up to date through bound changes, removals and       *)
(* merges are those a scan of the rows would find.                          *)
ActivitiesExact ==
  phase \in {"class", "apply"} \/ RoundDone =>
    \A r \in Rows \ st.redundant : st.act[r] = Rescan(st)[r]

(* Between rounds the row and the column storage hold the same entries, the *)
(* sizes count them, and nothing waits for deletion.                        *)
StoragesAgree ==
  phase = "class" \/ RoundDone =>
    /\ st.deletedCols = {} /\ st.redundantRows = {}
    /\ \A r \in Rows, c \in Cols : c \in st.rowCols[r] <=> r \in st.colRows[c]
    /\ \A r \in Rows \ st.redundant : st.rowSize[r] = Cardinality(st.rowCols[r])
    /\ \A c \in Active(st) : st.colSize[c] = Cardinality(st.colRows[c])

(* A column is counted and stored for postsolve once, however many          *)
(* reductions were found for it.                                            *)
RemovedOnce ==
  LET removed == Cardinality(st.fixed \cup st.merged)
  IN /\ st.ndeletedcols = removed
     /\ st.nint = Cardinality(orig.integral) - Cardinality(orig.integral \cap (st.fixed \cup st.merged))
     /\ phase = "class" => Len(st.storage) = removed

(* Between rounds every row left with one column is on the list of the next *)
(* flush, and no column without rows is left or it waits on its list; with  *)
(* presolve.dualreds = 1 those without objective stay for good.             *)
WorkListsComplete ==
  phase = "class" \/ RoundDone =>
    /\ \A r \in Rows \ st.redundant : st.rowSize[r] = 1 => r \in st.singletonRows
    /\ \A c \in Active(st) : st.colSize[c] = 0 => c \in st.emptyCols \/ (st.dualreds = 1 /\ st.obj[c] = 0)
===============================================================================
