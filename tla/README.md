# A TLA+ model of libpapilo

libpapilo reduces linear and mixed-integer problems (presolve) and turns a
solution of the reduced problem back into one of the original problem
(postsolve).  This directory models its core in TLA+: the loop that drives the
presolvers, sixteen of its presolvers and probing, the transactions they
store, the operations that change the problem and its matrix, components, and
postsolve of primal solutions, dual solutions and bases.  Paths below leave out
the prefix `src/src/papilo/`; `PR`, `PU`, `CM`, `PO` are `core/Presolve.hpp`,
`core/ProblemUpdate.hpp`, `core/ConstraintMatrix.hpp` and
`core/postsolve/Postsolve.hpp`.

## 1. The system

| part | state | operations | used by / uses |
|---|---|---|---|
| `Presolve` (PR) | `results`, `reductions`, `postponedReductions`, `round_to_evaluate`, `roundReduced`, `rundelayed`, statistics | `apply`, `run_presolvers`, `evaluate_and_apply`, `apply_all_presolver_reductions`, `applyPostponed`, `determine_next_round`, `finishRound` | runs presolvers, sends their transactions to `ProblemUpdate`; solves components in the end |
| `PresolveMethod` | enabled, delayed, skip counter, statistics | `run`, `skipRounds` | base of the presolvers |
| presolvers | hardly any of their own | `execute` reads the problem and stores transactions | run in parallel within a class |
| `Reductions` | reductions, transactions | `fixCol`, `changeColLB`, `lockCol`, ... | filled by a presolver, read by `Presolve` |
| `ProblemUpdate` (PU) | states of rows and columns, work lists (deleted columns, redundant rows, singleton rows, empty columns), buffer of changed coefficients, changed activities | `trivialPresolve`, `applyTransaction`, `flush`, `clearStates`, `compress` | changes `Problem`, writes `PostsolveStorage` |
| `Problem`, `VariableDomains`, `SingleRow` | domains, sides, flags, activities, locks | `recomputeAllActivities`, `recomputeLocks`, `update_activity...` | read by all presolvers at once |
| `ConstraintMatrix`, `SparseStorage`, `MatrixBuffer` | a storage by rows and one by columns with spare room, their sizes, two search trees over buffered entries | `changeCoefficients`, `aggregate`, `sparsify`, `deleteRowsAndCols`, `compress` | changed by `ProblemUpdate` only |
| `ProbingView` | a private copy of domains and activities | `setProbingColumn`, `propagateDomains`, `analyzeImplications`, `reset` | used by Probing |
| `Components` | a partition of the columns | `detectComponents` | used by `Presolve` after the loop |
| `PostsolveStorage`, `Postsolve` (PO), `BoundStorage`, `SavedRow` | a stack of records | `store...`, `undo` | written during presolve, read afterwards |
| `PrimalDualSolValidation` | | `verifySolution` | checks what `Postsolve` returns |
| `DependentRows`, `SymmetryStorage`, certificates, parsers, C interfaces, solver interfaces, executables | | | not modelled, section 9 |

What must be right:

* the loop stops, runs each class on a cleaned problem, loses no reduction,
  lets every presolver have its turn, reports infeasibility exactly when it was
  found;
* reductions that were found on one state of the problem and are applied to
  another one lose no best solution, and none at all where `presolve.dualreds`
  forbids it;
* quantities that are kept up to date (activities, sizes, counters, work lists,
  both copies of the matrix, search trees) equal what a fresh computation would
  give, and no row is written into the next one;
* every solution of the reduced problem becomes a solution of the original
  problem of the same value; prices and basis of an optimal one prove
  optimality after each record.

What is hard: presolvers of a class run in parallel on one snapshot and their
transactions are applied one after the other (conflicts are detected through
locks); an interrupt can come between any two presolvers; the loop's decisions
are spread over a dozen functions and several flags; activities are updated in
place while bounds change from infinite to finite; the two storages are changed
by different code and compacted independently; changed coefficients wait in a
buffer while other reductions of the round work on the old matrix;
substitutions are postponed behind everything else; components are solved in
parallel; postsolve relies on the order of its records and on rows saved at the
right moment; an instance may be used again.  `PROJECT.json` lists each hazard
at its line, with the properties that watch it.

## 2. Modules

| module | models | state and actions |
|---|---|---|
| `PresolveDriver` | `Presolve::apply` and its helpers, `PresolveMethod::run` | the members of `Presolve` and a program counter; one action per step of the loop.  The problem is a potential `size` |
| `PresolveDriverProofs` | | theorems about it (section 7) |
| `PresolveContract` | what presolve and postsolve promise together, abstractly | `Narrow`, `GiveUp` on the set of answers postsolve can still return |
| `PresolveContractProofs` | | what the promise means at the end |
| `RowActivity` | core/SingleRow.hpp | operators: activity, update, status, locks, propagation |
| `RowPropagation` | one row under bound changes | `Propagate` (the row itself), `Tighten` (any other source) |
| `FiniteSums` | | lemmas on sums over finite sets, for the next and other proof modules |
| `RowPropagationProofs` | | theorems about `RowPropagation` |
| `MatrixChanges` | the effect of `changeCoefficients`, `aggregate`, `sparsify` on entries, sizes, activities, work lists | operators on the record of the whole problem |
| `ProblemUpdate` | trivial presolve, flush, bounds, sides, fixings, substitutions, merges | operators on the same record |
| `Transactions` | core/Reductions.hpp, `applyTransaction`, conflicts | operators |
| `BoundPresolvers` | ConstraintPropagation, DualFix | each presolver maps a problem to a status and a set of transactions |
| `ParallelPresolvers` | ParallelColDetection, ParallelRowDetection | |
| `CoefficientPresolvers` | CoefficientStrengthening, SimplifyInequalities, CliqueMerging, Sparsify | |
| `SubstitutionPresolvers` | SingletonCols, SingletonStuffing, SimpleSubstitution, FreeVarSubstitution | |
| `DualPresolvers` | DominatedCols, DualInfer, SimpleProbing, ImplIntDetection | |
| `ProbingPresolver` | Probing and core/ProbingView.hpp | |
| `Components` | core/Components.hpp and what `apply` does with components | operators |
| `Enumeration` | solving a small problem by trying all points | for properties, and for the external solver of components |
| `PresolveRound` | the loop at work on a real problem | `RunTrivialPresolve`, `StartClass`, `Apply` (one transaction), `FinishRound`, `DetectComponents`, `SolveComponent`, `RemoveSolved` |
| `RoundContract` | `PresolveRound` as an implementation of `PresolveContract` | adds two history variables and `Observe` |
| `Postsolve` | `Postsolve::undo` on primal solutions | operators; values in units of 1/`Unit` |
| `ParallelColSplit` | one merged pair of columns | `Init` chooses any mergeable pair and any value of the merged column, `SplitPair` undoes the merge |
| `ParallelColSplitProofs` | | theorems about it |
| `SparseStorage`, `MatrixBuffer` | core/SparseStorage.hpp, core/MatrixBuffer.hpp | operators on cells and positions, on trees |
| `SparseStorageProofs` | | a theorem about making room |
| `MatrixStorage` | the matrix as it lies in memory | `AddChange`, `ChangeCoefficients`, `ChangeCoefficient`, `DeleteRowsAndCols`, `Compress`, `Substitute`, `ReplaceColumn`, `Sparsify` |
| `LinearProgram` | a linear program, a primal-dual solution with a basis, and misc/PrimalDualSolValidation.hpp | operators |
| `DualReductions`, `DualPostsolve` | the records presolve stores for dual postsolve, and how they are undone | operators |
| `DualRoundTrip` | a linear program reduced, solved and carried back | one action per reduction, `Solve`, `UndoNext`, `Finished` |
| `DualRoundTripProofs`, `DualFeasibleProofs` | | theorems about it |

Composition: `RowActivity` <- `MatrixChanges` <- `ProblemUpdate` <-
`Transactions` <- `BoundPresolvers`; the other presolver modules extend it.
`PresolveRound` extends all of them with `Components` and `Enumeration`, and
instantiates `Postsolve`; `RoundContract` extends `PresolveRound` and
instantiates `PresolveContract`.  `ParallelColSplit` extends `Postsolve` and
`RowPropagation` extends `RowActivity`, so that the operators checked alone are
the ones the rounds use; `DualPostsolve` instantiates `Postsolve` for the split
of merged columns.  `MatrixStorage` extends `SparseStorage` and `MatrixBuffer`.
`MC...` modules give the constants their values.

`PresolveDriver` and `PresolveRound` show two sides of the same loop: the first
has all of its control (delays, skips, limits, interrupts, reuse, certificate)
and an abstract problem, the second a real problem and the control its
reductions depend on.  `MatrixChanges` and `MatrixStorage` show two sides of the
matrix: which entries there are, and where they lie.

How code becomes an action or operator: an early return is a branch or a guard;
a handler with all it calls is one action; loops over rows and columns stop at
the first failure (`ForEach`), calls in sequence stop likewise (`Then`).  An
operation that fails half way leaves its state behind, as in the code.  The
status the code drops (`trivialPresolve` ignores that of its last `flush`,
`applyPostponed` that of its transactions) is dropped in the model.

In `PresolveRound`, the order in which the transactions of different presolvers
are applied is that of the code (by rank) where the code fixes it, and open
where rows or columns are looked at in parallel or by random permutation; any
subset of the enabled presolvers of a class may run, since presolvers skip
rounds on their own.  Whether a round that changed something counts as a
success is open too.

## 3. Contract and implementation

`PresolveContract` knows a set of *answers*: points of the original problem that
postsolve can still be made to return, with the value presolve ascribes to them.
A step may drop answers but neither gain one nor lose the best value; a verdict
is allowed only if there is no answer.  `RoundContract` maps `PresolveRound` to
it: the answers are all points of the reduced problem, optimal or not, that the
enumeration finds, carried back by `Postsolve!Undo`, with offset and objective of
the *reduced* problem.  That a step keeps the contract therefore says at once
that the reduction loses nothing it must not lose, that its record undoes it,
and that offset and objective were moved along; and it says so for every single
transaction in the middle of a round, with coefficients waiting in the buffer
and rows waiting for deletion, not only for the end of presolve.  The observer's
view lags one step behind (`seen`, `told`), with `Observe` to catch up: the
mapping is then evaluated on one state at a time, which TLC does fast.

`ContractDelivers` (section 7) draws the conclusion for a whole presolve.

## 4. Runs

Every property is stated with a comment in its module; for each property of each
passing run `PROJECT.json` has a mutant: a plausible bug under which it fails.

| run | question | instance | distinct states |
|---|---|---|---|
| driver_parallel | control of the parallel loop with interrupts everywhere: `TypeOK`, `CleanRound`, `TrivialBeforeClass`, `NobodyLeftOut`, `PostponedCharged`, `Termination` | 4 presolvers in three classes, one delayed and self-skipping, one filtered by type | 1,085,744 |
| driver_reuse | two calls of `apply` on one instance, one thread, a limit on rounds, interrupts: `RoundsBounded`, `InfeasibilityReported`, `EveryCallEnds` | 2 presolvers, one delayed, with and without certificate | 71,510 |
| row_propagation | `ActivityExact`, `StatusSound`, `PropagationSound`, `InfeasibleSound` | 2 columns, coefficients -2 and 1, all patterns of infinite bounds: 3,888 initial states | 109,040 |
| split_pure | `SplitFeasible`, `SplitSums` | scales -3..3, bounds -2..2 in quarters: 79,124 pairs and values | 158,248 |
| round_dual | propagation, dual fixing, merges, components: seven invariants and `ImplementsContract` | 1,854 problems: 2 rows and 3 columns with each kind of side, infinite bounds, each `presolve.dualreds`; three independent pairs of columns | 54,131 |
| round_mixed | the other presolvers: four invariants and `ImplementsContract` | 2,583 problems of 3 rows and 3 columns in nine families, each with two to five presolvers that find something there | 36,449 |
| storage | `RowsExact`, `ColumnsExact`, `NoneOverlaps`, `SizesExact`, `BufferOrdered` | 3 matrices with hardly any spare room, 3 operations in any order | 56,572 |
| dual_round_trip | `TypeOK`, `StepFeasible`, `StepOptimal`, `StepBasis`, `StoredBoundsExact`, `SavedRowFound`, `Accepted` | 17 linear programs of 2 rows and 3 columns, three with bounds that come to cross, with and without basis, up to 5 reductions, every optimal basis | 69,720 |
| round_lock, round_following, round_components, storage_full | violations, section 6 | 3, 3, 9 problems; the matrices of storage | |

`OptimumKept` compares the optimal value with the one found in the beginning;
`ProtectedSurvive` follows the solutions that `presolve.dualreds` protects;
`ActivitiesExact`, `StoragesAgree`, `RemovedOnce` and `WorkListsComplete` compare
what is kept up to date with what a scan finds.

### Bounds and why they are enough

* `MaxApplies`, `MaxSize`, `MaxFound`, `RoundCap`, `CallCap` (`PresolveDriver`):
  calls of `apply`, potential of the problem, transactions per presolver and
  round, and the values up to which counters are counted.  Two calls show what
  the first leaves behind; a potential of 1 allows a round with an effect after
  one without; no guard distinguishes counters beyond their caps.  The theorems
  of section 7 are free of most of these numbers.
* `MaxRounds = 2` (`PresolveRound`): a transaction goes wrong in the round it is
  found in or through state the round before left (activities, work lists,
  `lastChange`).
* `Window = 3`: an infinite bound is enumerated to 3.  `WindowSuffices`
  in `MCRoundDual`, checked by TLC, says that a window of 6 gives the same
  optimal values.
* `MaxFillin = 10`: presolve.maxfillinpersubstitution.  `ProbingRounds` and
  `DualRounds`, 8 each: rounds of propagation inside ProbingView and DualInfer,
  which in the code end through tolerances or growing numbers.
* `Low..High`, `Unit` (`ParallelColSplit`), `Window` (`RowPropagation`): values of
  bounds.  Without the bound, propagation of `2x + 2y = 1` goes on for ever; the
  code relies on its minimal improvement there.
* `MaxReductions = 5`, `Unit = 2`, `BoundOffset` (`DualRoundTrip`): five
  reductions empty a program of this size.  At most two basic columns keep every
  price and value an exact multiple of 1; coefficients are 0, 1 and -1
  (`CoefficientAssumption`).  Bounds that would cross end presolve as in the
  code (`Crossed`, phase "infeasible"): nothing is carried back then.
* `MaxSteps = 3`, `MaxDeleted = 2`, `SpareRatio = MinInterRowSpace = 1`,
  `MaxShiftPerRow = 3`, `MaxFillin = 2` (`MatrixStorage`): the least room the
  layout allows, so that shifts and refusals happen at once.  `LeavesRoom` keeps
  the storage run off the bug that storage_full shows.

Numbers are exact integers: tolerances (`Num`), huge values and their flags are
abstracted away.  Divisions round as the code rounds integral columns; where
columns are continuous (merges, slack columns, dual inference) data is chosen so
that no fraction arises.

## 5. Fairness

`PresolveDriver!FairSpec` has weak fairness of `Next`: the loop is a single
thread that goes on as long as it can, and the parallel section inside a class
ends because each presolver's `execute` does.  `Termination` and `EveryCallEnds`
need no more: that rounds which only move bounds end is due to the counter of
consecutive rounds without deletions
(`max_consecutive_rounds_of_only_bound_changes`, 500 by default, `MaxOnlyBound`
here); with -1 nothing in the loop bounds them.  The other modules state safety
only: their counters are bounded by the model, so that liveness would say
nothing about the code.

## 6. Disagreements between code and documentation

With a run that shows them:

* **round_lock** (PU:2030): `lockCol` does not conflict with a merge that moved
  the column's bounds.  The medium class stores a merge of column 2 into column
  1 and a dual fixing of column 1; the merge moves the bounds of column 1, the
  fixing passes its lock, is outside of the bounds, and the problem is called
  infeasible.
* **round_following** (core/ProbingView.hpp:650): of two columns that differ by
  one, probing keeps the one with the smaller index and takes it for binary by
  the values it has in one branch; a column going from 1 to 2 is mistaken for the
  probing column plus 1.  Probing together with the substitutions of the family
  `Equations` runs into the same thing, so it is not enabled there.
* **round_components** (PR:958, PU:1273): the columns of a solved component get
  their values as bounds while the infinity flags stay set; they are then passed
  over when fixed columns are removed, and postsolve gives them the value 0.
* **storage_full** (CM:1327): `change_coefficient` refuses a new entry if exactly
  one place is left and goes on if none is.

Found while modelling, described here without a run of their own:

* A `Presolve` object keeps results, postponed reductions and the activation of
  delayed presolvers of an earlier call (PR:534), although README.md:223 speaks of
  reuse: `FirstCallExact` proves that the first call reports only what it found,
  and needs the assumption that it is the first.  The certificate is moved away
  by the first call (PR:774); `UseNullCertificate` is the step of a second call
  that would use it.
* `presolve.maxrounds` is overrun by one round when delayed presolvers are
  activated (PR:1343); `RoundsBounded` says by no more than one.
* Postsolve of a continuous column merged into an integral one computes
  `col1val = solval - col1val * col2scale` (PO:1220), which may leave the bounds.
  This is why runs and theorems about the split exclude the kind "mixed".
* The test of a Diophantine equation takes infinite bounds for 0
  (presolvers/SimpleSubstitution.hpp:371), for example in 2x - 3y = 12.
* Five cases in which dual postsolve leaves a wrong basis; the programs of
  `MCDualRoundTrip` avoid them, and random programs that failed `StepBasis` could
  all be traced to one of them: a column fixed to infinity in two rows leaves
  the earlier row non-basic (PO:562-640); such a column with rows that hold at 0
  ends on a bound it does not have (PO:682-690); an empty column without objective
  is fixed strictly inside its bounds (PU:1915, SavedRow.hpp:69); the second of
  two parallel columns is tested with the infinity flags of the first
  (PO:1239-1241), so that the reduced cost of the merged column may not be passed
  on either and the prices are wrong as well (`StepOptimal`); the status of a
  parallel row with negative factor and price 0 is copied unmirrored (PO:936-946).
* The complementary slackness test of the rows (misc/PrimalDualSolValidation.hpp:218-240)
  reports a price only for a row whose value lies below its left-hand side (of a
  ranged row: below the left and above the right one at once), and the branch for a
  row with a right-hand side only asks for a left-hand side: a feasible solution
  passes it whatever its prices are.  `RowsPassSlackness` proves it; the model
  states the slackness of rows on its own (`DualOptimal`).

## 7. Proofs

`PresolveDriverProofs` holds for any number of presolvers, any classes, delays and options that the named assumptions of
`PresolveDriver` allow:

* `TypeCorrect == Spec => []TypeOK`.  The inductive invariant `TypeInv` adds
  `RunningClass`: while a class is under way `round` is a class and not yet
  `abort`, which `NextClass` needs to name a harder one.
* `RoundsAlmostBounded == Spec => []RoundsBounded`.  `RoundsInv` says what makes
  the loop pass the test of the limit: `roundReduced` is false while a class
  runs, so that only a round with an effect sets it again; once the limit is
  reached nothing sends the loop back to the fast class but
  `handle_case_exceeded`, which sets `rundelayed` and can do so once.
* `ClassesStartClean == ASSUME MaxApplies = 1 PROVE Spec => []CleanRound`.
  `CleanInv` follows results and reductions through a round, since the branch for
  an unchanged round skips `finishRound`: there nothing was found.
* `TrivialPresolveFirst == Spec => []TrivialBeforeClass`.  `TrivialInv` ties
  `roundReduced` to the changes since the last trivial presolve at every label
  between the two.  The property speaks of the parallel loop only: with one
  thread, reductions are applied between the presolvers of a class.
* `InfeasibilityNeverLost == Spec => []InfeasibilityReported`.  `ReportInv`
  follows a finding from the presolver or transaction through results, verdict and
  return value; it holds in later calls too, since what a reused object keeps is
  only ever too much.
* `FirstCallExact == ASSUME MaxApplies = 1 PROVE Spec => []InfeasibleOnlyIfDetected`,
  the converse, from `OnlyInv`; for a reused object it is false.
* `SlicesCharged == ASSUME MaxApplies = 1 PROVE Spec => []PostponedCharged`.
  `PostponedInv` says that the offsets cut what was postponed into slices (`Cut`),
  step by step while presolvers are applied, also after an interrupt.
* `NobodyIsLeftOut == ASSUME ~Sequential PROVE Spec => []NobodyLeftOut`.
  `LeftOutInv` says who has been called once the loop has reached a class, and
  that delayed presolvers are awake before it gives up.
* `EveryStepDescends == ASSUME MaxOnlyBound >= 0 PROVE Spec => [][Descends]_vars`.
  Every step brings a list of natural numbers (`LeftNatural`) down in
  lexicographic order: calls left, potential, whether the round deleted, rounds
  left that may move bounds only, restarts, classes left, stage of the class,
  presolvers left.  So no call of `apply` goes on for ever, whatever the
  presolvers find.  The point is in `NextRoundDescends`: the restart after
  success sets `successful` again and so allows one more restart, but a round
  with success deleted something or used up one of the rounds of only bound
  changes; the restart for delayed presolvers sets `rundelayed` for good.  With
  the option off (-1) rounds that move bounds could follow each other for ever:
  the assumption is needed.  The runs add, with fairness, that `apply` does not
  stop half-way (`Termination`, `EveryCallEnds`).

`ParallelColSplitProofs`: `EverySplitFits` and `EverySplitSums` (`SplitFeasible`,
`SplitSums`) for integral columns with any scale and bounds and for continuous
columns with scales 1, -1, 2, -2 (with larger ones quotients leave the grid of
1/`Unit`), "mixed" pairs excluded.  The core is `FirstValueFits`: moving the
second column next to its bound leaves the first one inside its own, because a
pair with holes is never merged (`HasHoles`).

`PresolveContractProofs`: `ContractDelivers == Spec => []Delivered`: steps that
keep the contract add up to a presolve whose answers solve the original problem
with the value ascribed to them, that keeps a best one, and that gives up only
problems without a solution.  The point is `NoBestNoAnswer`: `GiveUp` looks at
the answers that are left, and a best value that was kept says that they have
not been lost on the way.

`RowPropagationProofs` holds for any number of columns, any integral
coefficients and sides and any bounds, finite or not:

* `ActivityStaysExact == Spec => []ActivityExact`.  The activity kept for a row is
  a sum of contributions and a count of infinite ones; `ActivityInv` adds to
  `TypeOK` that kept and computed activities agree.  One bound change moves both
  by the same amount: the sums differ in the term of the changed column only
  (`TermMoves`), and the infinite contributions are counted by a cardinality.
* `StatusIsSound`, `PropagationIsSound`, `InfeasibleIsSound`: `StatusSound`,
  `PropagationSound` and `InfeasibleSound` in every reachable state.  They rest on
  `ActivityInv`: an exact activity lies below (above) the value of the row at
  every point within the bounds, and a finite activity without the term of one
  column does so for the other columns (`MinActivityBelow`, `RestBelow`); rounded
  division by a coefficient of either sign keeps the integral points
  (`DividedBound`).  Left sides are right sides of the negated row.  Points are
  those within the bounds of the moment, whoever tightened them.

`DualRoundTripProofs` begins with why two of the conditions checked in
dual_round_trip matter: `PricesProveOptimality`, for every linear program: a
solution with `PrimalFeasible` and `DualOptimal` (`StepFeasible`, `StepOptimal`)
satisfies the program and has the smallest objective value of all points that do.  The
objective is rewritten by prices and reduced costs (`ObjectiveByPrices`, an
exchange of two sums), and no price gains by moving within bounds or sides
(`PriceGainsNothing`).  `OptimalSolutionsPass` ties this to the code's own check:
with statuses that fit `VerifySolution` lets every such solution pass.

The rest of it holds for any set of linear programs, any number of reductions, and whatever solution, prices, statuses and order of the solver:

* `StoredBoundsStayExact == Spec => []StoredBoundsExact`.  The inductive invariant
  `BoundsInv` has two halves.  On the way down, `Reversible`: each record of the
  storage `Restores` the bounds its reduction took away (every other column is
  still there afterwards, with the same bounds), and the rows a record of a
  column fixed to infinity counts are records just below it.  It is proved
  reduction by reduction, with a lemma for each kind of record.  On the way up: the kept
  bounds are those of the program before the record undone last; undoing a
  record writes back what `Restores` says it holds and touches no other column
  (`UndoBringsBack`).  The loops over rows and fixed columns, folds over a
  sequence of any length, are followed turn by turn (`LoopTurn`).
* `BoundsInvariant == Spec => []BoundsInv`.
* `RightStepsDeliver == Spec /\ []StepsRight => [](Accepted /\ BestInTheEnd)`:
  `Accepted` follows from the conditions the run checks after every record
  (`StepsRight`: `TypeOK`, `StepFeasible`, `StepOptimal`, `StepBasis`,
  `SavedRowFound`), and the solution returned in the end is the best of the
  original program.  The step is that undoing the last record leads back to the
  original program and no other (`LastStepAtOriginal`, from `Reversible`).

`DualFeasibleProofs` holds for any set of linear programs with coefficients 0, 1
and -1, any number of rows, columns and reductions; of the solution that the
solver hands over it uses that it is feasible and in whole numbers
(`BasicPoint`), nothing about its prices or its basis:

* `StepsStayFeasible == Spec => []StepFeasible`: after every record undone the
  point is one of the program that record was stored for.  An implication from
  the program after a change to the one before is not enough for an invariant,
  since not every record stands for a program of its own.  `Owed` says what a
  point owes when record j was the last one undone: usually to be a solution of
  `log[j].before`; inside the records of a substitution (a row loses its column
  and its sides, which `BelongsToSubstitution` skips over) that the equation,
  solved for the substituted column, gives a solution of the program before the
  substitution; the rows that fell with a column at infinity owe nothing by
  themselves, as they are undone together with the column (`Skipped`).  `Carrying`
  says of a storage that each record, undone on a point that owes what the record
  after it asks for, leaves what it has to leave, and that the last one does so
  for every solution of the reduced program.
* On the way down each reduction keeps `Carrying` (`ReductionCarries`, with a
  lemma per reduction: `SingletonRowCarries`, `DropSidesCarries`,
  `EmptyColumnCarries`, `DualFixCarries`, `PropagateCarries`,
  `SubstituteSingletonCarries`, `ToEquationCarries`, `ParallelRowCarries`,
  `MergeCarries`, `InfinityCarries`).  What is used of the code each time is a
  comparison of values: activities bound the value of a row (`ActivityBounds`), a
  bound a row implies holds at each of its solutions (`ImpliedBoundHolds`), the
  split of a merged column gives both columns values within bounds
  (`SplitWithin`), the value that fulfils the farthest row fulfils them all
  (`FarFulfils`, `AllFulfilled`).
* On the way up `UndoMoves` says what undoing does to the point, `TurnOwes` that
  the debt is paid turn by turn, `NotSkippedNext` that no turn begins at a row
  that fell with a column.  `FeasibleInvariant` is the invariant, `BoundsInv` and
  these parts together.
* `DeliversFeasible`: the point postsolve ends with is one of the original
  program, unless a saved row was missed (`broken`).

The proof found two gaps in the model, mended before: a column fixed to a value
outside its bounds ends presolve (PU:621-642, PU:1357), and so does a value that
propagation finds beyond the opposite bound, instead of fixing the column there.

`SparseStorageProofs` is about the operators of the matrix storage, for any number
of rows, any sizes and gaps between them, any list of different rows in their
order, any room asked for and any limit on what may be moved:

* `ShiftRowsServes`: whatever `shiftRows` answers, the rows lie one behind the
  other within the array (`WellLaid`, which contains `Ordered`, the part of
  `NoneOverlaps` about one storage), with the entries they had; the first row has
  not moved; and if the answer is yes, every row asked for has its room, those
  served first as well as those served last.  These are the assertions in the code
  (core/SparseStorage.hpp:812, 835-843, 860, 883-891, 896, 902), and the last point,
  which no assertion states.
* The search keeps an equation (`SearchState`): the space that moving the rows
  found so far would make on either side, and what is still missing, are together
  what was asked for.  The code notes the space found last only; that the gaps
  passed before are used up entirely (`LeftGives`, `RightGives`) follows as the
  search goes on only while something is missing.  `RightKept` says that moving on
  the left does not disturb what was found on the right.
* The rows are moved within the one array, one after the other.  `MovedInPlace`
  says when that loses nothing: no row is moved onto one that is moved later
  (`InTurn`).  `UpwardsInTurn` and `DownwardsInTurn` show that the orders of the two
  loops are such, as rows moved to the left never end later than before and rows
  moved to the right never begin earlier (`PackedPlaces`); the opposite order
  breaks `ColumnsExact` in the run `storage`.  `PackedLaid` follows the borders.

`FiniteSums` proves what sums over finite sets need (`SumInt`, `SumLeq`,
`SumEqual`, `SumPlus`, `SumScaled`, `SumSwap`, `SumRemove`).  Induction is over
subsets of a finite set in set form: the set of all subsets for which a claim
holds contains the empty set and is closed under adding an element.  No theorem
with an operator parameter is needed.

Each proof that a step preserves an invariant has one step per action of `Next`;
PTL combines initial state and step.  Only model-checked:

* liveness (`Termination`, `EveryCallEnds`): fairness and ENABLED are out of the
  prover's reach; what can be said without them is `EveryStepDescends`;
* the invariants of `PresolveRound` and its step to `PresolveContract`: they hold
  for the transactions the presolvers store, not for any transaction
  (`RemovedOnce`, for one, relies on locks that keep a second reduction off a
  column fixed to infinity, whose bounds stay infinite), so a proof has to follow
  every presolver;
* the invariants of `MatrixStorage`: its trees are recursive operators, which a
  module with a theorem must not reach, and `NoneOverlaps` as it stands is false
  where a row is full (section 6); `ShiftRowsServes` is about the operator that
  `Substitute` uses to make room;
* `StepOptimal`, `StepBasis`, `SavedRowFound` and `TypeOK` of `DualRoundTrip`.
  The first three are no theorems: they fail for the programs section 6 names
  (the flags of merged columns, an empty column fixed strictly inside its bounds),
  which the run leaves out.  For `TypeOK` prices would have to be followed, since a
  price moves to a saved row only if that row has the column.  `Accepted` follows
  from these and `StepFeasible` by `RightStepsDeliver`.

## 8. Plan

Done: driver, single rows, rounds with all presolvers but FixContinuous,
substitutions with postponed transactions, changed coefficients, components,
matrix storage, primal and dual postsolve, the contract and its implementation.

Left:

1. `compress` in `PresolveRound`: renumbering of rows and columns in work lists
   and observing presolvers (in `MatrixStorage` it is an action already), and the
   clean-up of small coefficients.
2. Dual postsolve of programs with three rows, of coefficient changes, and of
   reductions found by several presolvers on one snapshot.
3. `PresolveRound` as an implementation of `PresolveDriver`, with the number of
   changes as the potential.
4. Proofs: `compress` and `changeRow` on `SparseStorage`, along the lines of
   `ShiftRowsServes`; the trees of `MatrixBuffer` as recursive functions, so that `MatrixStorage` can be
   proved about; `Flush` keeps `StoragesAgree`; `StepOptimal` for storages without
   merged columns, along the lines of `DualFeasibleProofs`.
5. The life cycle of the objects behind the C interface (`libpapilo.cpp`).

## 9. Not modelled

* FixContinuous, and the tolerances in all other presolvers: values are exact.
  Huge values and their flags likewise.
* The parallel paths inside ConstraintPropagation, DualFix and others: they
  collect the same reductions in another order; scores, work limits and hashing
  decide which reductions are looked for, not whether they are right.
* Dependent rows (a factorisation by an external library), symmetries (recorded,
  used by no modelled presolver), the VeriPB certificate (a log for an external
  checker; only its ownership is in `PresolveDriver`), the relaxation of bounds
  at the end of `apply`.
* Parsers, writers, solver interfaces, executables, C interfaces: input and
  output or calls of other programs.  The solvers that are called for components
  and reduced problems are external: they return any optimal solution, or none.
* Serialisation of the postsolve storage, the growth of the allocation, the
  renumbering of components for their solver, vendored code.
* In dual postsolve presolvers run on a program that trivial presolve is done
  with, one reduction at a time; substitution, sparsification, dual inference and
  doubleton equations are not used with dual postsolve by the code either.
