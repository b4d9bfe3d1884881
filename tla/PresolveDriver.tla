---------------------------- MODULE PresolveDriver ----------------------------
(***************************************************************************)
(* The presolving loop of Presolve<REAL>::apply (core/Presolve.hpp): which *)
(* class of presolvers runs next, when their reductions are applied, when  *)
(* the loop stops and which status is returned.                            *)
(*                                                                         *)
(* The problem itself is reduced to a potential: `size' is consumed by     *)
(* every deleted row or column and every changed coefficient, and 0 means  *)
(* no active row or column is left.  Changes of bounds and sides consume   *)
(* nothing: there may be arbitrarily many.  A transaction found by a       *)
(* presolver is one of three kinds: "delete" consumes size, "tighten"      *)
(* moves a bound or a side, "substitute" consumes size and is postponed    *)
(* while postponeSubstitutions is set.                                     *)
(***************************************************************************)
EXTENDS Integers, Sequences, FiniteSets

CONSTANTS
  NP,            \* number of presolvers, numbered in the order after the sort
  Timing,        \* Timing[p]: the timing class of presolver p
  Enabled,       \* presolvers with isEnabled()
  DelayedInit,   \* presolvers constructed with setDelayed(true)
  Typed,         \* presolvers whose type may filter them out (not kAllCols)
  SelfSkipping,  \* presolvers whose execute() calls skipRounds(getNCalls())
  Sequential,    \* apply_results_immediately && runs_sequential()
  MaxRounds,     \* presolve.maxrounds, -1 for unlimited
  MaxOnlyBound,  \* max_consecutive_rounds_of_only_bound_changes, -1 for off
  CanInterrupt,  \* a time limit or an early_exit_callback is set
  CertifyChoices,\* may a problem get a VeriPb certificate: TRUE when
                 \* verification_with_VeriPB is set and the problem is binary
  MaxApplies,    \* bound: number of calls of apply() on one instance
  MaxSize,       \* bound: potential of a problem
  MaxFound,      \* bound: transactions one presolver finds per round
  RoundCap,      \* bound: nrounds is counted up to here
  CallCap        \* bound: ncalls and nconsecutiveUnsuccessCall up to here

Presolvers == 1..NP
Classes == {"fast", "medium", "exhaustive"}
ClassRank == [fast |-> 1, medium |-> 2, exhaustive |-> 3]

ASSUME PresolversAssumption ==
  /\ NP \in Nat
  /\ Timing \in [Presolvers -> Classes]
  /\ \A p, q \in Presolvers : p < q => ClassRank[Timing[p]] <= ClassRank[Timing[q]]
  /\ Enabled \subseteq Presolvers
  /\ DelayedInit \subseteq Presolvers
  /\ Typed \subseteq Presolvers
  /\ SelfSkipping \subseteq Presolvers

ASSUME OptionsAssumption ==
  /\ Sequential \in BOOLEAN
  /\ CanInterrupt \in BOOLEAN
  /\ CertifyChoices \subseteq BOOLEAN /\ CertifyChoices # {}
  /\ MaxRounds \in Int /\ MaxRounds >= -1
  /\ MaxOnlyBound \in Int /\ MaxOnlyBound >= -1

ASSUME BoundsAssumption ==
  /\ MaxApplies \in Nat \ {0}
  /\ MaxSize \in Nat \ {0}
  /\ MaxFound \in Nat \ {0}
  /\ RoundCap \in Nat /\ RoundCap > MaxRounds + 1
  /\ CallCap \in Nat \ {0}

VARIABLES
  pc,               \* where the call of apply() is
  applies,          \* calls of apply() started so far
  round,            \* round_to_evaluate
  successful, rundelayed, reduced, roundReduced,
  nrounds,          \* stats.nrounds
  onlyBound,        \* stats.consecutive_rounds_of_only_boundchanges
  delta,            \* stats - last_rounds_stats, as two Booleans
  changed,          \* some counter of stats that decides kReduced is positive
  size,             \* potential of the problem
  results,          \* results[p]
  reductions,       \* reductions[p], the kinds of transactions it holds
  postponed,        \* postponedReductions, each with the presolver it came from
  offsets,          \* postponedReductionToPresolver
  delayed,          \* presolvers with isDelayed()
  calls, misses, skip, \* ncalls, nconsecutiveUnsuccessCall, skip per presolver
  todo,             \* presolvers of the running class that did not run yet
  turn,             \* presolver whose reductions are applied next
  status,           \* result.status
  ownsCertificate,  \* Presolve::certificate_interface is not null
  certificate,      \* ProblemUpdate::certificate_interface is not null
  dirty,            \* history: changed since the last trivialPresolve
  detected,         \* history: some step of this call reported infeasibility
  ended             \* history: why the loop ended

flags == <<successful, rundelayed, reduced, roundReduced>>
counters == <<calls, misses, skip, delayed>>
buffers == <<results, reductions, postponed, offsets>>
call == <<applies, ownsCertificate, certificate>>
problem == <<size, delta, changed, dirty>>
vars == <<pc, round, flags, nrounds, onlyBound, problem, buffers, counters,
          todo, turn, status, call, detected, ended>>

-----------------------------------------------------------------------------
(* Statuses, classes of presolvers and transactions                         *)

Statuses == {"unchanged", "reduced", "unbndOrInfeas", "unbounded", "infeasible"}
Severity == [unchanged |-> 0, reduced |-> 1, unbndOrInfeas |-> 2,
             unbounded |-> 3, infeasible |-> 4]
Infeasible(st) == st \in {"unbndOrInfeas", "unbounded", "infeasible"}

Rounds == Classes \cup {"abort"}
Kinds == {"delete", "tighten", "substitute"}
Verdicts == {"applied", "rejected", "infeasible"}

Class(c) == {p \in Presolvers : Timing[p] = c}

EvaluateResults == CHOOSE st \in Statuses :
  /\ st = "unchanged" \/ \E p \in Presolvers : results[p] = st
  /\ \A p \in Presolvers : Severity[results[p]] <= Severity[st]

UpTo(n, cap) == IF n < cap THEN n ELSE cap

(* One poll of is_interrupted(): the callback need not answer alike twice.  *)
Polls == IF CanInterrupt THEN BOOLEAN ELSE {FALSE}

(* What a step does to the problem: nd units of its potential disappear,    *)
(* and bounds or sides move or not.                                         *)
NoChange == [shrink |-> FALSE, tighten |-> FALSE]

Changes(nd, moved) ==
  /\ size' = size - nd
  /\ delta' = [shrink |-> delta.shrink \/ nd > 0, tighten |-> delta.tighten \/ moved]

(* Applying the transactions ks of a presolver: one verdict for each, the   *)
(* first infeasible one stops.  Those that delete need something to delete. *)
Applied(ks, v) == {k \in ks : v[k] = "applied"}
AnyInfeasible(ks, v) == \E k \in ks : v[k] = "infeasible"
Consistent(done, nd) == done \cap {"delete", "substitute"} # {} => nd > 0

Found(p) == IF results[p] = "reduced" THEN reductions[p] ELSE {}

FlushStatuses == {"reduced", "infeasible", "unbndOrInfeas"}
TrivialStatuses == {"unchanged", "reduced", "infeasible", "unbndOrInfeas"}

Return(st, why) ==
  /\ pc' = "returned"
  /\ status' = st
  /\ ended' = why

-----------------------------------------------------------------------------
(* apply(): set-up and the head of the loop                                 *)

Init ==
  /\ pc = "idle" /\ applies = 0
  /\ round = "fast"
  /\ successful = FALSE /\ rundelayed = FALSE /\ reduced = FALSE /\ roundReduced = FALSE
  /\ nrounds = 0 /\ onlyBound = 0
  /\ delta = NoChange /\ changed = FALSE /\ dirty = FALSE /\ size = 0
  /\ results = [p \in Presolvers |-> "unchanged"]
  /\ reductions = [p \in Presolvers |-> {}]
  /\ postponed = <<>> /\ offsets = <<>>
  /\ delayed = DelayedInit
  /\ calls = [p \in Presolvers |-> 0]
  /\ misses = [p \in Presolvers |-> 0]
  /\ skip = [p \in Presolvers |-> 0]
  /\ todo = {} /\ turn = 1
  /\ status = "unchanged"
  /\ ownsCertificate = TRUE /\ certificate = FALSE
  /\ detected = FALSE /\ ended = "no"

(* A call of apply() with a new problem.  stats and the flags start afresh; *)
(* results, reductions, the postponed transactions, the delayed flags and   *)
(* the skip counters are members that keep what the last call left.  The    *)
(* certificate is moved out of the Presolve object.                         *)
Apply ==
  /\ pc \in {"idle", "returned"}
  /\ applies < MaxApplies
  /\ pc' = "loop" /\ applies' = applies + 1
  /\ \E veripb \in CertifyChoices : certificate' = (veripb \/ ownsCertificate)
  /\ ownsCertificate' = FALSE
  /\ size' \in 0..MaxSize
  /\ delta' = NoChange /\ changed' = FALSE /\ dirty' = TRUE
  /\ nrounds' = 0 /\ onlyBound' = 0
  /\ successful' = TRUE /\ reduced' = TRUE /\ roundReduced' = TRUE
  /\ rundelayed' = (Enabled \cap delayed = {})
  /\ round' = "fast" /\ status' = "unchanged"
  /\ detected' = FALSE /\ ended' = "no"
  /\ todo' = {} /\ turn' = 1
  /\ UNCHANGED <<results, reductions, postponed, offsets, counters>>

RoundsReachedTooLate == MaxRounds # -1 /\ MaxRounds < nrounds
RoundsReached == MaxRounds # -1 /\ MaxRounds <= nrounds

(* The rest of the loop head once it is known what to run: leave the loop,  *)
(* or start the class, a fast one opening a new round.                      *)
StartClass(r) ==
  /\ r \in Classes
  /\ pc' = "run" /\ round' = r /\ todo' = Class(r)
  /\ nrounds' = IF r = "fast" THEN UpTo(nrounds + 1, RoundCap) ELSE nrounds
  /\ reduced' = IF r = "fast" THEN FALSE ELSE reduced
  /\ UNCHANGED ended

LeaveLoop ==
  /\ pc' = "finish" /\ round' = "abort"
  /\ ended' = IF ended = "no" THEN "stopped" ELSE ended
  /\ UNCHANGED <<todo, nrounds, reduced>>

TrivialPresolve ==
  /\ pc = "loop" /\ roundReduced
  /\ \E st \in TrivialStatuses, nd \in 0..size, moved \in BOOLEAN, poll \in Polls :
       /\ Changes(nd, moved)
       /\ changed' = (changed \/ nd > 0 \/ moved)
       /\ dirty' = FALSE
       /\ status' = st
       /\ \/ /\ Infeasible(st)
             /\ Return(st, "infeasible")
             /\ detected' = TRUE
             /\ UNCHANGED <<round, todo, nrounds, reduced, roundReduced>>
          \/ /\ ~Infeasible(st)
             /\ roundReduced' = FALSE
             /\ UNCHANGED detected
             /\ IF poll \/ RoundsReached \/ size' = 0 \/ round = "abort"
                THEN LeaveLoop ELSE StartClass(round)
  /\ UNCHANGED <<successful, rundelayed, onlyBound, results, reductions,
                 postponed, offsets, counters, turn, call>>

SkipTrivialPresolve ==
  /\ pc = "loop" /\ ~roundReduced
  /\ \E poll \in Polls : IF poll \/ round = "abort" THEN LeaveLoop ELSE StartClass(round)
  /\ UNCHANGED <<successful, rundelayed, roundReduced, onlyBound, problem, buffers,
                 counters, turn, status, call, detected>>

-----------------------------------------------------------------------------
(* PresolveMethod::run                                                      *)

Asleep(p) == p \notin Enabled \/ p \in delayed

(* execute() answers st and leaves the transactions ks in reductions[p].    *)
FoundBy(st) == IF st = "reduced"
               THEN {ks \in SUBSET Kinds : ks # {} /\ Cardinality(ks) <= MaxFound}
               ELSE {{}}

Execute(p, st) ==
  /\ calls' = [calls EXCEPT ![p] = UpTo(@ + 1, CallCap)]
  /\ misses' = [misses EXCEPT ![p] = IF st = "reduced" THEN 0 ELSE
                                     IF st = "unchanged" THEN UpTo(@ + 1, CallCap) ELSE @]
  /\ skip' = [skip EXCEPT ![p] =
       (IF p \in SelfSkipping THEN calls'[p] ELSE 0)
       + (IF st = "unchanged" /\ Timing[p] # "fast" THEN misses'[p] ELSE 0)]
  /\ \E ks \in FoundBy(st) : reductions' = [reductions EXCEPT ![p] = @ \cup ks]

(* run() counts the rounds it has to skip down to zero.                     *)
SkipsUnderflowing(p) == ~Asleep(p)
Skips(p) == ~Asleep(p) /\ skip[p] # 0

Run(p) ==
  /\ UNCHANGED delayed
  /\ \/ /\ Asleep(p) \/ (skip[p] = 0 /\ p \in Typed)
        /\ results' = [results EXCEPT ![p] = "unchanged"]
        /\ UNCHANGED <<calls, misses, skip, reductions>>
     \/ /\ Skips(p)
        /\ results' = [results EXCEPT ![p] = "unchanged"]
        /\ skip' = [skip EXCEPT ![p] = @ - 1]
        /\ UNCHANGED <<calls, misses, reductions>>
     \/ /\ ~Asleep(p) /\ skip[p] = 0
        /\ \E st \in Statuses :
             /\ results' = [results EXCEPT ![p] = st]
             /\ Execute(p, st)

(* tbb::parallel_for over the class: in any order, each writing its own     *)
(* slot, all reading the same problem.                                      *)
RunParallel ==
  /\ pc = "run" /\ ~Sequential
  /\ \E p \in todo :
       /\ Run(p)
       /\ todo' = todo \ {p}
       /\ detected' = (detected \/ Infeasible(results'[p]))
  /\ UNCHANGED <<pc, round, flags, nrounds, onlyBound, problem, postponed, offsets,
                 turn, status, call, ended>>

(* One thread: in the order of the presolvers, each followed by             *)
(* apply_result_sequential before the next one starts.                      *)
RunSequential ==
  /\ pc = "run" /\ Sequential
  /\ \E p \in todo :
       /\ \A q \in todo : p <= q
       /\ Run(p)
       /\ turn' = p
       /\ detected' = (detected \/ Infeasible(results'[p]))
  /\ pc' = "immediate"
  /\ UNCHANGED <<round, flags, nrounds, onlyBound, problem, postponed, offsets,
                 todo, status, call, ended>>

(* apply_reduction_of_solver notes an infeasible transaction in results.    *)
ResultKept(p, inf) == results[p]
ResultAfter(p, inf) == IF inf THEN "infeasible" ELSE results[p]

(* apply_result_sequential keeps that unless flush knows worse.             *)
FlushOverwrites(res, f) == f
FlushedResult(res, f) == IF Infeasible(f) THEN f ELSE res

ApplyImmediately ==
  /\ pc = "immediate"
  /\ LET ks == Found(turn) IN
     \E v \in [ks -> Verdicts], f \in FlushStatuses, nd \in 0..size, moved \in BOOLEAN :
       /\ Consistent(Applied(ks, v), nd)
       /\ Changes(nd, moved)
       /\ changed' = (changed \/ Applied(ks, v) # {} \/ nd > 0 \/ moved)
       /\ dirty' = (dirty \/ nd > 0 \/ moved)
       /\ results' = [results EXCEPT ![turn] =
                       FlushedResult(ResultAfter(turn, AnyInfeasible(ks, v)), f)]
       /\ detected' = (detected \/ AnyInfeasible(ks, v) \/ Infeasible(f))
       /\ todo' = IF Infeasible(results'[turn]) \/ size' = 0 THEN {} ELSE todo \ {turn}
  /\ pc' = "run"
  /\ UNCHANGED <<round, flags, nrounds, onlyBound, reductions, postponed, offsets,
                 counters, turn, status, call, ended>>

-----------------------------------------------------------------------------
(* determine_next_round                                                     *)

Harder == [fast |-> "medium", medium |-> "exhaustive"]

(* The first time the classes are exhausted every presolver is un-delayed.  *)
StillDelayed == delayed
DelayedAfter == IF rundelayed THEN delayed ELSE {}

(* The restart for the delayed presolvers is not remembered.                *)
NextClassUnmarked(red) ==
  IF round # "exhaustive"
  THEN round' = Harder[round] /\ UNCHANGED <<successful, rundelayed, delayed, ended>>
  ELSE IF ~rundelayed \/ (red /\ successful)
  THEN /\ round' = "fast" /\ successful' = FALSE /\ delayed' = DelayedAfter
       /\ UNCHANGED <<rundelayed, ended>>
  ELSE round' = "abort" /\ ended' = "exceeded" /\ UNCHANGED <<successful, rundelayed, delayed>>

(* increase_delegator followed by handle_case_exceeded; red is the value of *)
(* `reduced' by now.                                                        *)
NextClass(red) ==
  \/ /\ round # "exhaustive"
     /\ round' = Harder[round]
     /\ UNCHANGED <<successful, rundelayed, delayed, ended>>
  \/ /\ round = "exhaustive"
     /\ ~rundelayed \/ (red /\ successful)
     /\ round' = "fast"
     /\ successful' = FALSE
     /\ rundelayed' = TRUE
     /\ delayed' = DelayedAfter
     /\ UNCHANGED ended
  \/ /\ round = "exhaustive"
     /\ rundelayed /\ ~(red /\ successful)
     /\ round' = "abort"
     /\ ended' = "exceeded"
     /\ UNCHANGED <<successful, rundelayed, delayed>>

OnlyDeletions == delta.shrink
AnyChange == delta.shrink \/ delta.tighten
CountsOnlyBounds == ~delta.shrink /\ MaxOnlyBound >= 0
OnlyBoundNeverCounted == IF CountsOnlyBounds THEN onlyBound ELSE 0
OnlyBoundNow == IF CountsOnlyBounds THEN UpTo(onlyBound + 1, MaxOnlyBound + 1) ELSE 0

(* are_applied_tsx_negligible: certainly when too many rounds in a row only *)
(* moved bounds and when nothing changed at all; else the counts are        *)
(* compared with a fraction of the problem's size and either can happen.    *)
Negligible == IF ~AnyChange \/ (CountsOnlyBounds /\ OnlyBoundNow > MaxOnlyBound)
              THEN {TRUE} ELSE BOOLEAN

AfterUnchanged ==
  /\ NextClass(reduced)
  /\ UNCHANGED <<reduced, roundReduced, onlyBound>>

AfterNegligible ==
  /\ TRUE \in Negligible
  /\ onlyBound' = OnlyBoundNow
  /\ roundReduced' = AnyChange
  /\ reduced' = (reduced \/ AnyChange)
  /\ NextClass(reduced')

AfterSuccess ==
  /\ FALSE \in Negligible
  /\ onlyBound' = OnlyBoundNow
  /\ roundReduced' = TRUE /\ reduced' = TRUE /\ successful' = TRUE
  /\ round' = "fast"
  /\ UNCHANGED <<rundelayed, delayed, ended>>

Stop ==
  /\ round' = "abort"
  /\ UNCHANGED <<flags, onlyBound, delayed, ended>>

DetermineNextRound(unchanged) ==
  \/ TRUE \in Polls /\ Stop
  \/ FALSE \in Polls /\ unchanged /\ AfterUnchanged
  \/ FALSE \in Polls /\ ~unchanged /\ (AfterNegligible \/ AfterSuccess)

(* finishRound: clearStates, check_and_compress, and empty the buffers.     *)
FinishRoundKeepingResults ==
  /\ reductions' = [p \in Presolvers |-> {}]
  /\ UNCHANGED results

FinishRound ==
  /\ reductions' = [p \in Presolvers |-> {}]
  /\ results' = [p \in Presolvers |-> "unchanged"]

-----------------------------------------------------------------------------
(* evaluate_and_apply                                                       *)

ClassDone == pc = "run" /\ todo = {}

(* was_executed_sequential is set by the first apply_result_sequential.     *)
RanSequentially == Sequential /\ Class(round) # {}

EvaluateInfeasible ==
  /\ ClassDone /\ Infeasible(EvaluateResults)
  /\ Return(EvaluateResults, "infeasible")
  /\ UNCHANGED <<round, flags, nrounds, onlyBound, problem, buffers, counters, todo,
                 turn, call, detected>>

EvaluateUnchanged ==
  /\ ClassDone /\ EvaluateResults = "unchanged"
  /\ status' = "unchanged"
  /\ DetermineNextRound(TRUE)
  /\ delta' = NoChange
  /\ pc' = "loop"
  /\ UNCHANGED <<nrounds, size, changed, dirty, buffers, calls, misses, skip, todo, turn,
                 call, detected>>

EvaluateReduced ==
  /\ ClassDone /\ EvaluateResults = "reduced"
  /\ status' = "reduced"
  /\ \/ RanSequentially /\ pc' = "next" /\ UNCHANGED <<offsets, turn>>
     \/ ~RanSequentially /\ pc' = "apply" /\ turn' = 1 /\ offsets' = Append(offsets, 0)
  /\ UNCHANGED <<round, flags, nrounds, onlyBound, problem, results, reductions,
                 postponed, counters, todo, call, detected, ended>>

(* apply_all_presolver_reductions: the presolvers in order, substitutions   *)
(* only collected, until all are done or the time is up.                    *)
OffsetsBehind(post) == Append(offsets, Len(postponed))
OffsetsAfter(post) == Append(offsets, Len(post))

ApplyReductions ==
  /\ pc = "apply" /\ turn <= NP
  /\ FALSE \in Polls
  /\ LET ks == Found(turn) IN
     \E v \in [ks -> Verdicts \cup {"postponed"}], nd \in 0..size, moved \in BOOLEAN :
       /\ \A k \in ks : v[k] = "postponed" => k = "substitute"
       /\ "substitute" \in ks => v["substitute"] \in {"postponed", "rejected"}
       /\ Consistent(Applied(ks, v), nd)
       /\ Applied(ks, v) = {} => nd = 0 /\ ~moved
       /\ Changes(nd, moved)
       /\ changed' = (changed \/ Applied(ks, v) # {})
       /\ dirty' = (dirty \/ nd > 0 \/ moved)
       /\ results' = [results EXCEPT ![turn] = ResultAfter(turn, AnyInfeasible(ks, v))]
       /\ detected' = (detected \/ AnyInfeasible(ks, v))
       /\ postponed' = IF \E k \in ks : v[k] = "postponed"
                        THEN Append(postponed, turn) ELSE postponed
  /\ offsets' = OffsetsAfter(postponed')
  /\ turn' = turn + 1
  /\ UNCHANGED <<pc, round, flags, nrounds, onlyBound, reductions, counters,
                 todo, status, call, ended>>

AllApplied ==
  /\ pc = "apply"
  /\ turn > NP \/ TRUE \in Polls
  /\ \/ Infeasible(EvaluateResults) /\ Return(EvaluateResults, "infeasible")
     \/ ~Infeasible(EvaluateResults) /\ pc' = "postponed" /\ UNCHANGED <<status, ended>>
  /\ UNCHANGED <<round, flags, nrounds, onlyBound, problem, buffers, counters, todo,
                 turn, call, detected>>

(* The slice of postponed transactions a presolver is charged with; walking *)
(* from an offset to a smaller one never ends.                              *)
Slices == 1..(Len(offsets) - 1)
RunsAway == \E i \in Slices : offsets[i] > offsets[i + 1]

(* applyPostponed and flush(true).  An infeasible verdict of a postponed    *)
(* transaction is neither counted nor reported.                             *)
ApplySlices ==
  /\ pc = "postponed" /\ ~RunsAway
  /\ \E done \in SUBSET (1..Len(postponed)), f \in FlushStatuses,
        nd \in 0..size, moved \in BOOLEAN :
       /\ done # {} => nd > 0
       /\ Changes(nd, moved)
       /\ changed' = (changed \/ done # {} \/ nd > 0 \/ moved)
       /\ dirty' = (dirty \/ nd > 0 \/ moved)
       /\ detected' = (detected \/ Infeasible(f))
       /\ \/ Infeasible(f) /\ Return(f, "infeasible")
          \/ ~Infeasible(f) /\ pc' = "next" /\ UNCHANGED <<status, ended>>
  /\ postponed' = <<>> /\ offsets' = <<>>
  /\ UNCHANGED <<round, flags, nrounds, onlyBound, results, reductions,
                 counters, todo, turn, call>>

RunAway ==
  /\ pc = "postponed" /\ RunsAway
  /\ pc' = "crashed"
  /\ UNCHANGED <<round, flags, nrounds, onlyBound, problem, buffers, counters, todo,
                 turn, status, call, detected, ended>>

ApplyPostponed == IF RunsAway THEN RunAway ELSE ApplySlices

NextRound ==
  /\ pc = "next"
  /\ DetermineNextRound(FALSE)
  /\ FinishRound
  /\ delta' = NoChange
  /\ pc' = "loop"
  /\ UNCHANGED <<nrounds, size, changed, dirty, postponed, offsets, calls, misses, skip, todo,
                 turn, status, call, detected>>

(* After the loop: symmetries, linearly dependent rows and free columns,    *)
(* removal of redundant bounds and solved components may still reduce the   *)
(* problem; the certificate is written through the pointer.                 *)
Finish ==
  /\ pc = "finish" /\ certificate
  /\ \E nd \in 0..size :
       /\ size' = size - nd
       /\ changed' = (changed \/ nd > 0)
  /\ pc' = "returned"
  /\ status' = IF changed' THEN "reduced" ELSE "unchanged"
  /\ UNCHANGED <<round, flags, nrounds, onlyBound, delta, dirty, buffers, counters,
                 todo, turn, call, detected, ended>>

(* Almost every change of the problem, every report of infeasibility and    *)
(* the end of the call go through certificate_interface without a test.     *)
UseNullCertificate ==
  /\ pc \notin {"idle", "returned", "crashed"} /\ ~certificate
  /\ pc' = "crashed"
  /\ UNCHANGED <<round, flags, nrounds, onlyBound, problem, buffers, counters, todo,
                 turn, status, call, detected, ended>>

Next ==
  \/ Apply \/ TrivialPresolve \/ SkipTrivialPresolve
  \/ RunParallel \/ RunSequential \/ ApplyImmediately
  \/ EvaluateInfeasible \/ EvaluateUnchanged \/ EvaluateReduced
  \/ ApplyReductions \/ AllApplied \/ ApplyPostponed
  \/ NextRound \/ Finish \/ UseNullCertificate

Spec == Init /\ [][Next]_vars

(* apply() is one call: as long as it can take a step it takes one.         *)
FairSpec == Spec /\ WF_vars(Next)

-----------------------------------------------------------------------------
(* Properties                                                               *)

PCs == {"idle", "loop", "run", "immediate", "apply", "postponed", "next", "finish",
        "returned", "crashed"}

(* Every variable stays in its range.                                       *)
TypeOK ==
  /\ pc \in PCs /\ applies \in 0..MaxApplies
  /\ round \in Rounds
  /\ successful \in BOOLEAN /\ rundelayed \in BOOLEAN
  /\ reduced \in BOOLEAN /\ roundReduced \in BOOLEAN
  /\ nrounds \in 0..RoundCap
  /\ onlyBound \in 0..(MaxOnlyBound + 1)
  /\ delta \in [shrink : BOOLEAN, tighten : BOOLEAN]
  /\ changed \in BOOLEAN /\ dirty \in BOOLEAN
  /\ size \in 0..MaxSize
  /\ results \in [Presolvers -> Statuses]
  /\ reductions \in [Presolvers -> SUBSET Kinds]
  /\ postponed \in Seq(Presolvers) /\ offsets \in Seq(Nat)
  /\ delayed \subseteq Presolvers
  /\ calls \in [Presolvers -> 0..CallCap]
  /\ misses \in [Presolvers -> 0..CallCap]
  /\ skip \in [Presolvers -> 0..(2 * CallCap)]
  /\ todo \subseteq Presolvers /\ turn \in 1..(NP + 1)
  /\ status \in Statuses
  /\ ownsCertificate \in BOOLEAN /\ certificate \in BOOLEAN
  /\ detected \in BOOLEAN
  /\ ended \in {"no", "stopped", "exceeded", "infeasible"}

(* A class of presolvers starts with nothing left from the one before: no   *)
(* result, no transaction, no postponed one (finishRound, applyPostponed).  *)
(* Left-overs would be evaluated, or applied to renumbered rows and columns.*)
CleanRound == pc = "loop" =>
  /\ results = [p \in Presolvers |-> "unchanged"]
  /\ reductions = [p \in Presolvers |-> {}]
  /\ postponed = <<>> /\ offsets = <<>>

(* Once a presolver, a transaction, trivialPresolve or flush found the      *)
(* problem infeasible or unbounded, apply() says so.  (A verdict            *)
(* kInfeasible inside applyPostponed is not among them: it is dropped.)     *)
InfeasibilityReported == pc = "returned" /\ detected => Infeasible(status)

(* apply() reports infeasible or unbounded only what this very call found.  *)
InfeasibleOnlyIfDetected == pc = "returned" /\ Infeasible(status) => detected

(* The offsets cut the postponed transactions into one slice per presolver, *)
(* in order and without a rest: each is counted for the one that found it,  *)
(* also when an interrupt left presolvers out.                              *)
PostponedCharged == pc = "postponed" =>
  /\ ~RunsAway
  /\ offsets # <<>> /\ offsets[1] = 0 /\ offsets[Len(offsets)] = Len(postponed)
  /\ \A i \in Slices : \A j \in (offsets[i] + 1)..offsets[i + 1] : postponed[j] = i

(* presolve.maxrounds is overrun by at most the one round that activating   *)
(* the delayed presolvers starts, since handle_case_exceeded goes back to   *)
(* the fast class past the test of the loop head.                           *)
RoundsBounded == MaxRounds # -1 =>
  nrounds <= MaxRounds + (IF Enabled \cap DelayedInit # {} THEN 1 ELSE 0)

(* With the parallel driver presolvers never see a problem whose trivial    *)
(* reductions are outstanding: whatever a class changed, trivialPresolve    *)
(* ran before the next one, also after a class deemed negligible.           *)
TrivialBeforeClass == pc = "run" /\ ~Sequential => ~dirty

(* When the loop ends because the classes are exhausted, every enabled      *)
(* presolver whose type fits has been executed, the delayed ones included.  *)
NobodyLeftOut == ended = "exceeded" => \A p \in Enabled \ Typed : calls[p] > 0

(* apply() returns: with the limit on consecutive rounds of only bound      *)
(* changes in force, endless bound tightening cannot keep the loop alive.   *)
Termination == pc = "loop" ~> pc = "returned"

(* With an instance used twice: each call comes to an end, be it the null   *)
(* certificate.                                                             *)
EveryCallEnds == pc = "loop" ~> pc \in {"returned", "crashed"}
=============================================================================
