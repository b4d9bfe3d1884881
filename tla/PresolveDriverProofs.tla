------------------------- MODULE PresolveDriverProofs -------------------------
(***************************************************************************)
(* Theorems about the presolving loop, for any number of presolvers and    *)
(* any options: every class starts clean, trivial presolve comes before    *)
(* every class, infeasibility is reported, postponed reductions are        *)
(* charged to their presolvers, no presolver is left out, and the loop has *)
(* no endless run.                                                         *)
(***************************************************************************)
EXTENDS PresolveDriver, FiniteSetTheorems, TLAPS

(* The largest status of evaluateResults exists: the statuses are five.    *)
LEMMA EvaluateResultsType ==
  ASSUME results \in [Presolvers -> Statuses]
  PROVE  /\ EvaluateResults \in Statuses
         /\ EvaluateResults = "unchanged" \/ \E p \in Presolvers : results[p] = EvaluateResults
         /\ \A p \in Presolvers : Severity[results[p]] <= Severity[EvaluateResults]
<1> DEFINE Largest(st) ==
      /\ st = "unchanged" \/ \E p \in Presolvers : results[p] = st
      /\ \A p \in Presolvers : Severity[results[p]] <= Severity[st]
<1>1. \E st \in Statuses : Largest(st)
  <2>1. CASE \E p \in Presolvers : results[p] = "infeasible"
    BY <2>1 DEF Statuses, Severity
  <2>2. CASE /\ ~\E p \in Presolvers : results[p] = "infeasible"
             /\ \E p \in Presolvers : results[p] = "unbounded"
    BY <2>2 DEF Statuses, Severity
  <2>3. CASE /\ ~\E p \in Presolvers : results[p] \in {"infeasible", "unbounded"}
             /\ \E p \in Presolvers : results[p] = "unbndOrInfeas"
    BY <2>3 DEF Statuses, Severity
  <2>4. CASE /\ ~\E p \in Presolvers : Infeasible(results[p])
             /\ \E p \in Presolvers : results[p] = "reduced"
    BY <2>4 DEF Statuses, Severity, Infeasible
  <2>5. CASE \A p \in Presolvers : results[p] = "unchanged"
    BY <2>5 DEF Statuses, Severity
  <2> QED BY <2>1, <2>2, <2>3, <2>4, <2>5 DEF Statuses, Infeasible
<1> QED BY <1>1 DEF EvaluateResults

LEMMA UpToType ==
  ASSUME NEW n \in Nat, NEW cap \in Nat
  PROVE  UpTo(n, cap) \in 0..cap
BY DEF UpTo

-----------------------------------------------------------------------------
(* Type correctness                                                         *)

LEMMA RunType ==
  ASSUME TypeOK, NEW p \in Presolvers, Run(p)
  PROVE  /\ results' \in [Presolvers -> Statuses]
         /\ reductions' \in [Presolvers -> SUBSET Kinds]
         /\ calls' \in [Presolvers -> 0..CallCap]
         /\ misses' \in [Presolvers -> 0..CallCap]
         /\ skip' \in [Presolvers -> 0..(2 * CallCap)]
         /\ delayed' = delayed
<1> USE PresolversAssumption, BoundsAssumption
<1>1. CASE /\ results' = [results EXCEPT ![p] = "unchanged"]
           /\ UNCHANGED <<calls, misses, skip, reductions, delayed>>
  BY <1>1 DEF TypeOK, Statuses
<1>2. CASE /\ Skips(p)
           /\ results' = [results EXCEPT ![p] = "unchanged"]
           /\ skip' = [skip EXCEPT ![p] = @ - 1]
           /\ UNCHANGED <<calls, misses, reductions, delayed>>
  <2>1. skip[p] - 1 \in 0..(2 * CallCap)
    BY <1>2 DEF TypeOK, Skips
  <2> QED BY <1>2, <2>1 DEF TypeOK, Statuses
<1>3. ASSUME ~Asleep(p), skip[p] = 0, NEW st \in Statuses,
             results' = [results EXCEPT ![p] = st], Execute(p, st), UNCHANGED delayed
      PROVE  /\ results' \in [Presolvers -> Statuses]
             /\ reductions' \in [Presolvers -> SUBSET Kinds]
             /\ calls' \in [Presolvers -> 0..CallCap]
             /\ misses' \in [Presolvers -> 0..CallCap]
             /\ skip' \in [Presolvers -> 0..(2 * CallCap)]
  <2>1. results' \in [Presolvers -> Statuses]
    BY <1>3 DEF TypeOK
  <2>2. UpTo(calls[p] + 1, CallCap) \in 0..CallCap /\ UpTo(misses[p] + 1, CallCap) \in 0..CallCap
    BY DEF TypeOK, UpTo
  <2>3. calls' \in [Presolvers -> 0..CallCap]
    BY <1>3, <2>2 DEF TypeOK, Execute
  <2>4. misses' \in [Presolvers -> 0..CallCap]
    BY <1>3, <2>2 DEF TypeOK, Execute
  <2>5. skip' \in [Presolvers -> 0..(2 * CallCap)]
    <3> DEFINE own == IF p \in SelfSkipping THEN calls'[p] ELSE 0
               more == IF st = "unchanged" /\ Timing[p] # "fast" THEN misses'[p] ELSE 0
    <3>1. own \in 0..CallCap /\ more \in 0..CallCap
      BY <2>3, <2>4
    <3>2. own + more \in 0..(2 * CallCap)
      BY <3>1
    <3>3. skip' = [skip EXCEPT ![p] = own + more]
      BY <1>3 DEF Execute
    <3> QED BY <3>2, <3>3 DEF TypeOK
  <2>6. reductions' \in [Presolvers -> SUBSET Kinds]
    <3>1. PICK ks \in FoundBy(st) : reductions' = [reductions EXCEPT ![p] = @ \cup ks]
      BY <1>3 DEF Execute
    <3>2. ks \subseteq Kinds
      BY <3>1 DEF FoundBy
    <3> QED BY <3>1, <3>2 DEF TypeOK
  <2> QED BY <2>1, <2>3, <2>4, <2>5, <2>6
<1> QED BY <1>1, <1>2, <1>3 DEF Run

(* What determine_next_round leaves: the flags, the delayed presolvers and  *)
(* the next class, whether it was entered after a reduction or not.         *)
LEMMA NextClassType ==
  ASSUME TypeOK, NEW red \in BOOLEAN, NextClass(red), round \in Classes
  PROVE  /\ round' \in Rounds
         /\ successful' \in BOOLEAN /\ rundelayed' \in BOOLEAN
         /\ delayed' \subseteq Presolvers
         /\ ended' \in {"no", "stopped", "exceeded", "infeasible"}
<1>1. CASE /\ round # "exhaustive" /\ round' = Harder[round]
           /\ UNCHANGED <<successful, rundelayed, delayed, ended>>
  <2>1. round \in {"fast", "medium"}
    BY <1>1 DEF Classes
  <2>2. Harder[round] \in Classes
    BY <2>1 DEF Harder, Classes
  <2> QED BY <1>1, <2>2 DEF TypeOK, Rounds
<1>2. CASE /\ round' = "fast" /\ successful' = FALSE /\ rundelayed' = TRUE
           /\ delayed' = DelayedAfter /\ UNCHANGED ended
  BY <1>2 DEF TypeOK, DelayedAfter, Rounds, Classes
<1>3. CASE /\ round' = "abort" /\ ended' = "exceeded"
           /\ UNCHANGED <<successful, rundelayed, delayed>>
  BY <1>3 DEF TypeOK, Rounds
<1> QED BY <1>1, <1>2, <1>3 DEF NextClass

LEMMA OnlyBoundType ==
  ASSUME TypeOK
  PROVE  OnlyBoundNow \in 0..(MaxOnlyBound + 1)
BY OptionsAssumption DEF TypeOK, OnlyBoundNow, UpTo, CountsOnlyBounds

LEMMA DetermineNextRoundType ==
  ASSUME TypeOK, NEW unchanged \in BOOLEAN, DetermineNextRound(unchanged), round \in Classes
  PROVE  /\ round' \in Rounds
         /\ successful' \in BOOLEAN /\ rundelayed' \in BOOLEAN
         /\ reduced' \in BOOLEAN /\ roundReduced' \in BOOLEAN
         /\ onlyBound' \in 0..(MaxOnlyBound + 1)
         /\ delayed' \subseteq Presolvers
         /\ ended' \in {"no", "stopped", "exceeded", "infeasible"}
<1>1. CASE Stop
  BY <1>1 DEF Stop, TypeOK, Rounds, flags
<1>2. CASE AfterUnchanged
  <2>1. NextClass(reduced) /\ reduced \in BOOLEAN
    BY <1>2 DEF AfterUnchanged, TypeOK
  <2>2. UNCHANGED <<reduced, roundReduced, onlyBound>>
    BY <1>2 DEF AfterUnchanged
  <2> QED BY <2>1, <2>2, NextClassType DEF TypeOK
<1>3. CASE AfterNegligible
  <2>1. onlyBound' = OnlyBoundNow /\ roundReduced' = AnyChange
        /\ reduced' = (reduced \/ AnyChange) /\ NextClass(reduced')
    BY <1>3 DEF AfterNegligible
  <2>2. AnyChange \in BOOLEAN /\ reduced' \in BOOLEAN
    BY <2>1 DEF AnyChange, TypeOK
  <2> QED BY <2>1, <2>2, NextClassType, OnlyBoundType
<1>4. CASE AfterSuccess
  BY <1>4, OnlyBoundType DEF AfterSuccess, TypeOK, Rounds, Classes
<1> QED BY <1>1, <1>2, <1>3, <1>4 DEF DetermineNextRound

(* The class that is under way is a class: the loop is left on "abort".     *)
Running == {"run", "immediate", "apply", "postponed", "next"}
RunningClass == pc \in Running => round \in Classes

LEMMA ChangesType ==
  ASSUME TypeOK, NEW nd \in 0..size, NEW moved \in BOOLEAN, Changes(nd, moved)
  PROVE  /\ size' \in 0..MaxSize
         /\ delta' \in [shrink : BOOLEAN, tighten : BOOLEAN]
<1>1. size' \in 0..MaxSize
  BY BoundsAssumption DEF TypeOK, Changes
<1>2. delta.shrink \in BOOLEAN /\ delta.tighten \in BOOLEAN
  BY DEF TypeOK
<1>3. (delta.shrink \/ nd > 0) \in BOOLEAN /\ (delta.tighten \/ moved) \in BOOLEAN
  BY <1>2
<1> QED BY <1>1, <1>3 DEF Changes

(* The loop head either leaves the loop or starts a class.                  *)
LEMMA HeadType ==
  ASSUME TypeOK, LeaveLoop \/ StartClass(round)
  PROVE  /\ pc' \in {"finish", "run"} /\ round' \in Rounds /\ nrounds' \in 0..RoundCap
         /\ reduced' \in BOOLEAN /\ todo' \subseteq Presolvers
         /\ ended' \in {"no", "stopped", "exceeded", "infeasible"}
         /\ (pc' = "run" => round' \in Classes)
<1>1. CASE LeaveLoop
  BY <1>1 DEF LeaveLoop, TypeOK, Rounds
<1>2. CASE StartClass(round)
  <2>1. nrounds' \in 0..RoundCap
    <3>1. UpTo(nrounds + 1, RoundCap) \in 0..RoundCap
      BY BoundsAssumption DEF UpTo, TypeOK
    <3> QED BY <1>2, <3>1 DEF StartClass, TypeOK
  <2>2. reduced' \in BOOLEAN
    BY <1>2 DEF StartClass, TypeOK
  <2> QED BY <1>2, <2>1, <2>2 DEF StartClass, TypeOK, Rounds, Class
<1> QED BY <1>1, <1>2

TypeInv == TypeOK /\ RunningClass

LEMMA TypeInvInit == Init => TypeInv
<1> SUFFICES ASSUME Init PROVE TypeInv
  OBVIOUS
<1> USE PresolversAssumption, OptionsAssumption, BoundsAssumption
<1>1. postponed \in Seq(Presolvers) /\ offsets \in Seq(Nat)
  BY DEF Init
<1>2. /\ calls \in [Presolvers -> 0..CallCap] /\ misses \in [Presolvers -> 0..CallCap]
      /\ skip \in [Presolvers -> 0..(2 * CallCap)]
      /\ results \in [Presolvers -> Statuses] /\ reductions \in [Presolvers -> SUBSET Kinds]
  BY DEF Init, Statuses
<1>3. /\ applies \in 0..MaxApplies /\ nrounds \in 0..RoundCap /\ size \in 0..MaxSize
      /\ onlyBound \in 0..(MaxOnlyBound + 1) /\ turn \in 1..(NP + 1)
  BY DEF Init
<1>4. delta \in [shrink : BOOLEAN, tighten : BOOLEAN]
  BY DEF Init, NoChange
<1>5. /\ pc \in PCs /\ round \in Rounds /\ status \in Statuses
      /\ ended \in {"no", "stopped", "exceeded", "infeasible"}
      /\ delayed \subseteq Presolvers /\ todo \subseteq Presolvers
  BY DEF Init, PCs, Rounds, Classes, Statuses
<1>6. TypeOK
  BY <1>1, <1>2, <1>3, <1>4, <1>5 DEF Init, TypeOK
<1> QED BY <1>6 DEF TypeInv, RunningClass, Running, Init

LEMMA TypeInvNext == TypeInv /\ [Next]_vars => TypeInv'
<1> SUFFICES ASSUME TypeInv, [Next]_vars PROVE TypeInv'
  OBVIOUS
<1> USE PresolversAssumption, OptionsAssumption, BoundsAssumption
<1>1. TypeOK /\ RunningClass
  BY DEF TypeInv
<1>2. CASE Apply
  <2>1. certificate' \in BOOLEAN
    BY <1>1, <1>2 DEF Apply, TypeOK
  <2>2. applies' \in 0..MaxApplies
    BY <1>1, <1>2 DEF Apply, TypeOK
  <2>3. delta' \in [shrink : BOOLEAN, tighten : BOOLEAN] /\ rundelayed' \in BOOLEAN
    BY <1>2 DEF Apply, NoChange
  <2>4. /\ nrounds' \in 0..RoundCap /\ onlyBound' \in 0..(MaxOnlyBound + 1)
        /\ size' \in 0..MaxSize /\ turn' \in 1..(NP + 1)
    BY <1>2 DEF Apply
  <2>5. UNCHANGED <<results, reductions, postponed, offsets, calls, misses, skip, delayed>>
    BY <1>2 DEF Apply, counters
  <2>6. /\ pc' \in PCs /\ pc' \notin Running /\ round' \in Rounds /\ status' \in Statuses
        /\ successful' \in BOOLEAN /\ reduced' \in BOOLEAN /\ roundReduced' \in BOOLEAN
        /\ changed' \in BOOLEAN /\ dirty' \in BOOLEAN /\ detected' \in BOOLEAN
        /\ ownsCertificate' \in BOOLEAN
        /\ todo' \subseteq Presolvers /\ ended' \in {"no", "stopped", "exceeded", "infeasible"}
    BY <1>2 DEF Apply, PCs, Running, Rounds, Classes, Statuses
  <2> QED BY <1>1, <2>1, <2>2, <2>3, <2>4, <2>5, <2>6 DEF TypeInv, TypeOK, RunningClass
<1>3. CASE TrivialPresolve
  <2>1. PICK st \in TrivialStatuses, nd \in 0..size, moved \in BOOLEAN :
          /\ Changes(nd, moved)
          /\ changed' = (changed \/ nd > 0 \/ moved)
          /\ status' = st
          /\ \/ /\ Return(st, "infeasible") /\ detected' = TRUE
                /\ UNCHANGED <<round, todo, nrounds, reduced, roundReduced>>
             \/ /\ roundReduced' = FALSE /\ UNCHANGED detected
                /\ LeaveLoop \/ StartClass(round)
    BY <1>3 DEF TrivialPresolve
  <2>2. size' \in 0..MaxSize /\ delta' \in [shrink : BOOLEAN, tighten : BOOLEAN]
    BY <1>1, <2>1, ChangesType
  <2>3. changed' \in BOOLEAN /\ status' \in Statuses
    BY <1>1, <2>1 DEF TypeOK, TrivialStatuses, Statuses
  <2>4. UNCHANGED <<successful, rundelayed, onlyBound, results, reductions,
                    postponed, offsets, calls, misses, skip, delayed, turn, applies,
                    ownsCertificate, certificate>>
        /\ dirty' = FALSE
    BY <1>3 DEF TrivialPresolve, counters, call
  <2>5. /\ pc' \in PCs /\ round' \in Rounds /\ nrounds' \in 0..RoundCap
        /\ reduced' \in BOOLEAN /\ roundReduced' \in BOOLEAN /\ detected' \in BOOLEAN
        /\ todo' \subseteq Presolvers
        /\ ended' \in {"no", "stopped", "exceeded", "infeasible"}
        /\ (pc' \in Running => round' \in Classes)
    <3>1. CASE /\ Return(st, "infeasible") /\ detected' = TRUE
               /\ UNCHANGED <<round, todo, nrounds, reduced, roundReduced>>
      BY <1>1, <3>1 DEF Return, TypeOK, PCs, Running
    <3>2. CASE /\ roundReduced' = FALSE /\ UNCHANGED detected
               /\ LeaveLoop \/ StartClass(round)
      BY <1>1, <3>2, HeadType DEF TypeOK, PCs, Running
    <3> QED BY <2>1, <3>1, <3>2
  <2> QED BY <1>1, <2>2, <2>3, <2>4, <2>5 DEF TypeInv, TypeOK, RunningClass
<1>4. CASE SkipTrivialPresolve
  <2>1. LeaveLoop \/ StartClass(round)
    BY <1>4 DEF SkipTrivialPresolve
  <2>2. UNCHANGED <<successful, rundelayed, roundReduced, onlyBound, problem, buffers,
                    counters, turn, status, call, detected>>
    BY <1>4 DEF SkipTrivialPresolve
  <2> QED BY <1>1, <2>1, <2>2, HeadType
        DEF TypeInv, TypeOK, RunningClass, Running, PCs, problem, buffers, counters, call
<1>5. CASE RunParallel
  <2>1. PICK p \in todo : Run(p) /\ todo' = todo \ {p}
                          /\ detected' = (detected \/ Infeasible(results'[p]))
    BY <1>5 DEF RunParallel
  <2>2. p \in Presolvers /\ detected' \in BOOLEAN
    BY <1>1, <2>1 DEF TypeOK, Infeasible
  <2>3. /\ results' \in [Presolvers -> Statuses]
        /\ reductions' \in [Presolvers -> SUBSET Kinds]
        /\ calls' \in [Presolvers -> 0..CallCap]
        /\ misses' \in [Presolvers -> 0..CallCap]
        /\ skip' \in [Presolvers -> 0..(2 * CallCap)]
        /\ delayed' = delayed
    BY <1>1, <2>1, <2>2, RunType
  <2>4. UNCHANGED <<pc, round, flags, nrounds, onlyBound, problem, postponed, offsets,
                    turn, status, call, ended>>
    BY <1>5 DEF RunParallel
  <2> QED BY <1>1, <2>1, <2>2, <2>3, <2>4
        DEF TypeInv, TypeOK, RunningClass, flags, problem, call
<1>6. CASE RunSequential
  <2>1. PICK p \in todo : Run(p) /\ turn' = p
                          /\ detected' = (detected \/ Infeasible(results'[p]))
    BY <1>6 DEF RunSequential
  <2>2. p \in Presolvers /\ detected' \in BOOLEAN /\ turn' \in 1..(NP + 1)
    BY <1>1, <2>1 DEF TypeOK, Infeasible, Presolvers
  <2>3. /\ results' \in [Presolvers -> Statuses]
        /\ reductions' \in [Presolvers -> SUBSET Kinds]
        /\ calls' \in [Presolvers -> 0..CallCap]
        /\ misses' \in [Presolvers -> 0..CallCap]
        /\ skip' \in [Presolvers -> 0..(2 * CallCap)]
        /\ delayed' = delayed
    BY <1>1, <2>1, <2>2, RunType
  <2>4. /\ UNCHANGED <<round, flags, nrounds, onlyBound, problem, postponed, offsets,
                       todo, status, call, ended>>
        /\ pc = "run" /\ pc' = "immediate"
    BY <1>6 DEF RunSequential
  <2>5. RunningClass'
    BY <1>1, <2>4 DEF RunningClass, Running
  <2>6. pc' \in PCs
    BY <2>4 DEF PCs
  <2>7. TypeOK'
    BY <1>1, <2>2, <2>3, <2>4, <2>6 DEF TypeOK, flags, problem, call
  <2> QED BY <2>5, <2>7 DEF TypeInv
<1>7. CASE ApplyImmediately
  <2> DEFINE ks == Found(turn)
  <2>1. PICK v \in [ks -> Verdicts], f \in FlushStatuses, nd \in 0..size, moved \in BOOLEAN :
          /\ Changes(nd, moved)
          /\ changed' = (changed \/ Applied(ks, v) # {} \/ nd > 0 \/ moved)
          /\ dirty' = (dirty \/ nd > 0 \/ moved)
          /\ results' = [results EXCEPT ![turn] =
                          FlushedResult(ResultAfter(turn, AnyInfeasible(ks, v)), f)]
          /\ detected' = (detected \/ AnyInfeasible(ks, v) \/ Infeasible(f))
          /\ todo' = IF Infeasible(results'[turn]) \/ size' = 0 THEN {} ELSE todo \ {turn}
    BY <1>7 DEF ApplyImmediately
  <2>2. size' \in 0..MaxSize /\ delta' \in [shrink : BOOLEAN, tighten : BOOLEAN]
    BY <1>1, <2>1, ChangesType
  <2>3. changed' \in BOOLEAN /\ dirty' \in BOOLEAN /\ detected' \in BOOLEAN
    BY <1>1, <2>1 DEF TypeOK, AnyInfeasible, Infeasible
  <2>4. todo' \subseteq Presolvers
    BY <1>1, <2>1 DEF TypeOK
  <2>5. results' \in [Presolvers -> Statuses]
    BY <1>1, <2>1 DEF TypeOK, FlushedResult, ResultAfter, FlushStatuses, Statuses, Infeasible
  <2> QED BY <1>1, <1>7, <2>2, <2>3, <2>4, <2>5
        DEF ApplyImmediately, TypeInv, TypeOK, RunningClass, Running, PCs, flags, counters, call
<1>8. CASE EvaluateInfeasible
  <2>1. EvaluateResults \in Statuses
    BY <1>1, EvaluateResultsType DEF TypeOK
  <2> QED BY <1>1, <1>8, <2>1
        DEF EvaluateInfeasible, Return, TypeInv, TypeOK, RunningClass, Running, PCs, flags,
            problem, buffers, counters, call
<1>9. CASE EvaluateUnchanged
  <2>1. round \in Classes
    BY <1>1, <1>9 DEF EvaluateUnchanged, ClassDone, RunningClass, Running
  <2>2. DetermineNextRound(TRUE)
    BY <1>9 DEF EvaluateUnchanged
  <2> QED BY <1>1, <1>9, <2>1, <2>2, DetermineNextRoundType
        DEF EvaluateUnchanged, TypeInv, TypeOK, RunningClass, Running, PCs, NoChange,
            Statuses, buffers, call
<1>10. CASE EvaluateReduced
  <2>1. offsets' \in Seq(Nat) /\ turn' \in 1..(NP + 1) /\ pc' \in {"next", "apply"}
    <3>1. CASE pc' = "next" /\ UNCHANGED <<offsets, turn>>
      BY <1>1, <3>1 DEF TypeOK
    <3>2. CASE pc' = "apply" /\ turn' = 1 /\ offsets' = Append(offsets, 0)
      BY <1>1, <3>2 DEF TypeOK
    <3> QED BY <1>10, <3>1, <3>2 DEF EvaluateReduced
  <2>2. round \in Classes
    BY <1>1, <1>10 DEF EvaluateReduced, ClassDone, RunningClass, Running
  <2> QED BY <1>1, <1>10, <2>1, <2>2
        DEF EvaluateReduced, TypeInv, TypeOK, RunningClass, Running, PCs, Statuses, flags,
            problem, counters, call
<1>11. CASE ApplyReductions
  <2> DEFINE ks == Found(turn)
  <2>1. PICK v \in [ks -> Verdicts \cup {"postponed"}], nd \in 0..size, moved \in BOOLEAN :
          /\ Changes(nd, moved)
          /\ changed' = (changed \/ Applied(ks, v) # {})
          /\ dirty' = (dirty \/ nd > 0 \/ moved)
          /\ results' = [results EXCEPT ![turn] = ResultAfter(turn, AnyInfeasible(ks, v))]
          /\ detected' = (detected \/ AnyInfeasible(ks, v))
          /\ postponed' = IF \E k \in ks : v[k] = "postponed"
                           THEN Append(postponed, turn) ELSE postponed
    BY <1>11 DEF ApplyReductions
  <2>2. size' \in 0..MaxSize /\ delta' \in [shrink : BOOLEAN, tighten : BOOLEAN]
    BY <1>1, <2>1, ChangesType
  <2>3. changed' \in BOOLEAN /\ dirty' \in BOOLEAN /\ detected' \in BOOLEAN
    BY <1>1, <2>1 DEF TypeOK, AnyInfeasible
  <2>4. turn \in Presolvers /\ turn' \in 1..(NP + 1)
    BY <1>1, <1>11 DEF ApplyReductions, TypeOK, Presolvers
  <2>5. postponed' \in Seq(Presolvers) /\ offsets' \in Seq(Nat)
    <3>1. postponed' \in Seq(Presolvers)
      BY <1>1, <2>1, <2>4 DEF TypeOK
    <3>2. offsets' = Append(offsets, Len(postponed'))
      BY <1>11 DEF ApplyReductions, OffsetsAfter
    <3> QED BY <1>1, <3>1, <3>2 DEF TypeOK
  <2>6. results' \in [Presolvers -> Statuses]
    BY <1>1, <2>1, <2>4 DEF TypeOK, ResultAfter, Statuses
  <2> QED BY <1>1, <1>11, <2>2, <2>3, <2>4, <2>5, <2>6
        DEF ApplyReductions, TypeInv, TypeOK, RunningClass, Running, flags, counters, call
<1>12. CASE AllApplied
  <2>1. EvaluateResults \in Statuses
    BY <1>1, EvaluateResultsType DEF TypeOK
  <2> QED BY <1>1, <1>12, <2>1
        DEF AllApplied, Return, TypeInv, TypeOK, RunningClass, Running, PCs, flags,
            problem, buffers, counters, call
<1>13. CASE ApplySlices
  <2>1. PICK done \in SUBSET (1..Len(postponed)), f \in FlushStatuses, nd \in 0..size,
             moved \in BOOLEAN :
          /\ Changes(nd, moved)
          /\ changed' = (changed \/ done # {} \/ nd > 0 \/ moved)
          /\ dirty' = (dirty \/ nd > 0 \/ moved)
          /\ detected' = (detected \/ Infeasible(f))
          /\ \/ Infeasible(f) /\ Return(f, "infeasible")
             \/ ~Infeasible(f) /\ pc' = "next" /\ UNCHANGED <<status, ended>>
    BY <1>13 DEF ApplySlices
  <2>2. size' \in 0..MaxSize /\ delta' \in [shrink : BOOLEAN, tighten : BOOLEAN]
    BY <1>1, <2>1, ChangesType
  <2>3. /\ changed' \in BOOLEAN /\ dirty' \in BOOLEAN /\ detected' \in BOOLEAN
        /\ pc' \in {"returned", "next"} /\ status' \in Statuses
        /\ ended' \in {"no", "stopped", "exceeded", "infeasible"}
    BY <1>1, <2>1 DEF TypeOK, Infeasible, Return, FlushStatuses, Statuses
  <2>4. postponed' \in Seq(Presolvers) /\ offsets' \in Seq(Nat)
    BY <1>13 DEF ApplySlices
  <2> QED BY <1>1, <1>13, <2>2, <2>3, <2>4
        DEF ApplySlices, TypeInv, TypeOK, RunningClass, Running, PCs, flags, counters, call
<1>14. CASE RunAway
  BY <1>1, <1>14 DEF RunAway, TypeInv, TypeOK, RunningClass, Running, PCs, flags, problem,
                     buffers, counters, call
<1>15. CASE NextRound
  <2>1. round \in Classes
    BY <1>1, <1>15 DEF NextRound, RunningClass, Running
  <2>2. DetermineNextRound(FALSE) /\ FinishRound
    BY <1>15 DEF NextRound
  <2> QED BY <1>1, <1>15, <2>1, <2>2, DetermineNextRoundType
        DEF NextRound, FinishRound, TypeInv, TypeOK, RunningClass, Running, PCs, NoChange,
            Statuses, call
<1>16. CASE Finish
  BY <1>1, <1>16 DEF Finish, TypeInv, TypeOK, RunningClass, Running, PCs, flags, Statuses,
                     buffers, counters, call
<1>17. CASE UseNullCertificate
  BY <1>1, <1>17 DEF UseNullCertificate, TypeInv, TypeOK, RunningClass, Running, PCs, flags,
                     problem, buffers, counters, call
<1>18. CASE UNCHANGED vars
  BY <1>1, <1>18 DEF vars, TypeInv, TypeOK, RunningClass, flags, problem, buffers, counters, call
<1> QED BY <1>2, <1>3, <1>4, <1>5, <1>6, <1>7, <1>8, <1>9, <1>10, <1>11, <1>12, <1>13,
           <1>14, <1>15, <1>16, <1>17, <1>18 DEF Next, ApplyPostponed

(* Every variable keeps its range, for any number of presolvers.            *)
THEOREM TypeCorrect == Spec => []TypeOK
<1>1. Spec => []TypeInv
  BY TypeInvInit, TypeInvNext, PTL DEF Spec
<1>2. TypeInv => TypeOK
  BY DEF TypeInv
<1> QED BY <1>1, <1>2, PTL

-----------------------------------------------------------------------------
(* presolve.maxrounds                                                       *)
(*                                                                          *)
(* The loop head tests the limit only after a round that reduced something. *)
(* From round MaxRounds on such a test would end the loop, so no class has  *)
(* reduced anything, and only the activation of the delayed presolvers can  *)
(* open one more round; after it no presolver is delayed.                   *)

Delayable == Enabled \cap DelayedInit # {}

RoundsInv ==
  /\ delayed \subseteq DelayedInit
  /\ pc # "idle" /\ ~rundelayed => Delayable
  /\ pc \in Running => ~roundReduced
  /\ nrounds >= MaxRounds =>
       /\ pc \in Running => ~reduced
       /\ pc = "loop" /\ ~roundReduced => ~reduced
  /\ pc = "loop" /\ round = "fast" /\ ~roundReduced =>
       /\ nrounds <= MaxRounds
       /\ nrounds = MaxRounds => rundelayed /\ Delayable
  /\ nrounds <= MaxRounds + 1
  /\ nrounds = MaxRounds + 1 =>
       /\ Delayable
       /\ pc \in Running \cup {"loop"} => rundelayed

Limited == MaxRounds # -1

LEMMA RoundsInvInit == Limited /\ Init => RoundsInv
BY OptionsAssumption DEF Limited, Init, RoundsInv, Running

LEMMA RoundsInvNext ==
  ASSUME Limited, TypeInv, RoundsInv, [Next]_vars
  PROVE  RoundsInv'
<1>1. TypeOK /\ RunningClass /\ MaxRounds \in Nat /\ nrounds \in Nat /\ RoundCap > MaxRounds + 1
      /\ RoundCap \in Nat
  BY OptionsAssumption, BoundsAssumption DEF TypeInv, TypeOK, Limited
<1>2. CASE Apply
  <2>1. /\ delayed' = delayed /\ rundelayed' = (Enabled \cap delayed = {})
        /\ pc' = "loop" /\ nrounds' = 0 /\ roundReduced' = TRUE
    BY <1>2 DEF Apply, counters
  <2>2. ~rundelayed' => Delayable
    BY <2>1 DEF RoundsInv, Delayable
  <2> QED BY <1>1, <2>1, <2>2 DEF RoundsInv, Running
<1>3. CASE TrivialPresolve
  <2>1. UNCHANGED <<rundelayed, delayed>> /\ pc = "loop" /\ roundReduced
    BY <1>3 DEF TrivialPresolve, counters
  <2>2. CASE pc' = "returned" /\ nrounds' = nrounds
    BY <1>1, <2>1, <2>2 DEF RoundsInv, Running
  <2>3. CASE LeaveLoop /\ roundReduced' = FALSE
    BY <1>1, <2>1, <2>3 DEF RoundsInv, Running, LeaveLoop
  <2>4. CASE StartClass(round) /\ ~RoundsReached /\ roundReduced' = FALSE
    <3>1. nrounds < MaxRounds
      BY <1>1, <2>4 DEF RoundsReached, Limited
    <3>2. nrounds' <= MaxRounds /\ nrounds' \in Nat /\ pc' = "run"
          /\ (nrounds' >= MaxRounds => ~reduced')
      BY <1>1, <2>4, <3>1 DEF StartClass, UpTo
    <3> QED BY <1>1, <2>1, <2>4, <3>2 DEF RoundsInv, Running
  <2> QED BY <1>3, <2>2, <2>3, <2>4 DEF TrivialPresolve, Return
<1>4. CASE SkipTrivialPresolve
  <2>1. UNCHANGED <<rundelayed, delayed, roundReduced>> /\ pc = "loop" /\ ~roundReduced
    BY <1>4 DEF SkipTrivialPresolve, counters
  <2>2. CASE LeaveLoop
    BY <1>1, <2>1, <2>2 DEF RoundsInv, Running, LeaveLoop
  <2>3. CASE StartClass(round) /\ round = "fast"
    <3>1. nrounds' = nrounds + 1 /\ ~reduced' /\ pc' = "run"
      BY <1>1, <2>1, <2>3 DEF StartClass, UpTo, RoundsInv
    <3> QED BY <1>1, <2>1, <2>3, <3>1 DEF RoundsInv, Running
  <2>4. CASE StartClass(round) /\ round # "fast"
    <3>1. nrounds' = nrounds /\ reduced' = reduced /\ pc' = "run"
      BY <2>4 DEF StartClass
    <3> QED BY <1>1, <2>1, <3>1 DEF RoundsInv, Running
  <2> QED BY <1>4, <2>2, <2>3, <2>4 DEF SkipTrivialPresolve
(* The steps inside a class change none of the variables of RoundsInv, and  *)
(* stay inside or return.                                                   *)
<1>5. ASSUME /\ UNCHANGED <<round, rundelayed, reduced, roundReduced, nrounds, delayed>>
             /\ pc # "idle"
             /\ pc' \in {"returned", "crashed"} \/ (pc \in Running /\ pc' \in Running)
      PROVE  RoundsInv'
  BY <1>1, <1>5 DEF RoundsInv, Running
<1>6. CASE RunParallel
  <2>1. delayed' = delayed
    BY <1>6 DEF RunParallel, Run
  <2> QED BY <1>5, <1>6, <2>1 DEF RunParallel, flags, Running
<1>7. CASE RunSequential
  <2>1. delayed' = delayed
    BY <1>7 DEF RunSequential, Run
  <2> QED BY <1>5, <1>7, <2>1 DEF RunSequential, flags, Running
<1>8. CASE ApplyImmediately
  BY <1>5, <1>8 DEF ApplyImmediately, flags, counters, Running
<1>9. CASE EvaluateInfeasible
  BY <1>5, <1>9 DEF EvaluateInfeasible, ClassDone, Return, flags, counters, Running
<1>10. CASE EvaluateReduced
  BY <1>5, <1>10 DEF EvaluateReduced, ClassDone, flags, counters, Running
<1>11. CASE ApplyReductions
  BY <1>5, <1>11 DEF ApplyReductions, flags, counters, Running
<1>12. CASE AllApplied
  BY <1>5, <1>12 DEF AllApplied, Return, flags, counters, Running
<1>13. CASE ApplySlices
  BY <1>5, <1>13 DEF ApplySlices, Return, flags, counters, Running
<1>14. CASE RunAway
  BY <1>5, <1>14 DEF RunAway, flags, counters, Running
<1>15. CASE UseNullCertificate
  BY <1>5, <1>15 DEF UseNullCertificate, flags, counters, Running
(* determine_next_round: with a round beyond the limit nothing was reduced, *)
(* hence the classes being exhausted again ends the loop.                   *)
<1>16. ASSUME NEW red \in BOOLEAN, NextClass(red), round \in Classes, pc \in Running,
              pc' = "loop", nrounds' = nrounds, roundReduced' \in BOOLEAN,
              ~roundReduced' => reduced' = reduced /\ red = reduced
       PROVE  RoundsInv'
  <2>1. /\ delayed' \subseteq DelayedInit
        /\ ~rundelayed' => Delayable
    BY <1>16 DEF RoundsInv, NextClass, DelayedAfter, Running
  <2>2. ~roundReduced' /\ nrounds >= MaxRounds => ~reduced' /\ ~red
    BY <1>16 DEF RoundsInv
  <2>3. round' = "fast" => rundelayed' /\ (~rundelayed \/ red)
    BY <1>16 DEF NextClass, Harder, Classes
  <2>4. round' = "fast" /\ ~roundReduced' /\ nrounds >= MaxRounds =>
          nrounds = MaxRounds /\ rundelayed' /\ Delayable
    BY <1>1, <1>16, <2>2, <2>3 DEF RoundsInv, Running
  <2>5. nrounds = MaxRounds + 1 => Delayable /\ rundelayed'
    BY <1>16 DEF RoundsInv, NextClass, Running
  <2> QED BY <1>1, <1>16, <2>1, <2>2, <2>4, <2>5 DEF RoundsInv, Running
<1>17. ASSUME NEW unchanged \in BOOLEAN, DetermineNextRound(unchanged), pc \in Running,
              pc' = "loop", nrounds' = nrounds
       PROVE  RoundsInv'
  <2>1. round \in Classes /\ ~roundReduced /\ AnyChange \in BOOLEAN
    BY <1>1, <1>17 DEF RunningClass, RoundsInv, AnyChange, TypeOK
  <2>2. CASE Stop
    BY <1>1, <1>17, <2>1, <2>2 DEF Stop, flags, RoundsInv, Running
  <2>3. CASE AfterUnchanged
    BY <1>1, <1>16, <1>17, <2>1, <2>3 DEF AfterUnchanged, TypeOK
  <2>4. CASE AfterNegligible
    <3>1. reduced' = (reduced \/ AnyChange) /\ roundReduced' = AnyChange /\ NextClass(reduced')
      BY <2>4 DEF AfterNegligible
    <3>2. reduced' \in BOOLEAN /\ (~roundReduced' => reduced' = reduced)
      BY <1>1, <2>1, <3>1 DEF TypeOK
    <3> QED BY <1>16, <1>17, <2>1, <3>1, <3>2
  <2>5. CASE AfterSuccess
    BY <1>1, <1>17, <2>1, <2>5 DEF AfterSuccess, RoundsInv, Running
  <2> QED BY <1>17, <2>2, <2>3, <2>4, <2>5 DEF DetermineNextRound
<1>18. CASE EvaluateUnchanged
  BY <1>17, <1>18 DEF EvaluateUnchanged, ClassDone, Running
<1>19. CASE NextRound
  BY <1>17, <1>19 DEF NextRound, Running
<1>20. CASE Finish
  BY <1>1, <1>20 DEF Finish, flags, counters, RoundsInv, Running
<1>21. CASE UNCHANGED vars
  BY <1>21 DEF vars, flags, counters, RoundsInv
<1> QED BY <1>2, <1>3, <1>4, <1>6, <1>7, <1>8, <1>9, <1>10, <1>11, <1>12, <1>13, <1>14,
           <1>15, <1>18, <1>19, <1>20, <1>21 DEF Next, ApplyPostponed

(* The limit on the rounds is overrun by at most one round, and by none     *)
(* when no enabled presolver is delayed.                                    *)
THEOREM RoundsAlmostBounded == Spec => []RoundsBounded
<1>1. CASE Limited
  <2>1. Spec => [](TypeInv /\ RoundsInv)
    <3>1. Init => TypeInv /\ RoundsInv
      BY <1>1, TypeInvInit, RoundsInvInit
    <3>2. TypeInv /\ RoundsInv /\ [Next]_vars => (TypeInv /\ RoundsInv)'
      BY <1>1, TypeInvNext, RoundsInvNext
    <3> QED BY <3>1, <3>2, PTL DEF Spec
  <2>2. TypeInv /\ RoundsInv => RoundsBounded
    BY OptionsAssumption, BoundsAssumption
       DEF RoundsInv, RoundsBounded, Delayable, TypeInv, TypeOK
  <2> QED BY <2>1, <2>2, PTL
<1>2. CASE ~Limited
  <2>1. RoundsBounded
    BY <1>2 DEF Limited, RoundsBounded
  <2> QED BY <2>1, PTL
<1> QED BY <1>1, <1>2

-----------------------------------------------------------------------------
(* No left-overs between classes, for one call of apply() per instance.     *)
(*                                                                          *)
(* finishRound is not called when evaluateResults is kUnchanged.  That is   *)
(* sound because a class starts clean and a presolver that holds            *)
(* transactions has a result other than kUnchanged.                         *)

Clean ==
  /\ results = [p \in Presolvers |-> "unchanged"]
  /\ reductions = [p \in Presolvers |-> {}]
  /\ postponed = <<>> /\ offsets = <<>>

NotRunYet == IF pc = "immediate" THEN todo \ {turn} ELSE todo

CleanInv ==
  /\ pc # "idle" => applies = 1
  /\ pc \in {"idle", "loop"} => Clean
  /\ pc \in {"run", "immediate", "next"} => postponed = <<>> /\ offsets = <<>>
  /\ pc \in {"run", "immediate"} =>
       /\ \A p \in NotRunYet : reductions[p] = {}
       /\ \A p \in Presolvers : reductions[p] # {} => results[p] # "unchanged"

LEMMA RunClean ==
  ASSUME TypeOK, NEW p \in Presolvers, Run(p), reductions[p] = {},
         \A q \in Presolvers : reductions[q] # {} => results[q] # "unchanged"
  PROVE  /\ \A q \in Presolvers \ {p} : reductions'[q] = reductions[q]
         /\ \A q \in Presolvers : reductions'[q] # {} => results'[q] # "unchanged"
<1>1. CASE /\ results' = [results EXCEPT ![p] = "unchanged"]
           /\ UNCHANGED reductions
  BY <1>1 DEF TypeOK
<1>2. ASSUME NEW st \in Statuses, results' = [results EXCEPT ![p] = st], Execute(p, st)
      PROVE  /\ \A q \in Presolvers \ {p} : reductions'[q] = reductions[q]
             /\ \A q \in Presolvers : reductions'[q] # {} => results'[q] # "unchanged"
  <2>1. PICK ks \in FoundBy(st) : reductions' = [reductions EXCEPT ![p] = @ \cup ks]
    BY <1>2 DEF Execute
  <2>2. reductions'[p] = ks
    BY <2>1 DEF TypeOK
  <2>3. ks # {} => st = "reduced"
    BY <2>1 DEF FoundBy
  <2> QED BY <1>2, <2>1, <2>2, <2>3 DEF TypeOK
<1> QED BY <1>1, <1>2 DEF Run

LEMMA CleanInvInit == Init => CleanInv
BY DEF Init, CleanInv, Clean

LEMMA CleanInvNext ==
  ASSUME MaxApplies = 1, TypeInv, CleanInv, [Next]_vars
  PROVE  CleanInv'
<1> USE DEF CleanInv
<1>1. TypeOK
  BY DEF TypeInv
<1>2. CASE Apply
  <2>1. pc = "idle" /\ applies' = 1
    BY <1>1, <1>2 DEF Apply, TypeOK
  <2>2. pc' = "loop" /\ UNCHANGED <<results, reductions, postponed, offsets>>
    BY <1>2 DEF Apply
  <2> QED BY <2>1, <2>2 DEF Clean
(* Leaving the head of the loop.                                            *)
<1>3. ASSUME pc = "loop", UNCHANGED <<results, reductions, postponed, offsets, applies>>,
             pc' \in {"returned", "finish", "run"},
             pc' = "run" => todo' \subseteq Presolvers
      PROVE  CleanInv'
  BY <1>3 DEF Clean, NotRunYet
<1>4. CASE TrivialPresolve
  <2>1. CASE Return("infeasible", "infeasible") \/ Return("unbndOrInfeas", "infeasible")
    BY <1>3, <1>4, <2>1 DEF TrivialPresolve, Return, call
  <2>2. CASE LeaveLoop \/ StartClass(round)
    BY <1>3, <1>4, <2>2 DEF TrivialPresolve, LeaveLoop, StartClass, Class, call
  <2> QED BY <1>4, <2>1, <2>2 DEF TrivialPresolve, TrivialStatuses, Infeasible
<1>5. CASE SkipTrivialPresolve
  BY <1>3, <1>5 DEF SkipTrivialPresolve, LeaveLoop, StartClass, Class, buffers, call
<1>6. CASE RunParallel
  <2>1. PICK p \in todo : Run(p) /\ todo' = todo \ {p}
    BY <1>6 DEF RunParallel
  <2>2. /\ pc = "run" /\ pc' = "run"
        /\ UNCHANGED <<postponed, offsets, applies>>
    BY <1>6 DEF RunParallel, call
  <2>3. p \in Presolvers /\ reductions[p] = {} /\ todo \subseteq Presolvers
    BY <1>1, <2>1, <2>2 DEF TypeOK, NotRunYet
  <2>4. /\ \A q \in Presolvers \ {p} : reductions'[q] = reductions[q]
        /\ \A q \in Presolvers : reductions'[q] # {} => results'[q] # "unchanged"
    BY <1>1, <2>1, <2>2, <2>3, RunClean
  <2> QED BY <2>1, <2>2, <2>3, <2>4 DEF NotRunYet
<1>7. CASE RunSequential
  <2>1. PICK p \in todo : Run(p) /\ turn' = p
    BY <1>7 DEF RunSequential
  <2>2. /\ pc = "run" /\ pc' = "immediate"
        /\ UNCHANGED <<postponed, offsets, applies, todo>>
    BY <1>7 DEF RunSequential, call
  <2>3. p \in Presolvers /\ reductions[p] = {} /\ todo \subseteq Presolvers
    BY <1>1, <2>1, <2>2 DEF TypeOK, NotRunYet
  <2>4. /\ \A q \in Presolvers \ {p} : reductions'[q] = reductions[q]
        /\ \A q \in Presolvers : reductions'[q] # {} => results'[q] # "unchanged"
    BY <1>1, <2>1, <2>2, <2>3, RunClean
  <2> QED BY <2>1, <2>2, <2>3, <2>4 DEF NotRunYet
<1>8. CASE ApplyImmediately
  <2>1. /\ pc = "immediate" /\ pc' = "run"
        /\ UNCHANGED <<reductions, postponed, offsets, applies>>
        /\ todo' \subseteq todo \ {turn}
    BY <1>8 DEF ApplyImmediately, call
  <2>2. \A p \in Presolvers : results[p] # "unchanged" => results'[p] # "unchanged"
    BY <1>1, <1>8 DEF ApplyImmediately, TypeOK, FlushedResult, ResultAfter, Infeasible
  <2> QED BY <2>1, <2>2 DEF NotRunYet
<1>9. CASE EvaluateUnchanged
  <2>1. EvaluateResults = "unchanged"
    BY <1>9 DEF EvaluateUnchanged
  <2>2. \A p \in Presolvers : results[p] = "unchanged"
    <3>1. \A p \in Presolvers : results[p] \in Statuses /\ Severity[results[p]] <= Severity["unchanged"]
      BY <1>1, <2>1, EvaluateResultsType DEF TypeOK
    <3>2. \A st \in Statuses : Severity[st] <= Severity["unchanged"] => st = "unchanged"
      BY DEF Severity, Statuses
    <3> QED BY <3>1, <3>2
  <2>3. \A p \in Presolvers : reductions[p] = {}
    BY <1>9, <2>2 DEF EvaluateUnchanged, ClassDone
  <2>4. Clean
    BY <1>1, <1>9, <2>2, <2>3 DEF Clean, EvaluateUnchanged, ClassDone, TypeOK
  <2> QED BY <1>9, <2>4 DEF EvaluateUnchanged, Clean, ClassDone, buffers, call
<1>10. CASE EvaluateReduced
  BY <1>10 DEF EvaluateReduced, ClassDone, call
<1>11. CASE ApplySlices
  BY <1>11 DEF ApplySlices, Return, call
<1>12. CASE NextRound
  BY <1>12 DEF NextRound, FinishRound, Clean, call
(* The other steps lead to places CleanInv says nothing of.                 *)
<1>13. ASSUME UNCHANGED applies, pc # "idle",
              pc' \in {"apply", "postponed", "returned", "crashed"}
       PROVE  CleanInv'
  BY <1>13
<1>14. CASE EvaluateInfeasible
  BY <1>13, <1>14 DEF EvaluateInfeasible, ClassDone, Return, call
<1>15. CASE ApplyReductions
  BY <1>13, <1>15 DEF ApplyReductions, call
<1>16. CASE AllApplied
  BY <1>13, <1>16 DEF AllApplied, Return, call
<1>17. CASE RunAway
  BY <1>13, <1>17 DEF RunAway, call
<1>18. CASE Finish
  BY <1>13, <1>18 DEF Finish, call
<1>19. CASE UseNullCertificate
  BY <1>13, <1>19 DEF UseNullCertificate, call
<1>20. CASE UNCHANGED vars
  BY <1>20 DEF vars, buffers, call, Clean, NotRunYet
<1> QED BY <1>2, <1>4, <1>5, <1>6, <1>7, <1>8, <1>9, <1>10, <1>11, <1>12, <1>14, <1>15,
           <1>16, <1>17, <1>18, <1>19, <1>20 DEF Next, ApplyPostponed

(* Within one call, every class of presolvers starts from empty results,    *)
(* reductions and postponed transactions.                                   *)
THEOREM ClassesStartClean ==
  ASSUME MaxApplies = 1
  PROVE  Spec => []CleanRound
<1>1. Init => TypeInv /\ CleanInv
  BY TypeInvInit, CleanInvInit
<1>2. TypeInv /\ CleanInv /\ [Next]_vars => (TypeInv /\ CleanInv)'
  BY TypeInvNext, CleanInvNext
<1>3. CleanInv => CleanRound
  BY DEF CleanInv, CleanRound, Clean
<1> QED BY <1>1, <1>2, <1>3, PTL DEF Spec

-----------------------------------------------------------------------------
(* Trivial presolve comes before every class                                *)
(*                                                                          *)
(* What is applied after a class shows in the difference of the statistics, *)
(* and this makes roundReduced true also when the round is negligible.  The *)
(* loop may stop without it.                                                *)

TrivialInv ==
  /\ pc # "immediate"
  /\ pc = "run" => ~dirty
  /\ pc \in {"apply", "postponed", "next"} /\ dirty => AnyChange
  /\ pc = "loop" /\ dirty => roundReduced \/ round = "abort"

(* The problem is clean before the first call.                              *)
LEMMA TrivialInvInit == Init => TrivialInv
BY DEF Init, TrivialInv

(* The inductive step: changes show in the difference of the statistics.    *)
LEMMA TrivialInvNext ==
  ASSUME ~Sequential, TypeInv, TrivialInv, [Next]_vars
  PROVE  TrivialInv'
<1> USE DEF TrivialInv, AnyChange
<1>1. TypeOK
  BY DEF TypeInv
<1>2. CASE Apply
  BY <1>2 DEF Apply
<1>3. CASE TrivialPresolve
  BY <1>3 DEF TrivialPresolve, Return, LeaveLoop, StartClass
<1>4. CASE SkipTrivialPresolve
  <2>1. pc' = "finish" \/ (pc' = "run" /\ round # "abort" /\ dirty' = dirty)
    BY <1>4 DEF SkipTrivialPresolve, LeaveLoop, StartClass, Classes, problem
  <2> QED BY <1>4, <2>1 DEF SkipTrivialPresolve
<1>5. CASE RunParallel
  BY <1>5 DEF RunParallel, problem
<1>6. CASE RunSequential \/ ApplyImmediately
  BY <1>6 DEF RunSequential, ApplyImmediately
<1>7. CASE EvaluateInfeasible
  BY <1>7 DEF EvaluateInfeasible, Return
<1>8. CASE EvaluateUnchanged
  BY <1>8 DEF EvaluateUnchanged, ClassDone
<1>9. CASE EvaluateReduced
  BY <1>9 DEF EvaluateReduced, ClassDone, RanSequentially, problem
<1>10. CASE ApplyReductions
  <2>1. PICK nd \in 0..size, moved \in BOOLEAN :
          /\ Changes(nd, moved)
          /\ dirty' = (dirty \/ nd > 0 \/ moved)
    BY <1>10 DEF ApplyReductions
  <2>2. dirty' => delta'.shrink \/ delta'.tighten
    BY <1>10, <2>1 DEF ApplyReductions, Changes
  <2> QED BY <1>10, <2>2 DEF ApplyReductions
<1>11. CASE AllApplied
  BY <1>11 DEF AllApplied, Return, problem
<1>12. CASE ApplySlices
  <2>1. PICK nd \in 0..size, moved \in BOOLEAN :
          /\ Changes(nd, moved)
          /\ dirty' = (dirty \/ nd > 0 \/ moved)
    BY <1>12 DEF ApplySlices
  <2>2. dirty' => delta'.shrink \/ delta'.tighten
    BY <1>12, <2>1 DEF ApplySlices, Changes
  <2>3. pc' \in {"next", "returned"}
    BY <1>12 DEF ApplySlices, Return
  <2> QED BY <2>2, <2>3
<1>13. CASE NextRound
  <2>1. dirty' = dirty /\ pc' = "loop" /\ pc = "next"
    BY <1>13 DEF NextRound
  <2>2. Stop \/ AfterNegligible \/ AfterSuccess
    BY <1>13 DEF NextRound, DetermineNextRound
  <2>3. round' = "abort" \/ roundReduced' = AnyChange \/ roundReduced' = TRUE
    BY <2>2 DEF Stop, AfterNegligible, AfterSuccess
  <2> QED BY <2>1, <2>3
<1>14. CASE RunAway \/ UseNullCertificate \/ Finish
  BY <1>14 DEF RunAway, UseNullCertificate, Finish
<1>15. CASE UNCHANGED vars
  BY <1>15 DEF vars, flags, problem
<1> QED BY <1>2, <1>3, <1>4, <1>5, <1>6, <1>7, <1>8, <1>9, <1>10, <1>11, <1>12, <1>13,
           <1>14, <1>15 DEF Next, ApplyPostponed

(* Presolvers of a class never see a problem with outstanding trivial       *)
(* reductions, whatever was applied before (roundReduced in apply()).       *)
THEOREM TrivialPresolveFirst == Spec => []TrivialBeforeClass
<1>1. CASE ~Sequential
  <2>1. Init => TypeInv /\ TrivialInv
    BY TypeInvInit, TrivialInvInit
  <2>2. TypeInv /\ TrivialInv /\ [Next]_vars => (TypeInv /\ TrivialInv)'
    BY <1>1, TypeInvNext, TrivialInvNext
  <2>3. TrivialInv => TrivialBeforeClass
    BY DEF TrivialInv, TrivialBeforeClass
  <2> QED BY <2>1, <2>2, <2>3, PTL DEF Spec
<1>2. CASE Sequential
  <2>1. TrivialBeforeClass
    BY <1>2 DEF TrivialBeforeClass
  <2> QED BY <2>1, PTL
<1> QED BY <1>1, <1>2

-----------------------------------------------------------------------------
(* Infeasibility is reported                                                *)
(*                                                                          *)
(* What a presolver finds stays in results until the class is evaluated,    *)
(* and only presolvers that still have to run overwrite a result.           *)

InfeasibleResult(S) == \E p \in S : Infeasible(results[p])

ReportInv ==
  /\ pc = "immediate" => turn \in Presolvers
  /\ detected /\ pc \in {"run", "immediate"} => InfeasibleResult(Presolvers \ NotRunYet)
  /\ detected /\ pc = "apply" => InfeasibleResult(Presolvers)
  /\ pc \in {"idle", "loop", "postponed", "next", "finish"} => ~detected
  /\ pc = "returned" /\ detected => Infeasible(status)

(* Nothing has been found at first.                                         *)
LEMMA ReportInvInit == Init => ReportInv
BY DEF Init, ReportInv

(* Severity tells infeasible statuses from the others.                      *)
LEMMA InfeasibleSeverity ==
  ASSUME NEW st \in Statuses
  PROVE  Infeasible(st) <=> Severity[st] > Severity["reduced"]
BY DEF Statuses, Severity, Infeasible

(* evaluateResults is infeasible exactly when some result is.               *)
LEMMA ResultsEvaluated ==
  ASSUME TypeOK
  PROVE  InfeasibleResult(Presolvers) <=> Infeasible(EvaluateResults)
<1>1. /\ EvaluateResults \in Statuses
      /\ EvaluateResults = "unchanged" \/ \E p \in Presolvers : results[p] = EvaluateResults
      /\ \A p \in Presolvers : results[p] \in Statuses /\ Severity[results[p]] <= Severity[EvaluateResults]
  BY EvaluateResultsType DEF TypeOK
<1>2. \A st \in Statuses : Severity[st] \in Int
  BY DEF Statuses, Severity
<1>3. ASSUME InfeasibleResult(Presolvers) PROVE Infeasible(EvaluateResults)
  <2>1. PICK p \in Presolvers : Infeasible(results[p])
    BY <1>3 DEF InfeasibleResult
  <2>2. Severity[results[p]] > Severity["reduced"] /\ Severity["reduced"] \in Int
    BY <1>1, <2>1, InfeasibleSeverity DEF Severity
  <2>3. Severity[EvaluateResults] > Severity["reduced"]
    BY <1>1, <1>2, <2>2
  <2> QED BY <1>1, <2>3, InfeasibleSeverity
<1>4. ASSUME Infeasible(EvaluateResults) PROVE InfeasibleResult(Presolvers)
  BY <1>1, <1>4 DEF InfeasibleResult, Infeasible
<1> QED BY <1>3, <1>4

(* Running a presolver keeps the results of the others.                     *)
LEMMA RunKeepsResults ==
  ASSUME TypeOK, NEW p \in Presolvers, Run(p)
  PROVE  \A q \in Presolvers \ {p} : results'[q] = results[q]
BY DEF Run, TypeOK

(* The inductive step: results keep what was found until it is evaluated.   *)
LEMMA ReportInvNext ==
  ASSUME TypeInv, ReportInv, [Next]_vars
  PROVE  ReportInv'
<1> USE DEF ReportInv
<1>1. TypeOK
  BY DEF TypeInv
<1>2. CASE Apply
  BY <1>2 DEF Apply
<1>3. CASE TrivialPresolve
  <2>1. pc = "loop" /\ ~detected
    BY <1>3 DEF TrivialPresolve
  <2>2. \/ pc' = "returned" /\ Infeasible(status')
        \/ pc' \in {"finish", "run"} /\ ~detected'
    BY <1>3, <2>1 DEF TrivialPresolve, Return, LeaveLoop, StartClass
  <2> QED BY <2>2
<1>4. CASE SkipTrivialPresolve
  BY <1>4 DEF SkipTrivialPresolve, LeaveLoop, StartClass
<1>5. CASE RunParallel
  <2>1. PICK p \in todo : /\ Run(p)
                          /\ todo' = todo \ {p}
                          /\ detected' = (detected \/ Infeasible(results'[p]))
    BY <1>5 DEF RunParallel
  <2>2. pc = "run" /\ pc' = "run" /\ p \in Presolvers /\ todo \subseteq Presolvers
    BY <1>1, <1>5, <2>1 DEF RunParallel, TypeOK
  <2>3. \A q \in Presolvers \ {p} : results'[q] = results[q]
    BY <1>1, <2>1, <2>2, RunKeepsResults
  <2> QED BY <2>1, <2>2, <2>3 DEF NotRunYet, InfeasibleResult
<1>6. CASE RunSequential
  <2>1. PICK p \in todo : /\ Run(p)
                          /\ turn' = p
                          /\ detected' = (detected \/ Infeasible(results'[p]))
    BY <1>6 DEF RunSequential
  <2>2. pc = "run" /\ pc' = "immediate" /\ todo' = todo /\ p \in Presolvers /\ todo \subseteq Presolvers
    BY <1>1, <1>6, <2>1 DEF RunSequential, TypeOK
  <2>3. \A q \in Presolvers \ {p} : results'[q] = results[q]
    BY <1>1, <2>1, <2>2, RunKeepsResults
  <2> QED BY <2>1, <2>2, <2>3 DEF NotRunYet, InfeasibleResult
<1>7. CASE ApplyImmediately
  <2>1. PICK inf \in BOOLEAN, f \in FlushStatuses :
          /\ results' = [results EXCEPT ![turn] = FlushedResult(ResultAfter(turn, inf), f)]
          /\ detected' = (detected \/ inf \/ Infeasible(f))
    BY <1>7 DEF ApplyImmediately, AnyInfeasible
  <2>2. /\ pc = "immediate" /\ pc' = "run"
        /\ todo' \subseteq todo \ {turn}
        /\ results \in [Presolvers -> Statuses]
    BY <1>1, <1>7 DEF ApplyImmediately, TypeOK
  <2>3. \A q \in Presolvers : Infeasible(results[q]) => Infeasible(results'[q])
    BY <2>1, <2>2 DEF FlushedResult, ResultAfter, Infeasible
  <2>4. CASE turn \in Presolvers
    <3>1. inf \/ Infeasible(f) => Infeasible(results'[turn])
      BY <2>1, <2>2, <2>4 DEF FlushedResult, ResultAfter, Infeasible
    <3> QED BY <2>1, <2>2, <2>3, <2>4, <3>1 DEF NotRunYet, InfeasibleResult
  <2> QED BY <2>2, <2>4
<1>8. CASE EvaluateInfeasible
  BY <1>8 DEF EvaluateInfeasible, Return
<1>9. CASE EvaluateUnchanged
  <2>1. ~InfeasibleResult(Presolvers)
    BY <1>1, <1>9, ResultsEvaluated DEF EvaluateUnchanged, Infeasible
  <2> QED BY <1>9, <2>1 DEF EvaluateUnchanged, ClassDone, NotRunYet, InfeasibleResult
<1>10. CASE EvaluateReduced
  <2>1. ~InfeasibleResult(Presolvers)
    BY <1>1, <1>10, ResultsEvaluated DEF EvaluateReduced, Infeasible
  <2> QED BY <1>10, <2>1 DEF EvaluateReduced, ClassDone, NotRunYet, InfeasibleResult
<1>11. CASE ApplyReductions
  <2>1. PICK inf \in BOOLEAN :
          /\ results' = [results EXCEPT ![turn] = ResultAfter(turn, inf)]
          /\ detected' = (detected \/ inf)
    BY <1>11 DEF ApplyReductions, AnyInfeasible
  <2>2. pc = "apply" /\ pc' = "apply" /\ turn \in Presolvers /\ results \in [Presolvers -> Statuses]
    BY <1>1, <1>11, PresolversAssumption DEF ApplyReductions, TypeOK, Presolvers
  <2>3. \A q \in Presolvers : Infeasible(results[q]) => Infeasible(results'[q])
    BY <2>1, <2>2 DEF ResultAfter, Infeasible
  <2>4. inf => Infeasible(results'[turn])
    BY <2>1, <2>2 DEF ResultAfter, Infeasible
  <2> QED BY <2>1, <2>2, <2>3, <2>4 DEF InfeasibleResult
<1>12. CASE AllApplied
  <2>1. detected => Infeasible(EvaluateResults)
    BY <1>1, <1>12, ResultsEvaluated DEF AllApplied
  <2> QED BY <1>12, <2>1 DEF AllApplied, Return
<1>13. CASE ApplySlices
  BY <1>13 DEF ApplySlices, Return
<1>14. CASE NextRound
  BY <1>14 DEF NextRound
<1>15. CASE RunAway \/ UseNullCertificate \/ Finish
  BY <1>15 DEF RunAway, UseNullCertificate, Finish
<1>16. CASE UNCHANGED vars
  BY <1>16 DEF vars, buffers, NotRunYet, InfeasibleResult
<1> QED BY <1>2, <1>3, <1>4, <1>5, <1>6, <1>7, <1>8, <1>9, <1>10, <1>11, <1>12, <1>13,
           <1>14, <1>15, <1>16 DEF Next, ApplyPostponed

(* Whatever finds the problem infeasible or unbounded, and whoever runs     *)
(* after it, apply() reports it: also in later calls of apply(), when       *)
(* results hold what the last call left.                                    *)
THEOREM InfeasibilityNeverLost == Spec => []InfeasibilityReported
<1>1. Init => TypeInv /\ ReportInv
  BY TypeInvInit, ReportInvInit
<1>2. TypeInv /\ ReportInv /\ [Next]_vars => (TypeInv /\ ReportInv)'
  BY TypeInvNext, ReportInvNext
<1>3. ReportInv => InfeasibilityReported
  BY DEF ReportInv, InfeasibilityReported
<1> QED BY <1>1, <1>2, <1>3, PTL DEF Spec

(* The converse holds for the first call only, which finds results empty.   *)
OnlyInv ==
  /\ pc # "idle" => applies = 1
  /\ pc = "idle" => ~InfeasibleResult(Presolvers)
  /\ InfeasibleResult(Presolvers) => detected
  /\ pc = "returned" /\ Infeasible(status) => detected

(* No presolver has a result at first.                                      *)
LEMMA OnlyInvInit == Init => OnlyInv
BY DEF Init, OnlyInv, InfeasibleResult, Infeasible

(* The inductive step: a result becomes infeasible only when this is noted. *)
LEMMA OnlyInvNext ==
  ASSUME MaxApplies = 1, TypeInv, OnlyInv, [Next]_vars
  PROVE  OnlyInv'
<1> USE DEF OnlyInv
<1>1. TypeOK
  BY DEF TypeInv
<1>2. CASE Apply
  <2>1. pc = "idle" /\ pc' = "loop" /\ results' = results /\ applies' = 1
    BY <1>1, <1>2 DEF Apply, TypeOK
  <2> QED BY <2>1 DEF InfeasibleResult
<1>3. CASE TrivialPresolve
  <2>1. pc = "loop" /\ results' = results /\ applies' = applies
    BY <1>3 DEF TrivialPresolve, call
  <2>2. \/ pc' = "returned" /\ detected'
        \/ pc' \in {"finish", "run"} /\ detected' = detected
    BY <1>3 DEF TrivialPresolve, Return, LeaveLoop, StartClass
  <2> QED BY <2>1, <2>2 DEF InfeasibleResult
<1>4. CASE SkipTrivialPresolve
  <2>1. pc = "loop" /\ pc' \in {"finish", "run"}
    BY <1>4 DEF SkipTrivialPresolve, LeaveLoop, StartClass
  <2> QED BY <1>4, <2>1 DEF SkipTrivialPresolve, buffers, call, InfeasibleResult
<1>5. CASE RunParallel \/ RunSequential
  <2>1. PICK p \in todo : Run(p) /\ detected' = (detected \/ Infeasible(results'[p]))
    BY <1>5 DEF RunParallel, RunSequential
  <2>2. pc = "run" /\ pc' \in {"run", "immediate"} /\ p \in Presolvers /\ applies' = applies
    BY <1>1, <1>5, <2>1 DEF RunParallel, RunSequential, TypeOK, call
  <2>3. \A q \in Presolvers \ {p} : results'[q] = results[q]
    BY <1>1, <2>1, <2>2, RunKeepsResults
  <2> QED BY <2>1, <2>2, <2>3 DEF InfeasibleResult
<1>6. CASE ApplyImmediately
  <2>1. PICK inf \in BOOLEAN, f \in FlushStatuses :
          /\ results' = [results EXCEPT ![turn] = FlushedResult(ResultAfter(turn, inf), f)]
          /\ detected' = (detected \/ inf \/ Infeasible(f))
    BY <1>6 DEF ApplyImmediately, AnyInfeasible
  <2>2. pc = "immediate" /\ pc' = "run" /\ results \in [Presolvers -> Statuses] /\ applies' = applies
    BY <1>1, <1>6 DEF ApplyImmediately, TypeOK, call
  <2>3. \A q \in Presolvers : Infeasible(results'[q]) => Infeasible(results[q]) \/ inf \/ Infeasible(f)
    BY <2>1, <2>2 DEF FlushedResult, ResultAfter
  <2> QED BY <2>1, <2>2, <2>3 DEF InfeasibleResult
<1>7. CASE EvaluateInfeasible \/ AllApplied
  <2>1. /\ results' = results /\ detected' = detected /\ applies' = applies
        /\ pc \in {"run", "apply"}
        /\ \/ pc' = "returned" /\ Infeasible(EvaluateResults)
           \/ pc' = "postponed"
    BY <1>7 DEF EvaluateInfeasible, AllApplied, ClassDone, Return, buffers, call
  <2>2. pc' = "returned" => detected
    BY <1>1, <2>1, ResultsEvaluated
  <2> QED BY <2>1, <2>2 DEF InfeasibleResult
<1>8. CASE EvaluateUnchanged \/ EvaluateReduced
  <2>1. /\ results' = results /\ detected' = detected /\ applies' = applies
        /\ pc = "run" /\ pc' \in {"loop", "next", "apply"}
    BY <1>8 DEF EvaluateUnchanged, EvaluateReduced, ClassDone, buffers, call
  <2> QED BY <2>1 DEF InfeasibleResult
<1>9. CASE ApplyReductions
  <2>1. PICK inf \in BOOLEAN :
          /\ results' = [results EXCEPT ![turn] = ResultAfter(turn, inf)]
          /\ detected' = (detected \/ inf)
    BY <1>9 DEF ApplyReductions, AnyInfeasible
  <2>2. pc = "apply" /\ pc' = "apply" /\ results \in [Presolvers -> Statuses] /\ applies' = applies
    BY <1>1, <1>9 DEF ApplyReductions, TypeOK, call
  <2>3. \A q \in Presolvers : Infeasible(results'[q]) => Infeasible(results[q]) \/ inf
    BY <2>1, <2>2 DEF ResultAfter
  <2> QED BY <2>1, <2>2, <2>3 DEF InfeasibleResult
<1>10. CASE ApplySlices
  <2>1. /\ results' = results /\ applies' = applies /\ pc = "postponed"
        /\ detected => detected'
        /\ pc' = "next" \/ (pc' = "returned" /\ detected')
    BY <1>10 DEF ApplySlices, Return, call
  <2> QED BY <2>1 DEF InfeasibleResult
<1>11. CASE NextRound
  <2>1. /\ results' = [q \in Presolvers |-> "unchanged"] /\ applies' = applies
        /\ pc = "next" /\ pc' = "loop"
    BY <1>11 DEF NextRound, FinishRound, call
  <2> QED BY <2>1 DEF InfeasibleResult, Infeasible
<1>12. CASE Finish
  <2>1. /\ results' = results /\ detected' = detected /\ applies' = applies
        /\ pc = "finish" /\ pc' = "returned" /\ ~Infeasible(status')
    BY <1>12 DEF Finish, Infeasible, buffers, call
  <2> QED BY <2>1 DEF InfeasibleResult
<1>13. CASE RunAway \/ UseNullCertificate
  <2>1. /\ results' = results /\ detected' = detected /\ applies' = applies
        /\ pc # "idle" /\ pc' = "crashed"
    BY <1>13 DEF RunAway, UseNullCertificate, buffers, call
  <2> QED BY <2>1 DEF InfeasibleResult
<1>14. CASE UNCHANGED vars
  BY <1>14 DEF vars, buffers, call, InfeasibleResult
<1> QED BY <1>2, <1>3, <1>4, <1>5, <1>6, <1>7, <1>8, <1>9, <1>10, <1>11, <1>12, <1>13, <1>14
        DEF Next, ApplyPostponed

(* A Presolve object used for one problem reports infeasible or unbounded   *)
(* only what this call found: no slot of results can hold anything else.    *)
(* A second call may (README.md:223 promises reuse): results is resized by  *)
(* apply(), which keeps what the first call left in it.                     *)
THEOREM FirstCallExact ==
  ASSUME MaxApplies = 1
  PROVE  Spec => []InfeasibleOnlyIfDetected
<1>1. Init => TypeInv /\ OnlyInv
  BY TypeInvInit, OnlyInvInit
<1>2. TypeInv /\ OnlyInv /\ [Next]_vars => (TypeInv /\ OnlyInv)'
  BY TypeInvNext, OnlyInvNext
<1>3. OnlyInv => InfeasibleOnlyIfDetected
  BY DEF OnlyInv, InfeasibleOnlyIfDetected
<1> QED BY <1>1, <1>2, <1>3, PTL DEF Spec

-----------------------------------------------------------------------------
(* Postponed reductions are charged to their presolvers                     *)
(*                                                                          *)
(* Each presolver whose reductions are applied appends one offset, also     *)
(* when nothing was postponed, and an interrupt only cuts the list short.   *)

Cut(off, post) ==
  /\ Len(off) >= 1 /\ off[1] = 0 /\ off[Len(off)] = Len(post)
  /\ \A i \in 1..(Len(off) - 1) :
       /\ off[i] <= off[i + 1] /\ off[i + 1] <= Len(post)
       /\ \A j \in (off[i] + 1)..off[i + 1] : post[j] = i

PostponedInv ==
  /\ pc = "apply" => Len(offsets) = turn
  /\ pc \in {"apply", "postponed"} => Cut(offsets, postponed)

(* Nothing is under way at first.                                           *)
LEMMA PostponedInvInit == Init => PostponedInv
BY DEF Init, PostponedInv

(* What appending to a sequence does, position by position.                 *)
LEMMA AppendAt ==
  ASSUME NEW S, NEW s \in Seq(S), NEW x \in S
  PROVE  /\ Append(s, x) \in Seq(S)
         /\ Len(Append(s, x)) = Len(s) + 1
         /\ \A i \in 1..Len(s) : Append(s, x)[i] = s[i]
         /\ Append(s, x)[Len(s) + 1] = x
OBVIOUS

(* A presolver that postpones at most one substitution adds its slice.      *)
LEMMA SliceAdded ==
  ASSUME NEW S, NEW off \in Seq(Nat), NEW post \in Seq(S), NEW more \in Seq(S), Cut(off, post),
         Len(more) >= Len(post),
         \A j \in 1..Len(post) : more[j] = post[j],
         \A j \in (Len(post) + 1)..Len(more) : more[j] = Len(off)
  PROVE  Cut(Append(off, Len(more)), more)
<1> DEFINE n == Len(off)
           m == Len(post)
           k == Len(more)
           ext == Append(off, k)
<1>1. n \in Nat /\ m \in Nat /\ k \in Nat /\ k >= m
  OBVIOUS
<1>2. Len(ext) = n + 1 /\ ext[n + 1] = k /\ \A i \in 1..n : ext[i] = off[i]
  BY <1>1, AppendAt
<1>3. n >= 1 /\ off[1] = 0 /\ off[n] = m
  BY DEF Cut
<1>4. \A i \in 1..n : off[i] \in Nat
  OBVIOUS
<1> HIDE DEF ext
<1>5. ASSUME NEW i \in 1..n
      PROVE  /\ ext[i] <= ext[i + 1] /\ ext[i + 1] <= k
             /\ \A j \in (ext[i] + 1)..ext[i + 1] : more[j] = i
  <2>1. CASE i = n
    BY <1>1, <1>2, <1>3, <2>1
  <2>2. CASE i \in 1..(n - 1)
    <3>1. i + 1 \in 1..n
      BY <1>1, <2>2
    <3>2. ext[i] = off[i] /\ ext[i + 1] = off[i + 1] /\ off[i] \in Nat /\ off[i + 1] \in Nat
      BY <1>2, <1>4, <3>1
    <3>3. /\ off[i] <= off[i + 1] /\ off[i + 1] <= m
          /\ \A j \in (off[i] + 1)..off[i + 1] : post[j] = i
      BY <2>2 DEF Cut
    <3>4. ASSUME NEW j \in (off[i] + 1)..off[i + 1] PROVE more[j] = i
      <4>1. j \in 1..m
        BY <1>1, <3>2, <3>3
      <4> QED BY <3>3, <4>1
    <3> HIDE DEF k, m
    <3> QED BY <1>1, <3>2, <3>3, <3>4
  <2> QED BY <1>1, <2>1, <2>2
<1>6. ext[1] = 0
  BY <1>1, <1>2, <1>3
<1>7. Cut(ext, more)
  <2> HIDE DEF n
  <2>1. Len(ext) - 1 = n /\ Len(ext) >= 1
    BY <1>1, <1>2
  <2>2. ext[Len(ext)] = Len(more)
    BY <1>1, <1>2
  <2> QED BY <1>5, <1>6, <2>1, <2>2 DEF Cut
<1> QED BY <1>7 DEF ext

(* An interrupt may come before the first presolver.                        *)
LEMMA NothingCut == Cut(Append(<<>>, 0), <<>>)
<1>1. Append(<<>>, 0) = <<0>> /\ Len(<<0>>) = 1 /\ <<0>>[1] = 0
  OBVIOUS
<1>2. 1..(Len(<<0>>) - 1) = {}
  BY <1>1
<1> QED BY <1>1, <1>2 DEF Cut

(* The inductive step: what ApplyReductions adds is a slice.              *)
LEMMA PostponedInvNext ==
  ASSUME MaxApplies = 1, TypeInv, CleanInv, PostponedInv, [Next]_vars
  PROVE  PostponedInv'
<1> USE DEF PostponedInv
<1>1. TypeOK
  BY DEF TypeInv
<1>2. CASE EvaluateReduced
  <2>1. pc = "run" /\ postponed = <<>> /\ offsets = <<>>
    BY <1>2 DEF EvaluateReduced, ClassDone, CleanInv
  <2>2. CASE pc' = "apply" /\ turn' = 1 /\ offsets' = Append(offsets, 0)
    <3>1. postponed' = <<>> /\ offsets' = Append(<<>>, 0)
      BY <1>2, <2>1, <2>2 DEF EvaluateReduced
    <3>2. Len(offsets') = 1
      BY <3>1
    <3> QED BY <2>2, <3>1, <3>2, NothingCut
  <2>3. CASE pc' = "next"
    BY <2>3
  <2> QED BY <1>2, <2>2, <2>3 DEF EvaluateReduced
<1>3. CASE ApplyReductions
  <2>1. /\ pc = "apply" /\ pc' = "apply"
        /\ turn' = turn + 1
        /\ offsets' = Append(offsets, Len(postponed'))
        /\ postponed' = postponed \/ postponed' = Append(postponed, turn)
    BY <1>3 DEF ApplyReductions, OffsetsAfter
  <2>2. turn \in Presolvers
    BY <1>1, <1>3, PresolversAssumption DEF ApplyReductions, TypeOK, Presolvers
  <2>3. /\ offsets \in Seq(Nat) /\ postponed \in Seq(Presolvers) /\ postponed' \in Seq(Presolvers)
        /\ Len(postponed') >= Len(postponed)
        /\ \A j \in 1..Len(postponed) : postponed'[j] = postponed[j]
        /\ \A j \in (Len(postponed) + 1)..Len(postponed') : postponed'[j] = turn
    <3>1. offsets \in Seq(Nat) /\ postponed \in Seq(Presolvers) /\ Len(postponed) \in Nat
      BY <1>1 DEF TypeOK
    <3>2. CASE postponed' = postponed
      BY <3>1, <3>2
    <3>3. CASE postponed' = Append(postponed, turn)
      <4>1. /\ postponed' \in Seq(Presolvers)
            /\ Len(postponed') = Len(postponed) + 1
            /\ \A j \in 1..Len(postponed) : postponed'[j] = postponed[j]
            /\ postponed'[Len(postponed) + 1] = turn
        BY <2>2, <3>1, <3>3, AppendAt
      <4> QED BY <3>1, <4>1
    <3> QED BY <2>1, <3>2, <3>3
  <2>4. turn = Len(offsets) /\ Cut(offsets, postponed)
    BY <2>1
  <2>5. Cut(Append(offsets, Len(postponed')), postponed')
    BY <2>3, <2>4, SliceAdded
  <2>6. Len(offsets') = turn'
    BY <2>1, <2>3, <2>4, AppendAt
  <2> QED BY <2>1, <2>5, <2>6
<1>4. CASE AllApplied
  BY <1>4 DEF AllApplied, Return, buffers
(* The other steps lead elsewhere.                                          *)
<1>5. ASSUME pc' \notin {"apply", "postponed"} PROVE PostponedInv'
  BY <1>5
<1>6. CASE Apply \/ TrivialPresolve \/ SkipTrivialPresolve
  BY <1>5, <1>6 DEF Apply, TrivialPresolve, SkipTrivialPresolve, Return, LeaveLoop, StartClass
<1>7. CASE RunParallel \/ RunSequential \/ ApplyImmediately
  BY <1>5, <1>7 DEF RunParallel, RunSequential, ApplyImmediately
<1>8. CASE EvaluateInfeasible \/ EvaluateUnchanged
  BY <1>5, <1>8 DEF EvaluateInfeasible, EvaluateUnchanged, Return
<1>9. CASE ApplySlices \/ RunAway \/ NextRound
  BY <1>5, <1>9 DEF ApplySlices, RunAway, NextRound, Return
<1>10. CASE Finish \/ UseNullCertificate
  BY <1>5, <1>10 DEF Finish, UseNullCertificate
<1>11. CASE UNCHANGED vars
  BY <1>11 DEF vars, buffers
<1> QED BY <1>2, <1>3, <1>4, <1>6, <1>7, <1>8, <1>9, <1>10, <1>11 DEF Next, ApplyPostponed

(* Within one call the offsets cut the postponed reductions into slices, in *)
(* order and without a rest, however many presolvers an interrupt left out: *)
(* applyPostponed never runs away.                                          *)
THEOREM SlicesCharged ==
  ASSUME MaxApplies = 1
  PROVE  Spec => []PostponedCharged
<1>1. Init => TypeInv /\ CleanInv /\ PostponedInv
  BY TypeInvInit, CleanInvInit, PostponedInvInit
<1>2. TypeInv /\ CleanInv /\ PostponedInv /\ [Next]_vars => (TypeInv /\ CleanInv /\ PostponedInv)'
  BY TypeInvNext, CleanInvNext, PostponedInvNext
<1>3. TypeInv /\ PostponedInv => PostponedCharged
  <2>1. SUFFICES ASSUME TypeInv, PostponedInv, pc = "postponed" PROVE PostponedCharged
    BY DEF PostponedCharged
  <2>2. Cut(offsets, postponed) /\ offsets \in Seq(Nat)
    BY <2>1 DEF PostponedInv, TypeInv, TypeOK
  <2>3. ~RunsAway
    <3>1. \A i \in Slices : offsets[i] \in Nat /\ offsets[i + 1] \in Nat
      BY <2>2 DEF Slices
    <3> QED BY <2>2, <3>1 DEF RunsAway, Cut, Slices
  <2>4. offsets # <<>>
    BY <2>2 DEF Cut
  <2> QED BY <2>2, <2>3, <2>4 DEF Cut, PostponedCharged, Slices
<1> QED BY <1>1, <1>2, <1>3, PTL DEF Spec

-----------------------------------------------------------------------------
(* No presolver is left out                                                 *)
(*                                                                          *)
(* Classes follow one another from fast to exhaustive.  A presolver that is *)
(* awake and is not filtered by its type skips rounds only after a call, so *)
(* it has been called once its class is done; and before the loop ends      *)
(* because the classes are exhausted the delayed ones are woken up.         *)

Waking == Enabled \ (Typed \cup delayed)

Before(p) == ClassRank[Timing[p]] < ClassRank[round]

Behind(p) ==
  \/ round \in Classes /\ Before(p)
  \/ pc = "run" /\ Timing[p] = round /\ p \notin todo
  \/ pc \in {"apply", "postponed", "next"} /\ Timing[p] = round

Called(p) == calls[p] > 0

AwakeInv ==
  /\ \A p \in Presolvers : calls[p] = 0 => skip[p] = 0
  /\ rundelayed => Enabled \cap delayed = {}

ReachedInv ==
  /\ pc # "immediate"
  /\ pc \in {"loop"} \cup Running => \A p \in Waking : Behind(p) => Called(p)
  /\ ended = "exceeded" => \A p \in Enabled \ Typed : Called(p)

LeftOutInv == AwakeInv /\ ReachedInv

(* Nobody has been called at first, and nobody skips.                      *)
LEMMA LeftOutInvInit == Init => LeftOutInv
BY DEF Init, LeftOutInv, AwakeInv, ReachedInv, Running

(* An enabled, awake presolver that no type filters out has been called     *)
(* after its turn: now, or before it began to skip.                         *)
LEMMA RunCalls ==
  ASSUME TypeOK, AwakeInv, NEW p \in Presolvers, Run(p)
  PROVE  /\ \A q \in Presolvers : Called(q) => Called(q)'
         /\ \A q \in Presolvers : calls'[q] = 0 => skip'[q] = 0
         /\ p \in Waking => Called(p)'
         /\ delayed' = delayed
<1> USE DEF Called
<1>1. calls \in [Presolvers -> 0..CallCap] /\ skip \in [Presolvers -> 0..(2 * CallCap)]
  BY DEF TypeOK
<1>2. CASE /\ Asleep(p) \/ (skip[p] = 0 /\ p \in Typed)
           /\ UNCHANGED <<calls, skip>>
  BY <1>2 DEF AwakeInv, Asleep, Waking, Run
<1>3. CASE Skips(p) /\ skip' = [skip EXCEPT ![p] = @ - 1] /\ UNCHANGED calls
  <2>1. calls[p] > 0
    BY <1>1, <1>3 DEF AwakeInv, Skips
  <2> QED BY <1>1, <1>3, <2>1 DEF AwakeInv, Run
<1>4. ASSUME NEW st \in Statuses, Execute(p, st)
      PROVE  /\ \A q \in Presolvers : Called(q) => Called(q)'
             /\ \A q \in Presolvers : calls'[q] = 0 => skip'[q] = 0
             /\ p \in Waking => Called(p)'
  <2>1. calls' = [calls EXCEPT ![p] = UpTo(@ + 1, CallCap)]
    BY <1>4 DEF Execute
  <2>2. UpTo(calls[p] + 1, CallCap) > 0
    BY <1>1, BoundsAssumption DEF UpTo
  <2>3. calls'[p] > 0 /\ \A q \in Presolvers \ {p} : calls'[q] = calls[q]
    BY <1>1, <2>1, <2>2
  <2>4. \A q \in Presolvers \ {p} : skip'[q] = skip[q]
    BY <1>1, <1>4 DEF Execute
  <2> QED BY <2>3, <2>4 DEF AwakeInv
<1>5. delayed' = delayed
  BY DEF Run
<1> QED BY <1>2, <1>3, <1>4, <1>5 DEF Run

(* The class after the one just finished.                                   *)
LEMMA NextClassCalls ==
  ASSUME TypeOK, AwakeInv, ReachedInv, round \in Classes, pc \in Running,
         NEW unchanged \in BOOLEAN, DetermineNextRound(unchanged),
         \A p \in Waking : Before(p) \/ Timing[p] = round => Called(p),
         UNCHANGED <<calls, skip>>, pc' = "loop"
  PROVE  LeftOutInv'
<1>1. \A p \in Presolvers : Timing[p] \in Classes
  BY PresolversAssumption
<1>2. Waking \subseteq Presolvers /\ Enabled \subseteq Presolvers
  BY PresolversAssumption DEF Waking
<1>3. ASSUME rundelayed' => Enabled \cap delayed' = {},
             \A p \in Waking' : Behind(p)' => Called(p)',
             ended' = "exceeded" => \A p \in Enabled \ Typed : Called(p)'
      PROVE  LeftOutInv'
  BY <1>3 DEF LeftOutInv, AwakeInv, ReachedInv
<1>4. ASSUME round' \notin Classes, UNCHANGED <<rundelayed, delayed>>,
             ended' = "exceeded" => \A p \in Enabled \ Typed : Called(p)'
      PROVE  LeftOutInv'
  BY <1>3, <1>4 DEF AwakeInv, Behind
<1>5. ASSUME round' = "fast", ended' = ended, rundelayed' => Enabled \cap delayed' = {}
      PROVE  LeftOutInv'
  <2>1. \A p \in Waking' : ~Behind(p)'
    BY <1>1, <1>5, PresolversAssumption DEF Behind, Before, Waking, Classes, ClassRank
  <2>2. ended' = "exceeded" => \A p \in Enabled \ Typed : Called(p)'
    BY <1>5 DEF ReachedInv, Called
  <2> QED BY <1>3, <1>5, <2>1, <2>2
<1>6. CASE Stop
  BY <1>4, <1>6 DEF Stop, flags, Classes, ReachedInv, Called
<1>7. ASSUME NEW red \in BOOLEAN, NextClass(red) PROVE LeftOutInv'
  <2>1. CASE /\ round # "exhaustive" /\ round' = Harder[round]
             /\ UNCHANGED <<successful, rundelayed, delayed, ended>>
    <3>1. ASSUME NEW p \in Waking', Behind(p)' PROVE Called(p)'
      <4>1. p \in Waking /\ Timing[p] \in Classes
        BY <1>1, <1>2, <2>1 DEF Waking
      <4>2. ClassRank[Timing[p]] < ClassRank[round'] /\ round \in {"fast", "medium"}
        BY <2>1, <3>1 DEF Behind, Before, Classes
      <4>3. Before(p) \/ Timing[p] = round
        BY <2>1, <4>1, <4>2 DEF Before, Harder, Classes, ClassRank
      <4> QED BY <4>1, <4>3 DEF Called
    <3>2. ended' = "exceeded" => \A p \in Enabled \ Typed : Called(p)'
      BY <2>1 DEF ReachedInv, Called
    <3> QED BY <1>3, <2>1, <3>1, <3>2 DEF AwakeInv
  <2>2. CASE round' = "fast" /\ rundelayed' = TRUE /\ delayed' = DelayedAfter /\ UNCHANGED ended
    BY <1>5, <2>2 DEF DelayedAfter, AwakeInv
  <2>3. CASE /\ round = "exhaustive" /\ rundelayed
             /\ round' = "abort" /\ ended' = "exceeded"
             /\ UNCHANGED <<successful, rundelayed, delayed>>
    <3>1. \A p \in Enabled \ Typed : p \in Waking
      BY <2>3 DEF AwakeInv, Waking
    <3>2. \A p \in Waking : Before(p) \/ Timing[p] = round
      BY <1>1, <1>2, <2>3 DEF Before, Classes, ClassRank
    <3> QED BY <1>4, <2>3, <3>1, <3>2 DEF Classes, Called
  <2> QED BY <1>7, <2>1, <2>2, <2>3 DEF NextClass
<1>8. CASE AfterUnchanged
  BY <1>7, <1>8 DEF AfterUnchanged, TypeOK
<1>9. CASE AfterNegligible
  <2>1. reduced' \in BOOLEAN /\ NextClass(reduced')
    BY <1>9 DEF AfterNegligible, AnyChange, TypeOK
  <2> QED BY <1>7, <2>1
<1>10. CASE AfterSuccess
  BY <1>5, <1>10 DEF AfterSuccess, AwakeInv
<1> QED BY <1>6, <1>8, <1>9, <1>10 DEF DetermineNextRound

(* The inductive step: only RunParallel calls presolvers, only the next     *)
(* class turns to others.                                                   *)
LEMMA LeftOutInvNext ==
  ASSUME ~Sequential, TypeInv, LeftOutInv, [Next]_vars
  PROVE  LeftOutInv'
<1>1. TypeOK /\ AwakeInv /\ ReachedInv /\ (pc \in Running => round \in Classes)
  BY DEF TypeInv, RunningClass, LeftOutInv
<1>2. Waking \subseteq Presolvers /\ Enabled \subseteq Presolvers
  BY PresolversAssumption DEF Waking
(* Most steps call nobody and stay within the class.                        *)
<1>3. ASSUME UNCHANGED <<calls, skip, delayed, rundelayed>>, pc' # "immediate",
             pc' \in {"loop"} \cup Running =>
               pc \in {"loop"} \cup Running /\ \A p \in Waking : Behind(p)' => Behind(p),
             ended' = "exceeded" => ended = "exceeded"
      PROVE  LeftOutInv'
  <2>1. AwakeInv'
    BY <1>1, <1>3 DEF AwakeInv
  <2>2. Waking' = Waking /\ \A p \in Presolvers : Called(p)' = Called(p)
    BY <1>3 DEF Waking, Called
  <2>3. ReachedInv'
    BY <1>1, <1>2, <1>3, <2>2 DEF ReachedInv
  <2> QED BY <2>1, <2>3 DEF LeftOutInv
<1>4. CASE Apply
  <2>1. \A p \in Waking' : ~Behind(p)'
    BY <1>4, PresolversAssumption DEF Apply, Behind, Before, Waking, Classes, ClassRank
  <2>2. AwakeInv'
    BY <1>1, <1>4 DEF Apply, AwakeInv, counters
  <2> QED BY <1>4, <2>1, <2>2 DEF Apply, ReachedInv, LeftOutInv
(* The head of the loop.                                                    *)
<1>5. ASSUME UNCHANGED <<calls, skip, delayed, rundelayed>>, pc = "loop",
             LeaveLoop \/ StartClass(round)
      PROVE  LeftOutInv'
  <2>1. CASE LeaveLoop
    BY <1>3, <1>5, <2>1 DEF LeaveLoop, Running
  <2>2. CASE StartClass(round)
    <3>1. /\ pc' = "run" /\ round' = round /\ round \in Classes /\ ended' = ended
          /\ todo' = Class(round)
      BY <2>2 DEF StartClass
    <3>2. \A p \in Waking : Behind(p)' => Behind(p)
      BY <1>2, <3>1 DEF Behind, Before, Class
    <3> QED BY <1>3, <1>5, <3>1, <3>2
  <2> QED BY <1>5, <2>1, <2>2
<1>6. CASE TrivialPresolve
  <2>1. UNCHANGED <<calls, skip, delayed, rundelayed>> /\ pc = "loop"
    BY <1>6 DEF TrivialPresolve, counters
  <2>2. CASE pc' = "returned" /\ ended' = "infeasible"
    BY <1>3, <2>1, <2>2 DEF Running
  <2> QED BY <1>5, <1>6, <2>1, <2>2 DEF TrivialPresolve, Return
<1>7. CASE SkipTrivialPresolve
  BY <1>5, <1>7 DEF SkipTrivialPresolve, counters
<1>8. CASE RunParallel
  <2>1. PICK p \in todo : Run(p) /\ todo' = todo \ {p}
    BY <1>8 DEF RunParallel
  <2>2. pc = "run" /\ UNCHANGED <<pc, round, rundelayed, ended>> /\ p \in Presolvers
    BY <1>1, <1>8, <2>1 DEF RunParallel, flags, TypeOK
  <2>3. /\ \A q \in Presolvers : Called(q) => Called(q)'
        /\ \A q \in Presolvers : calls'[q] = 0 => skip'[q] = 0
        /\ p \in Waking => Called(p)'
        /\ delayed' = delayed
    BY <1>1, <2>1, <2>2, RunCalls
  <2>4. AwakeInv'
    BY <1>1, <2>2, <2>3 DEF AwakeInv
  <2>5. \A q \in Waking' : Behind(q)' => Called(q)'
    <3>1. \A q \in Waking : q # p /\ Behind(q)' => Behind(q)
      BY <2>1, <2>2 DEF Behind, Before
    <3>2. Waking' = Waking /\ \A q \in Waking : Behind(q) => Called(q)
      BY <1>1, <2>2, <2>3 DEF Waking, ReachedInv, Running
    <3> QED BY <1>2, <2>3, <3>1, <3>2
  <2>6. ended' = "exceeded" => \A q \in Enabled \ Typed : Called(q)'
    BY <1>1, <1>2, <2>2, <2>3 DEF ReachedInv
  <2>7. pc' # "immediate"
    BY <2>2
  <2> QED BY <2>4, <2>5, <2>6, <2>7 DEF LeftOutInv, ReachedInv
<1>9. CASE RunSequential \/ ApplyImmediately
  BY <1>1, <1>9 DEF RunSequential, ApplyImmediately, ReachedInv
<1>10. CASE EvaluateInfeasible
  BY <1>3, <1>10 DEF EvaluateInfeasible, Return, counters, flags, Running
<1>11. CASE EvaluateUnchanged
  <2>1. \A p \in Waking : Before(p) \/ Timing[p] = round => Called(p)
    BY <1>1, <1>11 DEF EvaluateUnchanged, ClassDone, ReachedInv, Behind, Running
  <2> QED BY <1>1, <1>11, <2>1, NextClassCalls DEF EvaluateUnchanged, ClassDone, Running
<1>12. CASE EvaluateReduced
  <2>1. pc = "run" /\ todo = {} /\ pc' \in {"apply", "next"}
    BY <1>12 DEF EvaluateReduced, ClassDone
  <2>2. \A p \in Waking : Behind(p)' => Behind(p)
    BY <1>12, <2>1 DEF EvaluateReduced, Behind, Before
  <2> QED BY <1>3, <1>12, <2>1, <2>2 DEF EvaluateReduced, counters, flags, Running
<1>13. CASE ApplyReductions \/ AllApplied \/ ApplySlices
  <2>1. /\ UNCHANGED <<calls, skip, delayed, rundelayed, round>>
        /\ pc \in {"apply", "postponed"}
        /\ \/ pc' \in {"apply", "postponed", "next"} /\ ended' = ended
           \/ pc' = "returned" /\ ended' = "infeasible"
    BY <1>13 DEF ApplyReductions, AllApplied, ApplySlices, Return, counters, flags
  <2>2. \A p \in Waking : pc' \in Running /\ Behind(p)' => Behind(p)
    BY <2>1 DEF Behind, Before, Running
  <2> QED BY <1>3, <2>1, <2>2 DEF Running
<1>14. CASE RunAway \/ UseNullCertificate \/ Finish
  BY <1>3, <1>14 DEF RunAway, UseNullCertificate, Finish, counters, flags, Running
<1>15. CASE NextRound
  <2>1. \A p \in Waking : Before(p) \/ Timing[p] = round => Called(p)
    BY <1>1, <1>15 DEF NextRound, ReachedInv, Behind, Running
  <2> QED BY <1>1, <1>15, <2>1, NextClassCalls DEF NextRound, Running
<1>16. CASE UNCHANGED vars
  <2>1. UNCHANGED <<calls, skip, delayed, rundelayed, pc, round, todo, ended>>
    BY <1>16 DEF vars, counters, flags
  <2> QED BY <1>1, <1>3, <2>1 DEF Behind, Before, ReachedInv
<1> QED BY <1>4, <1>6, <1>7, <1>8, <1>9, <1>10, <1>11, <1>12, <1>13, <1>14, <1>15, <1>16
        DEF Next, ApplyPostponed

(* When the parallel loop ends because the classes are exhausted, every     *)
(* enabled presolver that fits the problem has been called, the delayed     *)
(* ones included, in the first call of apply() and in any later one.        *)
THEOREM NobodyIsLeftOut ==
  ASSUME ~Sequential
  PROVE  Spec => []NobodyLeftOut
<1>1. Init => TypeInv /\ LeftOutInv
  BY TypeInvInit, LeftOutInvInit
<1>2. TypeInv /\ LeftOutInv /\ [Next]_vars => (TypeInv /\ LeftOutInv)'
  BY TypeInvNext, LeftOutInvNext
<1>3. LeftOutInv => NobodyLeftOut
  BY PresolversAssumption DEF LeftOutInv, ReachedInv, NobodyLeftOut, Called
<1> QED BY <1>1, <1>2, <1>3, PTL DEF Spec

-----------------------------------------------------------------------------
(* The loop cannot go on for ever                                           *)
(*                                                                          *)
(* Every step of apply() brings down one of a list of natural numbers and   *)
(* leaves those before it in the list as they are: the calls of apply()     *)
(* still to come, the potential of the problem, whether this round deleted  *)
(* something, the rounds that may move bounds only, the restarts of the     *)
(* classes, the classes harder than this one, the stage of the class, and   *)
(* the presolvers left in that stage.  A round that deleted is paid for     *)
(* with the potential, and a restart after success with one of the first    *)
(* four, so successful may be set again.                                    *)

CallsLeft == MaxApplies - applies
Deleted == IF delta.shrink THEN 1 ELSE 0
BoundRoundsLeft == MaxOnlyBound + 1 - onlyBound
Restarts == (IF rundelayed THEN 0 ELSE 1) + (IF successful THEN 1 ELSE 0)
ClassesLeft == IF round = "abort" THEN 0 ELSE 4 - ClassRank[round]

Stage ==
  CASE pc = "loop" -> 6
    [] pc \in {"run", "immediate"} -> 5
    [] pc = "apply" -> 4
    [] pc = "postponed" -> 3
    [] pc = "next" -> 2
    [] pc = "finish" -> 1
    [] OTHER -> 0

PresolversLeft ==
  CASE pc = "run" -> 2 * Cardinality(todo) + 1
    [] pc = "immediate" -> 2 * Cardinality(todo)
    [] pc = "apply" -> NP + 1 - turn
    [] OTHER -> 0

Down(now, was, further) == now < was \/ (now = was /\ further)

Descends ==
  Down(CallsLeft', CallsLeft,
  Down(size', size,
  Down(Deleted', Deleted,
  Down(BoundRoundsLeft', BoundRoundsLeft,
  Down(Restarts', Restarts,
  Down(ClassesLeft', ClassesLeft,
  Down(Stage', Stage, PresolversLeft' < PresolversLeft)))))))

(* The presolver whose result is applied at once is still on the list.      *)
TurnWaits == pc = "immediate" => turn \in todo

(* There are finitely many presolvers to run.                               *)
LEMMA TodoFinite == TypeOK => IsFiniteSet(todo) /\ Cardinality(todo) \in Nat
<1> SUFFICES ASSUME TypeOK PROVE IsFiniteSet(todo) /\ Cardinality(todo) \in Nat
  OBVIOUS
<1>1. IsFiniteSet(Presolvers)
  BY PresolversAssumption, FS_Interval DEF Presolvers
<1>2. IsFiniteSet(todo)
  BY <1>1, FS_Subset DEF TypeOK
<1> QED BY <1>2, FS_CardinalityType

(* The numbers are natural, so that they cannot come down for ever.         *)
LEMMA LeftNatural ==
  ASSUME TypeOK
  PROVE  /\ CallsLeft \in Nat /\ size \in Nat /\ Deleted \in Nat /\ BoundRoundsLeft \in Nat
         /\ Restarts \in Nat /\ ClassesLeft \in Nat /\ Stage \in Nat /\ PresolversLeft \in Nat
<1> USE PresolversAssumption, OptionsAssumption, BoundsAssumption
<1>1. CallsLeft \in Nat /\ size \in Nat /\ BoundRoundsLeft \in Nat
  BY DEF CallsLeft, BoundRoundsLeft, TypeOK
<1>2. Deleted \in Nat /\ Restarts \in Nat
  BY DEF Deleted, Restarts
<1>3. ClassesLeft \in Nat
  BY DEF ClassesLeft, ClassRank, TypeOK, Rounds, Classes
<1>4. Stage \in Nat
  BY DEF Stage
<1>5. NP + 1 - turn \in Nat
  BY DEF TypeOK
<1>6. PresolversLeft \in Nat
  BY <1>5, TodoFinite DEF PresolversLeft
<1> QED BY <1>1, <1>2, <1>3, <1>4, <1>6

(* Removing a presolver makes the list shorter.                             *)
LEMMA OneLess ==
  ASSUME TypeOK, NEW p \in todo
  PROVE  /\ Cardinality(todo \ {p}) = Cardinality(todo) - 1
         /\ Cardinality(todo \ {p}) \in Nat
<1>1. IsFiniteSet(todo) /\ IsFiniteSet(todo \ {p})
  BY TodoFinite, FS_RemoveElement
<1>2. Cardinality(todo \ {p}) = Cardinality(todo) - 1
  BY <1>1, FS_RemoveElement
<1> QED BY <1>1, <1>2, FS_CardinalityType

(* RunSequential picks a presolver that stays on the list until its result  *)
(* has been applied.                                                        *)
LEMMA TurnWaitsNext == TurnWaits /\ [Next]_vars => TurnWaits'
<1> SUFFICES ASSUME TurnWaits, [Next]_vars PROVE TurnWaits'
  OBVIOUS
<1> USE DEF TurnWaits
<1>1. CASE RunSequential
  BY <1>1 DEF RunSequential
<1>2. CASE UNCHANGED vars
  BY <1>2 DEF vars
<1>3. CASE \/ Apply \/ TrivialPresolve \/ SkipTrivialPresolve
  BY <1>3 DEF Apply, TrivialPresolve, SkipTrivialPresolve, LeaveLoop, StartClass, Return
<1>4. CASE RunParallel \/ ApplyImmediately
  BY <1>4 DEF RunParallel, ApplyImmediately
<1>5. CASE EvaluateInfeasible \/ EvaluateUnchanged \/ EvaluateReduced
  BY <1>5 DEF EvaluateInfeasible, EvaluateUnchanged, EvaluateReduced, Return
<1>6. CASE ApplyReductions \/ AllApplied
  BY <1>6 DEF ApplyReductions, AllApplied, Return
<1>7. CASE ApplySlices \/ RunAway \/ NextRound \/ Finish \/ UseNullCertificate
  BY <1>7 DEF ApplySlices, RunAway, NextRound, Finish, UseNullCertificate, Return
<1> QED BY <1>1, <1>2, <1>3, <1>4, <1>5, <1>6, <1>7 DEF Next, ApplyPostponed

(* What a step deletes comes off the potential; if it deletes nothing, the  *)
(* statistics of the round deleted as much as before.                       *)
LEMMA DeletingCosts ==
  ASSUME TypeOK, NEW nd \in 0..size, NEW moved \in BOOLEAN, Changes(nd, moved)
  PROVE  size' < size \/ (size' = size /\ Deleted' = Deleted)
<1>1. size \in Nat /\ size' = size - nd
  BY BoundsAssumption DEF TypeOK, Changes
<1>2. CASE nd = 0
  <2>1. delta'.shrink = (delta.shrink \/ nd > 0)
    BY DEF Changes
  <2>2. delta.shrink \in BOOLEAN /\ ~(nd > 0)
    BY <1>2 DEF TypeOK
  <2>3. delta'.shrink = delta.shrink
    BY <2>1, <2>2
  <2> QED BY <1>1, <1>2, <2>3 DEF Deleted
<1>3. CASE nd > 0
  BY <1>1, <1>3
<1> QED BY <1>2, <1>3

(* A step that stays within a class, and within a call.                     *)
LEMMA WithinClass ==
  ASSUME TypeOK, TypeOK',
         UNCHANGED <<applies, onlyBound, rundelayed, successful>>,
         size' < size \/ (size' = size /\ Deleted' = Deleted),
         round' \in {round, "abort"},
         Stage' < Stage \/ (Stage' = Stage /\ PresolversLeft' < PresolversLeft)
  PROVE  Descends
<1>1. CallsLeft' = CallsLeft /\ BoundRoundsLeft' = BoundRoundsLeft /\ Restarts' = Restarts
  BY DEF CallsLeft, BoundRoundsLeft, Restarts
<1>2. ClassesLeft' < ClassesLeft \/ ClassesLeft' = ClassesLeft
  BY LeftNatural DEF ClassesLeft
<1> QED BY <1>1, <1>2 DEF Descends, Down


(* The more is counted of a limit, the less is left.                        *)
LEMMA LessLeft ==
  ASSUME NEW limit \in Int, NEW m \in Int, NEW n \in Int, m <= n
  PROVE  limit + 1 - n <= limit + 1 - m
OBVIOUS

(* determine_next_round: what the round deleted or one of the rounds that   *)
(* may only move bounds is used up, or else a restart or a class.           *)
LEMMA NextRoundDescends ==
  ASSUME MaxOnlyBound >= 0, TypeOK, TypeOK', NEW unchanged \in BOOLEAN,
         DetermineNextRound(unchanged), round \in Classes,
         applies' = applies, size' = size, delta' = NoChange
  PROVE  Descends
<1> USE DEF Down
<1>1. CallsLeft' = CallsLeft /\ Deleted' = 0
  BY DEF CallsLeft, Deleted, NoChange
<1>2. /\ Deleted \in Nat /\ BoundRoundsLeft \in Nat /\ Restarts \in Nat /\ ClassesLeft \in Nat
      /\ onlyBound \in 0..(MaxOnlyBound + 1) /\ onlyBound' \in 0..(MaxOnlyBound + 1)
      /\ MaxOnlyBound \in Int
  BY LeftNatural, OptionsAssumption DEF TypeOK
<1>3. ASSUME Restarts' < Restarts \/ (Restarts' = Restarts /\ ClassesLeft' < ClassesLeft),
             BoundRoundsLeft' <= BoundRoundsLeft \/ Deleted = 1
      PROVE  Descends
  <2>1. Deleted' < Deleted \/ (Deleted' = Deleted /\ BoundRoundsLeft' <= BoundRoundsLeft)
    BY <1>1, <1>2, <1>3
  <2>2. BoundRoundsLeft' \in Int
    BY <1>2 DEF BoundRoundsLeft
  <2>3. BoundRoundsLeft' <= BoundRoundsLeft =>
          BoundRoundsLeft' < BoundRoundsLeft \/ BoundRoundsLeft' = BoundRoundsLeft
    BY <1>2, <2>2
  <2> QED BY <1>1, <1>3, <2>1, <2>3 DEF Descends
<1>4. ASSUME NEW red \in BOOLEAN, NextClass(red)
      PROVE  Restarts' < Restarts \/ (Restarts' = Restarts /\ ClassesLeft' < ClassesLeft)
  <2>1. CASE /\ round # "exhaustive" /\ round' = Harder[round]
             /\ UNCHANGED <<successful, rundelayed>>
    BY <2>1 DEF Restarts, ClassesLeft, ClassRank, Harder, Classes
  <2>2. CASE /\ ~rundelayed \/ successful
             /\ successful' = FALSE /\ rundelayed' = TRUE
    BY <2>2 DEF Restarts
  <2>3. CASE round' = "abort" /\ UNCHANGED <<successful, rundelayed>>
    BY <2>3 DEF Restarts, ClassesLeft, ClassRank, Classes
  <2> QED BY <1>4, <2>1, <2>2, <2>3 DEF NextClass
<1>5. CASE Stop
  <2>1. Restarts' = Restarts /\ BoundRoundsLeft' = BoundRoundsLeft
    BY <1>5 DEF Stop, flags, Restarts, BoundRoundsLeft
  <2>2. ClassesLeft' < ClassesLeft
    BY <1>5 DEF Stop, ClassesLeft, ClassRank, Classes
  <2> QED BY <1>2, <1>3, <2>1, <2>2
<1>6. CASE AfterUnchanged
  <2>1. NextClass(reduced) /\ reduced \in BOOLEAN /\ BoundRoundsLeft' = BoundRoundsLeft
    BY <1>6 DEF AfterUnchanged, BoundRoundsLeft, TypeOK
  <2> QED BY <1>2, <1>3, <1>4, <2>1 DEF TypeOK
<1>7. CASE AfterNegligible
  <2>1. NextClass(reduced') /\ reduced' \in BOOLEAN /\ onlyBound' = OnlyBoundNow
    BY <1>7 DEF AfterNegligible, TypeOK
  <2>2. ~delta.shrink => onlyBound <= onlyBound'
    BY <1>2, <2>1 DEF OnlyBoundNow, CountsOnlyBounds, UpTo
  <2>3. ASSUME ~delta.shrink PROVE BoundRoundsLeft' <= BoundRoundsLeft
    <3>1. onlyBound <= onlyBound' /\ onlyBound \in Int /\ onlyBound' \in Int
      BY <1>2, <2>2, <2>3
    <3>2. MaxOnlyBound \in Int
      BY <1>2
    <3>3. MaxOnlyBound + 1 - onlyBound' <= MaxOnlyBound + 1 - onlyBound
      BY <3>1, <3>2, LessLeft
    <3> QED BY <3>3 DEF BoundRoundsLeft
  <2> QED BY <1>3, <1>4, <2>1, <2>3 DEF Deleted
<1>8. CASE AfterSuccess
  <2>1. CASE delta.shrink
    BY <1>1, <2>1 DEF Descends, Deleted
  <2>2. CASE ~delta.shrink
    <3>1. CountsOnlyBounds /\ onlyBound' = OnlyBoundNow /\ ~(OnlyBoundNow > MaxOnlyBound)
      BY <1>8, <2>2 DEF AfterSuccess, CountsOnlyBounds, Negligible
    <3>2. onlyBound' = onlyBound + 1
      BY <1>2, <3>1 DEF OnlyBoundNow, UpTo
    <3>3. BoundRoundsLeft' < BoundRoundsLeft
      BY <1>2, <3>2 DEF BoundRoundsLeft
    <3>4. Deleted = 0
      BY <2>2 DEF Deleted
    <3> QED BY <1>1, <3>3, <3>4 DEF Descends
  <2> QED BY <2>1, <2>2
<1> QED BY <1>5, <1>6, <1>7, <1>8 DEF DetermineNextRound

(* Every action brings one of the numbers down.                             *)
LEMMA StepDescends ==
  ASSUME MaxOnlyBound >= 0, TypeInv, TypeInv', TurnWaits, Next
  PROVE  Descends
<1> USE DEF Stage
<1>1. TypeOK /\ TypeOK' /\ (pc \in Running => round \in Classes)
  BY DEF TypeInv, RunningClass
<1>2. CASE Apply
  <2>1. applies' = applies + 1 /\ applies \in Int /\ MaxApplies \in Int
    BY <1>1, <1>2, BoundsAssumption DEF Apply, TypeOK
  <2>2. CallsLeft' < CallsLeft
    BY <2>1 DEF CallsLeft
  <2> QED BY <2>2 DEF Descends, Down
(* Steps that leave the loop, or turn to the next stage of the class.       *)
<1>3. ASSUME UNCHANGED <<applies, onlyBound, rundelayed, successful>>,
             size' < size \/ (size' = size /\ Deleted' = Deleted),
             round' \in {round, "abort"}, Stage' < Stage
      PROVE  Descends
  BY <1>1, <1>3, WithinClass
<1>4. ASSUME delta' = delta, size' = size
      PROVE  size' < size \/ (size' = size /\ Deleted' = Deleted)
  BY <1>4 DEF Deleted
<1>5. CASE TrivialPresolve
  <2>1. PICK nd \in 0..size, moved \in BOOLEAN : Changes(nd, moved)
    BY <1>5 DEF TrivialPresolve
  <2>2. size' < size \/ (size' = size /\ Deleted' = Deleted)
    BY <1>1, <2>1, DeletingCosts
  <2>3. /\ pc = "loop" /\ pc' \in {"run", "finish", "returned"} /\ round' \in {round, "abort"}
        /\ UNCHANGED <<applies, onlyBound, rundelayed, successful>>
    BY <1>5 DEF TrivialPresolve, Return, LeaveLoop, StartClass, call
  <2>4. Stage' < Stage
    BY <2>3
  <2> QED BY <1>3, <2>2, <2>3, <2>4
<1>6. CASE SkipTrivialPresolve
  <2>1. /\ pc = "loop" /\ pc' \in {"run", "finish"} /\ round' \in {round, "abort"}
        /\ UNCHANGED <<applies, onlyBound, rundelayed, successful, size, delta>>
    BY <1>6 DEF SkipTrivialPresolve, LeaveLoop, StartClass, call, problem
  <2>2. Stage' < Stage
    BY <2>1
  <2> QED BY <1>3, <1>4, <2>1, <2>2
<1>7. CASE RunParallel
  <2>1. PICK p \in todo : todo' = todo \ {p}
    BY <1>7 DEF RunParallel
  <2>2. pc = "run" /\ UNCHANGED <<pc, applies, onlyBound, rundelayed, successful, round, size, delta>>
    BY <1>7 DEF RunParallel, flags, call, problem
  <2>3. Cardinality(todo') < Cardinality(todo) /\ Cardinality(todo) \in Nat /\ Cardinality(todo') \in Nat
    BY <1>1, <2>1, OneLess, TodoFinite
  <2>4. Stage' = Stage /\ PresolversLeft' < PresolversLeft
    BY <2>2, <2>3 DEF PresolversLeft
  <2> QED BY <1>1, <1>4, <2>2, <2>4, WithinClass
<1>8. CASE RunSequential
  <2>1. /\ pc = "run" /\ pc' = "immediate"
        /\ UNCHANGED <<todo, applies, onlyBound, rundelayed, successful, round, size, delta>>
    BY <1>8 DEF RunSequential, flags, call, problem
  <2>2. Stage' = Stage /\ PresolversLeft' < PresolversLeft
    BY <1>1, <2>1, TodoFinite DEF PresolversLeft
  <2> QED BY <1>1, <1>4, <2>1, <2>2, WithinClass
<1>9. CASE ApplyImmediately
  <2>1. PICK nd \in 0..size, moved \in BOOLEAN :
          Changes(nd, moved) /\ (todo' = {} \/ todo' = todo \ {turn})
    BY <1>9 DEF ApplyImmediately
  <2>2. size' < size \/ (size' = size /\ Deleted' = Deleted)
    BY <1>1, <2>1, DeletingCosts
  <2>3. /\ pc = "immediate" /\ pc' = "run" /\ turn \in todo
        /\ UNCHANGED <<applies, onlyBound, rundelayed, successful, round>>
    BY <1>9 DEF ApplyImmediately, flags, call, TurnWaits
  <2>4. /\ Cardinality(todo \ {turn}) = Cardinality(todo) - 1
        /\ Cardinality(todo \ {turn}) \in Nat /\ Cardinality(todo) \in Nat
    BY <1>1, <2>3, OneLess, TodoFinite
  <2>5. Cardinality({}) = 0
    BY FS_EmptySet
  <2>6. Cardinality(todo') < Cardinality(todo) /\ Cardinality(todo') \in Nat
    BY <2>1, <2>4, <2>5
  <2>7. Stage' = Stage /\ PresolversLeft' < PresolversLeft
    BY <2>3, <2>6, TodoFinite, <1>1 DEF PresolversLeft
  <2> QED BY <1>1, <2>2, <2>3, <2>7, WithinClass
<1>10. CASE EvaluateInfeasible
  <2>1. /\ pc = "run" /\ pc' = "returned"
        /\ UNCHANGED <<applies, onlyBound, rundelayed, successful, round, size, delta>>
    BY <1>10 DEF EvaluateInfeasible, ClassDone, Return, flags, call, problem
  <2> QED BY <1>3, <1>4, <2>1
<1>11. CASE EvaluateUnchanged
  <2>1. /\ pc = "run" /\ DetermineNextRound(TRUE)
        /\ applies' = applies /\ size' = size /\ delta' = NoChange
    BY <1>11 DEF EvaluateUnchanged, ClassDone, call
  <2> QED BY <1>1, <2>1, NextRoundDescends DEF Running
<1>12. CASE EvaluateReduced
  <2>1. /\ pc = "run" /\ pc' \in {"apply", "next"}
        /\ UNCHANGED <<applies, onlyBound, rundelayed, successful, round, size, delta>>
    BY <1>12 DEF EvaluateReduced, ClassDone, flags, call, problem
  <2>2. Stage' < Stage
    BY <2>1
  <2> QED BY <1>3, <1>4, <2>1, <2>2
<1>13. CASE ApplyReductions
  <2>1. PICK nd \in 0..size, moved \in BOOLEAN : Changes(nd, moved)
    BY <1>13 DEF ApplyReductions
  <2>2. size' < size \/ (size' = size /\ Deleted' = Deleted)
    BY <1>1, <2>1, DeletingCosts
  <2>3. /\ pc = "apply" /\ pc' = pc /\ turn' = turn + 1
        /\ UNCHANGED <<applies, onlyBound, rundelayed, successful, round>>
    BY <1>13 DEF ApplyReductions, flags, call
  <2>4. Stage' = Stage /\ PresolversLeft' < PresolversLeft
    <3>1. Stage' = Stage
      BY <2>3
    <3>2. turn \in Int /\ NP \in Nat
      BY <1>1, PresolversAssumption DEF TypeOK
    <3>3. PresolversLeft = NP + 1 - turn /\ PresolversLeft' = NP + 1 - turn'
      BY <2>3 DEF PresolversLeft
    <3> QED BY <2>3, <3>1, <3>2, <3>3
  <2> QED BY <1>1, <2>2, <2>3, <2>4, WithinClass
<1>14. CASE AllApplied
  <2>1. /\ pc = "apply" /\ pc' \in {"postponed", "returned"}
        /\ UNCHANGED <<applies, onlyBound, rundelayed, successful, round, size, delta>>
    BY <1>14 DEF AllApplied, Return, flags, call, problem
  <2>2. Stage' < Stage
    BY <2>1
  <2> QED BY <1>3, <1>4, <2>1, <2>2
<1>15. CASE ApplySlices
  <2>1. PICK nd \in 0..size, moved \in BOOLEAN : Changes(nd, moved)
    BY <1>15 DEF ApplySlices
  <2>2. size' < size \/ (size' = size /\ Deleted' = Deleted)
    BY <1>1, <2>1, DeletingCosts
  <2>3. /\ pc = "postponed" /\ pc' \in {"next", "returned"}
        /\ UNCHANGED <<applies, onlyBound, rundelayed, successful, round>>
    BY <1>15 DEF ApplySlices, Return, flags, call
  <2>4. Stage' < Stage
    BY <2>3
  <2> QED BY <1>3, <2>2, <2>3, <2>4
<1>16. CASE NextRound
  <2>1. /\ pc = "next" /\ DetermineNextRound(FALSE)
        /\ applies' = applies /\ size' = size /\ delta' = NoChange
    BY <1>16 DEF NextRound, call
  <2> QED BY <1>1, <2>1, NextRoundDescends DEF Running
<1>17. CASE Finish
  <2>1. /\ pc = "finish" /\ pc' = "returned"
        /\ UNCHANGED <<applies, onlyBound, rundelayed, successful, round, delta>>
    BY <1>17 DEF Finish, flags, call
  <2>2. PICK nd \in 0..size : size' = size - nd
    BY <1>17 DEF Finish
  <2>3. size' < size \/ (size' = size /\ Deleted' = Deleted)
    BY <1>1, <2>1, <2>2, BoundsAssumption DEF Deleted, TypeOK
  <2>4. Stage' < Stage
    BY <2>1
  <2> QED BY <1>3, <2>1, <2>3, <2>4
<1>18. CASE RunAway \/ UseNullCertificate
  <2>1. /\ pc \in PCs \ {"idle", "returned", "crashed"} /\ pc' = "crashed"
        /\ UNCHANGED <<applies, onlyBound, rundelayed, successful, round, size, delta>>
    BY <1>1, <1>18 DEF RunAway, UseNullCertificate, TypeOK, PCs, flags, call, problem
  <2>2. Stage' < Stage
    BY <2>1 DEF PCs
  <2> QED BY <1>3, <1>4, <2>1, <2>2
<1> QED BY <1>2, <1>5, <1>6, <1>7, <1>8, <1>9, <1>10, <1>11, <1>12, <1>13, <1>14, <1>15,
           <1>16, <1>17, <1>18 DEF Next, ApplyPostponed

(* With a limit on the consecutive rounds of only bound changes             *)
(* (presolve.max_consecutive_rounds_of_only_bound_changes, 500 by default)  *)
(* every step of apply() brings a list of natural numbers down in           *)
(* lexicographic order: it has no endless run, whatever the presolvers find *)
(* and however the loop restarts its classes.                               *)
THEOREM EveryStepDescends ==
  ASSUME MaxOnlyBound >= 0
  PROVE  Spec => [][Descends]_vars
<1>1. Init => TypeInv /\ TurnWaits
  BY TypeInvInit DEF Init, TurnWaits
<1>2. TypeInv /\ TurnWaits /\ [Next]_vars => (TypeInv /\ TurnWaits)'
  BY TypeInvNext, TurnWaitsNext
<1>3. TypeInv /\ TypeInv' /\ TurnWaits /\ [Next]_vars => [Descends]_vars
  BY StepDescends
<1> QED BY <1>1, <1>2, <1>3, PTL DEF Spec

=============================================================================
