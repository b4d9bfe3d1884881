---------------------------- MODULE PresolveContract ----------------------------
(***************************************************************************)
(* What presolve and postsolve promise together, with no word on how.  An  *)
(* answer is a point of the original problem that postsolve can still be   *)
(* made to return, with the objective value presolve ascribes to it.       *)
(* Presolve may lose answers but never a best one, it gains none, and it   *)
(* calls a problem infeasible or unbounded only if there is no answer.     *)
(***************************************************************************)
EXTENDS Integers, FiniteSetsExt

CONSTANT AnswersTo(_)  \* the solutions of a problem with their objective values

VARIABLES
  problem,  \* the original problem
  answers,  \* what postsolve can still return
  verdict   \* "none", "infeasible" or "unbndOrInfeas"

vars == <<problem, answers, verdict>>

(* The best value, {} if there is no answer.                                *)
Best(S) == IF S = {} THEN {} ELSE {Min({s.value : s \in S})}

Init == answers = AnswersTo(problem) /\ verdict = "none"

Narrow ==
  /\ verdict = "none"
  /\ answers' \subseteq answers
  /\ Best(answers') = Best(answers)
  /\ UNCHANGED <<problem, verdict>>

GiveUp ==
  /\ verdict = "none" /\ answers = {}
  /\ verdict' \in {"infeasible", "unbndOrInfeas"}
  /\ UNCHANGED <<problem, answers>>

Next == Narrow \/ GiveUp

Spec == Init /\ [][Next]_vars

-----------------------------------------------------------------------------
(* What a user may rely on at the end: whatever postsolve returns solves the *)
(* original problem and has the value it is said to have, one of the best    *)
(* solutions can be returned, and no solvable problem is given up.           *)
Delivered ==
  /\ answers \subseteq AnswersTo(problem)
  /\ Best(answers) = Best(AnswersTo(problem))
  /\ verdict # "none" => AnswersTo(problem) = {}
===============================================================================
