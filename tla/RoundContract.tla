----------------------------- MODULE RoundContract -----------------------------
(***************************************************************************)
(* PresolveRound as an implementation of PresolveContract.  Two history    *)
(* variables hold what an observer saw who looks before every step and,    *)
(* where nothing else happens, once more afterwards.                       *)
(***************************************************************************)
EXTENDS PresolveRound

VARIABLES
  seen,  \* answers the observer saw last
  told   \* verdict the observer saw last

Domain(p, c) == (IF c \in p.lbInf THEN -Window ELSE p.lb[c])..(IF c \in p.ubInf THEN Window ELSE p.ub[c])

(* Points of the columns left within the bounds and the rows in force; other *)
(* columns are 0, as Postsolve finds them.                                   *)
Points(p, On, left) ==
  LET Extend(X, c) == {[x EXCEPT ![c] = v] : x \in X, v \in Domain(p, c)}
  IN {x \in FoldLeft(Extend, {[c \in Cols |-> 0]}, Ascending(left)) : \A r \in DOMAIN On : Holds(p, r, On[r], x)}

AnswersTo(problem) == {[point |-> x, value |-> Value(problem, x)] : x \in Points(problem, AllRows, Cols)}

(* Every solution of the reduced problem, the best ones or not, carried back *)
(* by postsolve, with the objective value it has in the reduced problem.     *)
Answers ==
  LET s == Current
  IN IF verdict # "none" THEN {}
     ELSE {[point |-> Post!Undo(s.storage, x), value |-> s.offset + Value(s, x)] :
             x \in Points(s, RemainingRows(s), Active(s) \cup s.deletedCols)}

Observe == UNCHANGED vars

ObservedInit == Init /\ seen = AnswersTo(orig) /\ told = "none"
ObservedNext == (Next \/ Observe) /\ seen' = Answers /\ told' = verdict
ObservedSpec == ObservedInit /\ [][ObservedNext]_<<vars, seen, told>>

-----------------------------------------------------------------------------
Contract == INSTANCE PresolveContract WITH problem <- orig, answers <- seen, verdict <- told

(* Every step of presolve, in the middle of a round as well as between       *)
(* rounds, keeps the contract: each transaction applied to what the ones     *)
(* before left, each postponed one, each flush, each solved component only   *)
(* narrows what postsolve returns, and never loses the best value.           *)
ImplementsContract == Contract!Spec
================================================================================
