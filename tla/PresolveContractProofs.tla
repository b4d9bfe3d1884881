------------------------- MODULE PresolveContractProofs -------------------------
(* Narrowing step by step is narrowing from the beginning.                   *)
EXTENDS PresolveContract, TLAPS

(* No answer has a best value only if there is none: a best value that is    *)
(* kept keeps solvable problems solvable.                                    *)
LEMMA NoBestNoAnswer ==
  ASSUME NEW S, Best(S) = Best({})
  PROVE  S = {}
BY DEF Best

(* Presolve::apply() followed by Postsolve::undo(): the contract on single   *)
(* steps makes the whole presolve exact, however many reductions it makes.   *)
THEOREM ContractDelivers == Spec => []Delivered
<1>1. Init => Delivered
  BY DEF Init, Delivered
<1>2. Delivered /\ [Next]_vars => Delivered'
  <2> SUFFICES ASSUME Delivered, [Next]_vars PROVE Delivered'
    OBVIOUS
  <2>1. CASE Narrow
    BY <2>1 DEF Narrow, Delivered
  <2>2. CASE GiveUp
    <3>1. AnswersTo(problem) = {}
      BY <2>2, NoBestNoAnswer DEF GiveUp, Delivered
    <3> QED
      BY <2>2, <3>1 DEF GiveUp, Delivered
  <2>3. CASE UNCHANGED vars
    BY <2>3 DEF vars, Delivered
  <2> QED
    BY <2>1, <2>2, <2>3 DEF Next
<1> QED
  BY <1>1, <1>2, PTL DEF Spec
===============================================================================
