--------------------------- MODULE MCPresolveDriver ---------------------------
(* Small instances of the presolving loop: one presolver or two per class,   *)
(* the exhaustive one delayed and skipping itself as Sparsify is and does.   *)
EXTENDS PresolveDriver

Unlimited == -1
TimingFour == <<"fast", "fast", "medium", "exhaustive">>
TimingTwo == <<"fast", "exhaustive">>

=============================================================================
