--------------------------- MODULE MCParallelColSplit ---------------------------
(* Values in halves, from -2 to 2.                                           *)
EXTENDS ParallelColSplit

SmallScales == [integral |-> {-3, -2, -1, 1, 2, 3},
                continuous |-> {-2, -1, 1, 2},
                mixed |-> {-2, -1, 1, 2}]
LowUnits == -8
===============================================================================
