----------------------------- MODULE MCMatrixStorage -----------------------------
EXTENDS MatrixStorage

(* Equations with coefficient 1 that meet in the middle column, rows with   *)
(* more and fewer entries, an empty row.                                    *)
SmallMatrices ==
  { <<<<1, 1, 0>>, <<0, 1, 1>>, <<1, 0, 2>>>>,
    <<<<1, 2, 1>>, <<1, 0, 1>>, <<0, 0, 0>>>>,
    <<<<1, 1, 1, 1>>, <<1, 2, 0, 0>>, <<1, 0, 0, 0>>, <<0, 0, 1, 0>>>> }
SmallValues == {0, -1}

(* Different in both orders, so that the two trees have different shapes.   *)
Hash == [order \in Orders |-> [r \in 1..4 |-> [c \in 1..4 |->
           (IF order = "row" THEN 7 * r + 5 * c ELSE 3 * r + 8 * c) % 11]]]
================================================================================
