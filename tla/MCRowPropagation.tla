---------------------------- MODULE MCRowPropagation ----------------------------
(* Small rows for TLC: coefficients of both signs and sizes 1 and 2.         *)
EXTENDS RowPropagation

CoefValues == {-2, 1}
LbValues == {-1, 0}
UbValues == {1, 2}
SideValues == {-1, 1, 2}
===============================================================================
