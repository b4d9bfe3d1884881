---------------------------- MODULE MCDualRoundTrip ----------------------------
(***************************************************************************)
(* Linear programs of two rows and three columns for DualRoundTrip.        *)
(***************************************************************************)
EXTENDS DualRoundTrip

LP(lb, ub, obj, lhs, rhs, a) ==
  [rows |-> Rows, cols |-> Cols, lb |-> lb, ub |-> ub, obj |-> obj, lhs |-> lhs, rhs |-> rhs, a |-> a]

I == NoBound

MCProblems ==
  { \* parallel rows and columns, an equation that gives its column away
    LP(<<I, -2, 0>>, <<I, I, I>>, <<0, 2, 2>>, <<-2, -4>>, <<-2, I>>, <<<<-1, 1, 1>>, <<-1, 1, 1>>>>),
    LP(<<0, 0, 0>>, <<I, 2, 4>>, <<2, 2, 0>>, <<2, 2>>, <<I, I>>, <<<<1, 1, -1>>, <<1, 1, -1>>>>),
    LP(<<0, -2, I>>, <<I, 2, 2>>, <<0, 0, 2>>, <<-2, I>>, <<I, 0>>, <<<<1, -1, -1>>, <<1, 0, -1>>>>),
    LP(<<I, 0, 0>>, <<I, I, 2>>, <<0, -2, 0>>, <<-4, 0>>, <<I, 6>>, <<<<0, -1, -1>>, <<0, 1, 1>>>>),
    \* column singletons in an equation and in an inequality
    LP(<<-2, 0, 0>>, <<I, 4, 2>>, <<-2, 2, 0>>, <<6, I>>, <<6, 2>>, <<<<-1, 1, 1>>, <<0, -1, 1>>>>),
    LP(<<0, I, -2>>, <<4, 2, 2>>, <<2, -2, 2>>, <<-2, 2>>, <<2, 2>>, <<<<1, 0, -1>>, <<1, -1, 0>>>>),
    LP(<<-2, 0, 0>>, <<2, I, I>>, <<2, 0, 0>>, <<-2, -2>>, <<I, -2>>, <<<<-1, -1, 0>>, <<1, 0, -1>>>>),
    LP(<<-2, -2, I>>, <<2, I, 4>>, <<4, 2, -2>>, <<-2, I>>, <<-2, 6>>, <<<<-1, 0, 1>>, <<1, 1, 0>>>>),
    \* a singleton row
    LP(<<0, 0, 0>>, <<I, 2, I>>, <<0, 0, 2>>, <<2, 2>>, <<8, I>>, <<<<0, 0, 1>>, <<-1, -1, 1>>>>),
    \* a column fixed to infinity, in one row and in two
    LP(<<0, -2, I>>, <<2, I, 4>>, <<2, 2, 0>>, <<I, I>>, <<0, 4>>, <<<<1, 0, 1>>, <<1, 1, 1>>>>),
    LP(<<0, I, I>>, <<4, 2, I>>, <<2, 0, 0>>, <<I, I>>, <<-2, 0>>, <<<<-1, 1, 1>>, <<1, -1, 0>>>>),
    LP(<<0, 0, I>>, <<2, 2, I>>, <<2, -2, 0>>, <<4, 2>>, <<I, I>>, <<<<1, 1, 1>>, <<0, 1, 1>>>>),
    LP(<<-2, 0, I>>, <<I, I, I>>, <<2, 4, 0>>, <<2, 0>>, <<I, 0>>, <<<<1, 1, 1>>, <<1, 1, 0>>>>),
    LP(<<0, -2, 0>>, <<I, 2, 2>>, <<0, 0, 2>>, <<2, I>>, <<I, 0>>, <<<<1, -1, 0>>, <<0, 1, -1>>>>),
    \* bounds that cross: by a singleton row, by propagation, from the beginning
    LP(<<0, 0, 0>>, <<2, 2, I>>, <<0, 2, 2>>, <<4, 2>>, <<4, I>>, <<<<1, 0, 0>>, <<1, 1, 1>>>>),
    LP(<<0, 0, 0>>, <<2, 2, 2>>, <<2, 2, -2>>, <<6, I>>, <<I, 4>>, <<<<1, 1, 0>>, <<1, 1, 1>>>>),
    LP(<<2, 0, 0>>, <<0, 2, 2>>, <<2, 2, 2>>, <<2, I>>, <<I, 4>>, <<<<1, 1, 0>>, <<1, 1, 1>>>>) }
==============================================================================
