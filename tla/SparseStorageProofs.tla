-------------------------- MODULE SparseStorageProofs --------------------------
(***************************************************************************)
(* Making room in a row storage (shiftRows, core/SparseStorage.hpp:702-907)*)
(* moves rows within the one array, for any number of rows, any sizes and  *)
(* any spare room between them: no row ever reaches into another one or    *)
(* loses an entry, and where the answer is yes every row asked for has its *)
(* room at the end, those served first as well as those served last.       *)
(***************************************************************************)
EXTENDS SparseStorage, FiniteSums, SequenceTheorems

(* What can be reached from 0 in n single steps                             *)
LEMMA CountUp ==
  ASSUME NEW n \in Nat, NEW G, 0 \in G, \A k \in 0..n - 1 : k \in G => k + 1 \in G
  PROVE  n \in G
<1> DEFINE S == 1..n
           Good == {T \in SUBSET S : \A k \in 0..n : T = 1..k => k \in G}
<1>1. IsFiniteSet(S)
  BY FS_Interval
<1>2. ASSUME NEW T \in SUBSET S, \A U \in SUBSET T : U # T => U \in Good
      PROVE  T \in Good
  <2> SUFFICES ASSUME NEW k \in 0..n, T = 1..k, k # 0
               PROVE  k \in G
    OBVIOUS
  <2>1. 1..(k - 1) \in SUBSET T /\ 1..(k - 1) # T
    <3>1. k \in T /\ k \notin 1..(k - 1)
      OBVIOUS
    <3>2. 1..(k - 1) \subseteq T
      OBVIOUS
    <3> QED BY <3>1, <3>2
  <2>2. 1..(k - 1) \in Good
    BY <1>2, <2>1
  <2>3. k - 1 \in G
    BY <2>2
  <2> QED BY <2>3
<1> HIDE DEF Good, S
<1>3. S \in Good
  BY <1>1, <1>2, SubsetInduction
<1> QED BY <1>3 DEF Good, S

-----------------------------------------------------------------------------
(* The entries in a range of rows                                           *)

(* The rows of a range with whole numbers as their ends                     *)
Sized(st, lo, hi) == \A k \in lo..hi : st.start[k] \in Int /\ st.end[k] \in Int

(* No row, no entry.                                                        *)
LEMMA FilledNone ==
  ASSUME NEW st, NEW lo \in Int, NEW hi \in Int, hi < lo
  PROVE  Filled(st, lo, hi) = 0
<1>1. lo..hi = {}
  OBVIOUS
<1> QED BY <1>1, SumEmpty DEF Filled

(* One more row adds its size.                                              *)
LEMMA FilledNext ==
  ASSUME NEW st, NEW lo \in Int, NEW hi \in Int, lo <= hi + 1, Sized(st, lo, hi + 1)
  PROVE  Filled(st, lo, hi + 1) = Filled(st, lo, hi) + Size(st, hi + 1)
<1> DEFINE f == [k \in lo..(hi + 1) |-> Size(st, k)]
           g == [k \in lo..hi |-> Size(st, k)]
<1>1. IsFiniteSet(lo..(hi + 1)) /\ IsFiniteSet(lo..hi)
  BY FS_Interval
<1>2. hi + 1 \in lo..(hi + 1) /\ \A k \in lo..(hi + 1) : f[k] \in Int
  BY DEF Sized, Size
<1>3. (lo..(hi + 1)) \ {hi + 1} = lo..hi
  OBVIOUS
<1>4. SumFunctionOnSet(f, lo..(hi + 1)) = f[hi + 1] + SumFunctionOnSet(f, lo..hi)
  <2> DEFINE S == lo..(hi + 1)
             c == hi + 1
  <2>1. IsFiniteSet(S) /\ c \in S /\ \A k \in S : f[k] \in Int
    BY <1>1, <1>2
  <2> HIDE DEF f, S, c
  <2>2. SumFunctionOnSet(f, S) = f[c] + SumFunctionOnSet(f, S \ {c})
    BY <2>1, SumRemove
  <2> QED BY <1>3, <2>2 DEF S, c
<1>5. SumFunctionOnSet(f, lo..hi) = SumFunctionOnSet(g, lo..hi)
  <2>1. \A k \in lo..hi : f[k] = g[k]
    OBVIOUS
  <2> HIDE DEF f, g
  <2> QED BY <1>1, <2>1, SumEqual
<1>6. SumFunctionOnSet(g, lo..hi) \in Int
  <2>1. \A k \in lo..hi : g[k] \in Int
    BY DEF Sized, Size
  <2> HIDE DEF g
  <2> QED BY <1>1, <2>1, SumInt
<1>7. f[hi + 1] = Size(st, hi + 1) /\ f[hi + 1] \in Int
  BY <1>2
<1>8. Filled(st, lo, hi + 1) = SumFunctionOnSet(f, lo..(hi + 1)) /\ Filled(st, lo, hi) = SumFunctionOnSet(g, lo..hi)
  BY DEF Filled
<1> HIDE DEF f, g
<1> QED BY <1>4, <1>5, <1>6, <1>7, <1>8

(* It is a whole number.                                                    *)
LEMMA FilledInt ==
  ASSUME NEW st, NEW lo \in Int, NEW hi \in Int, Sized(st, lo, hi)
  PROVE  Filled(st, lo, hi) \in Int
<1> DEFINE g == [k \in lo..hi |-> Size(st, k)]
<1>1. IsFiniteSet(lo..hi)
  BY FS_Interval
<1>2. \A k \in lo..hi : g[k] \in Int
  BY DEF Sized, Size
<1>3. Filled(st, lo, hi) = SumFunctionOnSet(g, lo..hi)
  BY DEF Filled
<1> HIDE DEF g
<1> QED BY <1>1, <1>2, <1>3, SumInt

(* A range of rows may be cut anywhere.                                     *)
LEMMA FilledSplit ==
  ASSUME NEW st, NEW lo \in Int, NEW hi \in Int, NEW m \in Int, lo <= m, m <= hi + 1, Sized(st, lo, hi)
  PROVE  /\ Filled(st, lo, hi) = Filled(st, lo, m - 1) + Filled(st, m, hi)
         /\ Filled(st, lo, m - 1) \in Int /\ Filled(st, m, hi) \in Int
<1> DEFINE n == hi + 1 - m
           G == {k \in 0..n : Filled(st, lo, m + k - 1) = Filled(st, lo, m - 1) + Filled(st, m, m + k - 1)}
<1>1. Filled(st, lo, m - 1) \in Int
  BY FilledInt DEF Sized
<1>2. 0 \in G
  BY <1>1, FilledNone
<1>3. ASSUME NEW k \in 0..n - 1, k \in G
      PROVE  k + 1 \in G
  <2>1. Sized(st, lo, m + k - 1 + 1) /\ Sized(st, m, m + k - 1 + 1) /\ Sized(st, m, m + k - 1)
    BY DEF Sized
  <2>2. Filled(st, lo, m + k - 1 + 1) = Filled(st, lo, m + k - 1) + Size(st, m + k - 1 + 1)
    BY <2>1, FilledNext
  <2>3. Filled(st, m, m + k - 1 + 1) = Filled(st, m, m + k - 1) + Size(st, m + k - 1 + 1)
    BY <2>1, FilledNext
  <2>4. Filled(st, m, m + k - 1) \in Int /\ Size(st, m + k - 1 + 1) \in Int
    BY <2>1, FilledInt DEF Sized, Size
  <2>5. m + k - 1 + 1 = m + (k + 1) - 1
    OBVIOUS
  <2> QED BY <1>1, <1>3, <2>2, <2>3, <2>4, <2>5
<1>4. n \in G
  <2>1. n \in Nat
    OBVIOUS
  <2> HIDE DEF G, n
  <2> QED BY <1>2, <1>3, <2>1, CountUp
<1>5. m + n - 1 = hi
  OBVIOUS
<1>6. Filled(st, m, hi) \in Int
  BY FilledInt DEF Sized
<1> QED BY <1>1, <1>4, <1>5, <1>6

(* The first row adds its size.                                             *)
LEMMA FilledFirst ==
  ASSUME NEW st, NEW lo \in Int, NEW hi \in Int, lo <= hi, Sized(st, lo, hi)
  PROVE  Filled(st, lo, hi) = Size(st, lo) + Filled(st, lo + 1, hi)
<1>1. Sized(st, lo, lo - 1 + 1)
  BY DEF Sized
<1>2. Filled(st, lo, lo - 1 + 1) = Filled(st, lo, lo - 1) + Size(st, lo - 1 + 1)
  BY <1>1, FilledNext
<1>3. Filled(st, lo, lo - 1) = 0
  BY FilledNone
<1>4. Filled(st, lo, hi) = Filled(st, lo, lo + 1 - 1) + Filled(st, lo + 1, hi)
  BY FilledSplit
<1>5. lo - 1 + 1 = lo /\ lo + 1 - 1 = lo /\ Size(st, lo) \in Int
  BY DEF Sized, Size
<1> QED BY <1>2, <1>3, <1>4, <1>5

(* Rows that follow each other fit between the first start and the last end;*)
(* without gaps they fill it.                                               *)
LEMMA FilledWithin ==
  ASSUME NEW st, NEW lo \in Int, NEW hi \in Int, lo <= hi, Sized(st, lo, hi),
         \A k \in lo..hi : st.start[k] <= st.end[k],
         \A k \in lo..(hi - 1) : st.end[k] <= st.start[k + 1]
  PROVE  /\ 0 <= Filled(st, lo, hi) /\ Filled(st, lo, hi) <= st.end[hi] - st.start[lo]
         /\ (\A k \in (lo + 1)..hi : ~GapBefore(st, k)) => Filled(st, lo, hi) = st.end[hi] - st.start[lo]
<1> DEFINE n == hi - lo
           F(k) == Filled(st, lo, lo + k)
           W(k) == st.end[lo + k] - st.start[lo]
           G == {k \in 0..n : /\ 0 <= F(k) /\ F(k) <= W(k)
                              /\ (\A j \in (lo + 1)..(lo + k) : ~GapBefore(st, j)) => F(k) = W(k)}
<1>1. Sized(st, lo, lo - 1 + 1)
  BY DEF Sized
<1>2. Filled(st, lo, lo - 1 + 1) = Filled(st, lo, lo - 1) + Size(st, lo - 1 + 1)
  BY <1>1, FilledNext
<1>3. Filled(st, lo, lo - 1) = 0
  BY FilledNone
<1>4. F(0) = Size(st, lo) /\ st.start[lo] \in Int /\ st.end[lo] \in Int /\ lo - 1 + 1 = lo /\ lo + 0 = lo
  <2>1. lo - 1 + 1 = lo /\ lo + 0 = lo /\ st.start[lo] \in Int /\ st.end[lo] \in Int
    BY DEF Sized
  <2> QED BY <1>2, <1>3, <2>1 DEF Size
<1>5. 0 \in G
  BY <1>4 DEF Size
<1>6. ASSUME NEW k \in 0..n - 1, k \in G
      PROVE  k + 1 \in G
  <2>1. Sized(st, lo, lo + k + 1) /\ Sized(st, lo, lo + k)
    BY DEF Sized
  <2>2. Filled(st, lo, lo + k + 1) = F(k) + Size(st, lo + k + 1)
    BY <2>1, FilledNext
  <2>3. F(k) \in Int
    BY <2>1, FilledInt
  <2>4. /\ st.start[lo] \in Int /\ st.start[lo + k + 1] \in Int /\ st.end[lo + k + 1] \in Int /\ st.end[lo + k] \in Int
        /\ st.start[lo + k + 1] <= st.end[lo + k + 1] /\ st.end[lo + k] <= st.start[lo + k + 1]
        /\ lo + (k + 1) = lo + k + 1
    BY DEF Sized
  <2>5. Size(st, lo + k + 1) = st.end[lo + k + 1] - st.start[lo + k + 1]
    BY DEF Size
  <2>6. 0 <= F(k + 1) /\ F(k + 1) <= W(k + 1)
    BY <1>6, <2>2, <2>3, <2>4, <2>5
  <2>7. ASSUME \A j \in (lo + 1)..(lo + (k + 1)) : ~GapBefore(st, j)
        PROVE  F(k + 1) = W(k + 1)
    <3>1. F(k) = W(k)
      BY <1>6, <2>7
    <3>2. lo + k + 1 \in (lo + 1)..(lo + (k + 1)) /\ lo + k + 1 - 1 = lo + k
      OBVIOUS
    <3>3. st.start[lo + k + 1] = st.end[lo + k]
      BY <2>7, <3>2 DEF GapBefore
    <3> QED BY <2>2, <2>3, <2>4, <2>5, <3>1, <3>3
  <2> QED BY <2>6, <2>7
<1>7. n \in G
  <2>1. n \in Nat
    OBVIOUS
  <2> HIDE DEF G, n
  <2> QED BY <1>5, <1>6, <2>1, CountUp
<1>8. lo + n = hi
  OBVIOUS
<1> QED BY <1>7, <1>8

-----------------------------------------------------------------------------
(* Storages whose rows lie one behind the other                             *)

Storages ==
  [start : Seq(Int), end : Seq(Int), cell : Seq([col : Nat, val : Int]),
   width : Nat, nnz : Int, ratio : Nat, space : Nat]

WellLaid(st) ==
  /\ st \in Storages
  /\ Len(st.start) # 0 /\ Len(st.end) = Len(st.start) /\ st.start[1] >= 1
  /\ Ordered(st)

(* What that says of the rows                                               *)
LEMMA LaidFacts ==
  ASSUME NEW st, WellLaid(st)
  PROVE  /\ NRowsOf(st) \in Nat /\ RowsOf(st) = 1..NRowsOf(st)
         /\ DOMAIN st.start = 1..(NRowsOf(st) + 1) /\ DOMAIN st.end = 1..(NRowsOf(st) + 1)
         /\ Len(st.cell) \in Nat /\ DOMAIN st.cell = 1..Len(st.cell)
         /\ st.start[NRowsOf(st) + 1] <= Len(st.cell) + 1
         /\ \A k \in 1..(NRowsOf(st) + 1) : st.start[k] \in Int /\ st.end[k] \in Int
         /\ \A k \in RowsOf(st) : /\ st.start[k] <= st.end[k] /\ st.end[k] <= st.start[k + 1]
                                  /\ Size(st, k) \in Nat
<1>1. st.start \in Seq(Int) /\ st.end \in Seq(Int) /\ st.cell \in Seq([col : Nat, val : Int])
  BY DEF WellLaid, Storages
<1>2. Len(st.start) \in Nat /\ Len(st.start) # 0 /\ Len(st.end) = Len(st.start)
  BY <1>1 DEF WellLaid
<1>3. NRowsOf(st) = Len(st.start) - 1 /\ RowsOf(st) = 1..NRowsOf(st)
  BY DEF NRowsOf, RowsOf
<1>4. /\ DOMAIN st.start = 1..(NRowsOf(st) + 1) /\ DOMAIN st.end = 1..(NRowsOf(st) + 1) /\ NRowsOf(st) \in Nat
      /\ \A k \in 1..(NRowsOf(st) + 1) : st.start[k] \in Int /\ st.end[k] \in Int
  BY <1>1, <1>2, <1>3
<1>5. /\ st.start[NRowsOf(st) + 1] <= Len(st.cell) + 1
      /\ \A k \in RowsOf(st) : st.start[k] <= st.end[k] /\ st.end[k] <= st.start[k + 1]
  BY DEF WellLaid, Ordered
<1>6. \A k \in RowsOf(st) : Size(st, k) \in Nat
  <2> SUFFICES ASSUME NEW k \in RowsOf(st) PROVE Size(st, k) \in Nat
    OBVIOUS
  <2>1. k \in 1..(NRowsOf(st) + 1) /\ st.start[k] <= st.end[k]
    BY <1>3, <1>4, <1>5
  <2>2. st.start[k] \in Int /\ st.end[k] \in Int
    BY <1>4, <2>1
  <2> QED BY <2>1, <2>2 DEF Size
<1> QED BY <1>1, <1>3, <1>4, <1>5, <1>6

(* The entries of a range of rows fit into it.                              *)
LEMMA FilledInside ==
  ASSUME NEW st, WellLaid(st), NEW lo \in Int, NEW hi \in Int, 1 <= lo, hi <= NRowsOf(st), lo <= hi + 1
  PROVE  /\ Sized(st, lo, hi) /\ Filled(st, lo, hi) \in Nat
         /\ lo <= hi => /\ Filled(st, lo, hi) <= st.end[hi] - st.start[lo]
                        /\ (\A k \in (lo + 1)..hi : ~GapBefore(st, k)) => Filled(st, lo, hi) = st.end[hi] - st.start[lo]
<1>1. Sized(st, lo, hi)
  BY LaidFacts DEF Sized
<1>2. Filled(st, lo, hi) \in Int
  BY <1>1, FilledInt
<1>3. CASE lo <= hi
  <2>1. /\ \A k \in lo..hi : st.start[k] <= st.end[k]
        /\ \A k \in lo..(hi - 1) : st.end[k] <= st.start[k + 1]
    <3>1. \A k \in lo..hi : k \in RowsOf(st)
      BY LaidFacts
    <3>2. \A k \in lo..(hi - 1) : k \in lo..hi
      OBVIOUS
    <3> QED BY <3>1, <3>2, LaidFacts
  <2> QED BY <1>1, <1>2, <1>3, <2>1, FilledWithin
<1>4. CASE hi < lo
  BY <1>1, <1>4, FilledNone
<1> QED BY <1>3, <1>4

(* Two rows do not meet.                                                    *)
LEMMA Apart ==
  ASSUME NEW st, WellLaid(st), NEW j \in RowsOf(st), NEW k \in 1..(NRowsOf(st) + 1), j < k
  PROVE  st.end[j] <= st.start[k]
<1>1. /\ NRowsOf(st) \in Nat /\ RowsOf(st) = 1..NRowsOf(st)
      /\ \A i \in 1..(NRowsOf(st) + 1) : st.start[i] \in Int /\ st.end[i] \in Int
      /\ \A i \in RowsOf(st) : st.start[i] <= st.end[i] /\ st.end[i] <= st.start[i + 1]
  BY LaidFacts
<1>2. CASE k = j + 1
  BY <1>1, <1>2
<1>3. CASE k # j + 1
  <2>1. j + 1 \in Int /\ k - 1 \in Int /\ 1 <= j + 1 /\ k - 1 <= NRowsOf(st) /\ j + 1 <= k - 1 /\ j \in Int
    BY <1>1, <1>3
  <2>2. Filled(st, j + 1, k - 1) \in Nat /\ Filled(st, j + 1, k - 1) <= st.end[k - 1] - st.start[j + 1]
    BY <2>1, FilledInside
  <2>3. st.end[j] <= st.start[j + 1] /\ st.end[k - 1] <= st.start[k - 1 + 1] /\ k - 1 + 1 = k
    BY <1>1, <2>1
  <2>4. st.end[j] \in Int /\ st.start[j + 1] \in Int /\ st.end[k - 1] \in Int /\ st.start[k] \in Int
    BY <1>1, <2>1
  <2> QED BY <2>2, <2>3, <2>4
<1> QED BY <1>2, <1>3

(* The rows lie in the array.                                               *)
LEMMA InArray ==
  ASSUME NEW st, WellLaid(st), NEW r \in RowsOf(st)
  PROVE  1 <= st.start[r] /\ st.end[r] <= Len(st.cell) + 1
<1>1. /\ NRowsOf(st) \in Nat /\ RowsOf(st) = 1..NRowsOf(st) /\ Len(st.cell) \in Nat
      /\ \A i \in 1..(NRowsOf(st) + 1) : st.start[i] \in Int /\ st.end[i] \in Int
      /\ \A i \in RowsOf(st) : st.start[i] <= st.end[i] /\ st.end[i] <= st.start[i + 1]
      /\ st.start[NRowsOf(st) + 1] <= Len(st.cell) + 1
  BY LaidFacts
<1>2. 1 <= st.start[1]
  BY <1>1 DEF WellLaid
<1>3. st.end[r] <= st.start[NRowsOf(st) + 1]
  <2>1. NRowsOf(st) + 1 \in 1..(NRowsOf(st) + 1) /\ r < NRowsOf(st) + 1
    BY <1>1
  <2> QED BY <2>1, Apart
<1>4. 1 \in RowsOf(st) /\ (1 < r => st.end[1] <= st.start[r])
  <2>1. 1 \in RowsOf(st) /\ r \in 1..(NRowsOf(st) + 1)
    BY <1>1
  <2> QED BY <2>1, Apart
<1>5. r = 1 \/ 1 < r
  BY <1>1
<1>6. st.start[1] \in Int /\ st.end[1] \in Int /\ st.start[r] \in Int /\ st.end[r] \in Int /\ st.start[NRowsOf(st) + 1] \in Int
  <2>1. 1 \in 1..(NRowsOf(st) + 1) /\ r \in 1..(NRowsOf(st) + 1) /\ NRowsOf(st) + 1 \in 1..(NRowsOf(st) + 1)
    BY <1>1
  <2> QED BY <1>1, <2>1
<1>7. st.start[1] <= st.end[1] /\ st.start[NRowsOf(st) + 1] <= Len(st.cell) + 1
  BY <1>1, <1>4
<1>8. 1 <= st.start[r]
  BY <1>2, <1>4, <1>5, <1>6, <1>7
<1>9. st.end[r] <= Len(st.cell) + 1
  BY <1>1, <1>3, <1>6, <1>7
<1> QED BY <1>8, <1>9

(* Two rows with the same values in their cells have the same entries.      *)
LEMMA SameEntries ==
  ASSUME NEW st, WellLaid(st), NEW new, WellLaid(new), NEW r \in RowsOf(st), r \in RowsOf(new),
         Size(new, r) = Size(st, r),
         \A i \in 0..(Size(st, r) - 1) : new.cell[new.start[r] + i] = st.cell[st.start[r] + i]
  PROVE  Entries(new, r) = Entries(st, r)
<1>1. /\ st.start[r] \in Int /\ st.end[r] \in Int /\ new.start[r] \in Int /\ new.end[r] \in Int
      /\ Size(st, r) \in Nat /\ r \in Int
  BY LaidFacts
<1>2. st.end[r] = st.start[r] + Size(st, r) /\ new.end[r] = new.start[r] + Size(st, r)
  BY <1>1 DEF Size
<1> DEFINE V == [col : Nat, val : Int]
           old == Entries(st, r)
           own == Entries(new, r)
           size == Size(st, r)
<1>3. old \in Seq(V) /\ Len(old) = size /\ \A i \in 1..size : old[i] = st.cell[st.start[r] + i - 1]
  <2>1. \A p \in st.start[r]..(st.end[r] - 1) : st.cell[p] \in V
    <3>1. 1 <= st.start[r] /\ st.end[r] <= Len(st.cell) + 1 /\ Len(st.cell) \in Nat /\ st.cell \in Seq(V)
      BY InArray, LaidFacts DEF WellLaid, Storages
    <3> HIDE DEF V
    <3>2. \A p \in st.start[r]..(st.end[r] - 1) : p \in 1..Len(st.cell)
      BY <1>1, <3>1
    <3> QED BY <3>1, <3>2
  <2> HIDE DEF V
  <2>2. /\ SubSeq(st.cell, st.start[r], st.end[r] - 1) \in Seq(V)
        /\ Len(SubSeq(st.cell, st.start[r], st.end[r] - 1)) = IF st.start[r] <= st.end[r] - 1 THEN st.end[r] - 1 - st.start[r] + 1 ELSE 0
        /\ \A i \in 1..(st.end[r] - 1 - st.start[r] + 1) :
             SubSeq(st.cell, st.start[r], st.end[r] - 1)[i] = st.cell[st.start[r] + i - 1]
    BY <1>1, <2>1, SubSeqProperties
  <2> QED BY <1>1, <1>2, <2>2 DEF Entries
<1>4. own \in Seq(V) /\ Len(own) = size /\ \A i \in 1..size : own[i] = new.cell[new.start[r] + i - 1]
  <2>1. \A p \in new.start[r]..(new.end[r] - 1) : new.cell[p] \in V
    <3>1. 1 <= new.start[r] /\ new.end[r] <= Len(new.cell) + 1 /\ Len(new.cell) \in Nat /\ new.cell \in Seq(V)
      BY InArray, LaidFacts DEF WellLaid, Storages
    <3> HIDE DEF V
    <3>2. \A p \in new.start[r]..(new.end[r] - 1) : p \in 1..Len(new.cell)
      BY <1>1, <3>1
    <3> QED BY <3>1, <3>2
  <2> HIDE DEF V
  <2>2. /\ SubSeq(new.cell, new.start[r], new.end[r] - 1) \in Seq(V)
        /\ Len(SubSeq(new.cell, new.start[r], new.end[r] - 1)) = IF new.start[r] <= new.end[r] - 1 THEN new.end[r] - 1 - new.start[r] + 1 ELSE 0
        /\ \A i \in 1..(new.end[r] - 1 - new.start[r] + 1) :
             SubSeq(new.cell, new.start[r], new.end[r] - 1)[i] = new.cell[new.start[r] + i - 1]
    BY <1>1, <2>1, SubSeqProperties
  <2> QED BY <1>1, <1>2, <2>2 DEF Entries
<1>5. \A i \in 1..size : own[i] = old[i]
  <2> SUFFICES ASSUME NEW i \in 1..size PROVE own[i] = old[i]
    OBVIOUS
  <2>1. new.cell[new.start[r] + (i - 1)] = st.cell[st.start[r] + (i - 1)] /\ i - 1 \in 0..(size - 1)
    BY <1>1
  <2>2. new.start[r] + (i - 1) = new.start[r] + i - 1 /\ st.start[r] + (i - 1) = st.start[r] + i - 1
    BY <1>1
  <2> QED BY <1>3, <1>4, <2>1, <2>2
<1> HIDE DEF own, old, size, V
<1>6. own = old
  BY <1>1, <1>3, <1>4, <1>5
<1> QED BY <1>6 DEF own, old

-----------------------------------------------------------------------------
(* Moving rows within the array                                             *)

(* The rows are moved one after the other.                                  *)
Moving(f, st, order, to) ==
  /\ f[0] = st.cell
  /\ \A i \in 1..Len(order) :
       f[i] = MovedRange(f[i - 1], st.start[order[i]], to[order[i]], Size(st, order[i]))
  /\ MovedRows(st, order, to) = f[Len(order)]

LEMMA MovedRowsRuns ==
  ASSUME NEW st, NEW order, Len(order) \in Nat, NEW to
  PROVE  \E f : Moving(f, st, order, to)
<1> DEFINE n == Len(order)
           Next(f, i) == IF i = 0 THEN st.cell
                         ELSE MovedRange(f[i - 1], st.start[order[i]], to[order[i]], Size(st, order[i]))
           Runs(f, m) == f = [i \in 0..m |-> Next(f, i)]
           G == {m \in 0..n : \E f : Runs(f, m)}
<1>1. \A f, i : /\ Next(f, 0) = st.cell
                /\ i # 0 => Next(f, i) = MovedRange(f[i - 1], st.start[order[i]], to[order[i]], Size(st, order[i]))
  OBVIOUS
<1>2. \A f, g, i : (i # 0 => f[i - 1] = g[i - 1]) => Next(f, i) = Next(g, i)
  OBVIOUS
<1>3. MovedRows(st, order, to) = (CHOOSE f : Runs(f, n))[n]
  BY DEF MovedRows
<1> HIDE DEF Next
<1>4. 0 \in G
  <2> DEFINE f == [i \in 0..0 |-> st.cell]
  <2>1. \A i \in 0..0 : Next(f, i) = st.cell
    <3> HIDE DEF f
    <3> QED BY <1>1
  <2>2. Runs(f, 0)
    BY <2>1
  <2>3. 0 \in 0..n
    OBVIOUS
  <2> HIDE DEF Runs, f, n
  <2> QED BY <2>2, <2>3
<1>5. ASSUME NEW m \in 0..n - 1, m \in G
      PROVE  m + 1 \in G
  <2>1. PICK f : Runs(f, m)
    BY <1>5
  <2> DEFINE g == [i \in 0..(m + 1) |-> Next(f, i)]
  <2>2. \A i \in 0..m : g[i] = f[i]
    BY <2>1
  <2>3. \A i \in 0..(m + 1) : i = 0 \/ i - 1 \in 0..m
    OBVIOUS
  <2>4. \A i \in 0..(m + 1) : Next(f, i) = Next(g, i)
    <3> HIDE DEF g
    <3> QED BY <1>2, <2>2, <2>3
  <2>5. Runs(g, m + 1)
    BY <2>4
  <2>6. m + 1 \in 0..n
    OBVIOUS
  <2> HIDE DEF Runs, g, n
  <2> QED BY <2>5, <2>6
<1>6. n \in G
  <2> HIDE DEF G, n
  <2>1. n \in Nat
    BY DEF n
  <2> QED BY <1>4, <1>5, <2>1, CountUp
<1> DEFINE after == CHOOSE f : Runs(f, n)
<1>7. Runs(after, n)
  <2>1. \E f : Runs(f, n)
    BY <1>6
  <2> HIDE DEF Runs
  <2> QED BY <2>1
<1>8. MovedRows(st, order, to) = after[n]
  BY <1>3
<1> HIDE DEF after
<1>9. \A i \in 0..n : after[i] = Next(after, i)
  BY <1>7
<1>10. Moving(after, st, order, to)
  <2>1. 0 \in 0..n
    OBVIOUS
  <2>2. after[0] = st.cell
    BY <1>1, <1>9, <2>1
  <2>3. \A i \in 1..n : after[i] = MovedRange(after[i - 1], st.start[order[i]], to[order[i]], Size(st, order[i]))
    BY <1>1, <1>9
  <2> QED BY <1>8, <2>2, <2>3 DEF Moving
<1> QED BY <1>10

(* Position p belongs to row k once it has been moved.                      *)
Taken(st, to, k, p) == to[k] <= p /\ p < to[k] + Size(st, k)

(* Different rows have different places to go to, within the array, and no  *)
(* row is moved onto one that is moved after it.                            *)
InTurn(st, order, to) ==
  /\ order \in Seq(RowsOf(st))
  /\ \A i \in 1..Len(order) : /\ to[order[i]] \in Int /\ 1 <= to[order[i]]
                              /\ to[order[i]] + Size(st, order[i]) <= Len(st.cell) + 1
  /\ \A i, j \in 1..Len(order) :
       i < j => /\ \A p \in Int : ~(Taken(st, to, order[i], p) /\ Taken(st, to, order[j], p))
                /\ \A p \in Int : ~(Taken(st, to, order[i], p) /\ st.start[order[j]] <= p /\ p < st.end[order[j]])

(* Then each row arrives as it was, and nothing else changes.               *)
LEMMA MovedInPlace ==
  ASSUME NEW st, WellLaid(st), NEW order, NEW to, InTurn(st, order, to),
         NEW new, new = MovedRows(st, order, to)
  PROVE  /\ new \in Seq([col : Nat, val : Int]) /\ Len(new) = Len(st.cell)
         /\ \A i \in 1..Len(order) : \A x \in 0..(Size(st, order[i]) - 1) :
              new[to[order[i]] + x] = st.cell[st.start[order[i]] + x]
         /\ \A p \in 1..Len(st.cell) :
              (\A i \in 1..Len(order) : ~Taken(st, to, order[i], p)) => new[p] = st.cell[p]
<1> DEFINE n == Len(order)
           L == Len(st.cell)
           V == [col : Nat, val : Int]
           from(i) == st.start[order[i]]
           at(i) == to[order[i]]
           size(i) == Size(st, order[i])
           Mine(i, p) == Taken(st, to, order[i], p)
<1>1. order \in Seq(RowsOf(st)) /\ n \in Nat /\ \A i \in 1..n : order[i] \in RowsOf(st)
  <2>1. order \in Seq(RowsOf(st))
    BY DEF InTurn
  <2>2. Len(order) \in Nat
    BY <2>1, LenProperties
  <2>3. \A i \in 1..Len(order) : order[i] \in RowsOf(st)
    BY <2>1, ElementOfSeq
  <2> QED BY <2>1, <2>2, <2>3
<1>2. L \in Nat /\ st.cell \in [1..L -> V]
  <2>1. st.cell \in Seq(V)
    BY DEF WellLaid, Storages
  <2> HIDE DEF V
  <2> QED BY <2>1
<1>3. \A i \in 1..n : /\ from(i) \in Int /\ size(i) \in Nat /\ at(i) \in Int
                      /\ 1 <= from(i) /\ from(i) + size(i) <= L + 1
                      /\ st.end[order[i]] = from(i) + size(i)
                      /\ 1 <= at(i) /\ at(i) + size(i) <= L + 1
  <2> SUFFICES ASSUME NEW i \in 1..n
               PROVE  /\ from(i) \in Int /\ size(i) \in Nat /\ at(i) \in Int
                      /\ 1 <= from(i) /\ from(i) + size(i) <= L + 1
                      /\ st.end[order[i]] = from(i) + size(i)
                      /\ 1 <= at(i) /\ at(i) + size(i) <= L + 1
    OBVIOUS
  <2>1. order[i] \in RowsOf(st)
    BY <1>1
  <2>2. st.start[order[i]] \in Int /\ st.end[order[i]] \in Int /\ Size(st, order[i]) \in Nat
    <3>1. order[i] \in 1..(NRowsOf(st) + 1)
      BY <2>1, LaidFacts
    <3> QED BY <2>1, <3>1, LaidFacts
  <2>3. 1 <= st.start[order[i]] /\ st.end[order[i]] <= L + 1
    BY <2>1, InArray
  <2>4. st.end[order[i]] = from(i) + size(i)
    BY <2>2 DEF Size
  <2>5. at(i) \in Int /\ 1 <= at(i) /\ at(i) + size(i) <= L + 1
    BY DEF InTurn
  <2> QED BY <2>2, <2>3, <2>4, <2>5
<1>4. \A i \in 1..n, p \in Int : Mine(i, p) <=> at(i) <= p /\ p < at(i) + size(i)
  BY DEF Taken
<1>5. \A i, j \in 1..n : i < j =>
        /\ \A p \in Int : ~(Mine(i, p) /\ Mine(j, p))
        /\ \A p \in Int : ~(Mine(i, p) /\ from(j) <= p /\ p < from(j) + size(j))
  <2> SUFFICES ASSUME NEW i \in 1..n, NEW j \in 1..n, i < j
               PROVE  /\ \A p \in Int : ~(Mine(i, p) /\ Mine(j, p))
                      /\ \A p \in Int : ~(Mine(i, p) /\ from(j) <= p /\ p < from(j) + size(j))
    OBVIOUS
  <2>1. st.end[order[j]] = from(j) + size(j)
    BY <1>3
  <2> QED BY <2>1 DEF InTurn
<1>6. PICK f : Moving(f, st, order, to)
  BY <1>1, MovedRowsRuns
<1> DEFINE Arrived(c, m) ==
             /\ c \in [1..L -> V]
             /\ \A i \in 1..m : \A p \in 1..L : Mine(i, p) => c[p] = st.cell[from(i) + (p - at(i))]
             /\ \A p \in 1..L : (\A i \in 1..m : ~Mine(i, p)) => c[p] = st.cell[p]
           G == {m \in 0..n : Arrived(f[m], m)}
<1>7. 0 \in G
  <2>1. f[0] = st.cell /\ 1..0 = {} /\ 0 \in 0..n
    BY <1>1, <1>6 DEF Moving
  <2> HIDE DEF V, n
  <2> QED BY <1>2, <2>1
<1> HIDE DEF V, L, from, at, size, Mine
<1>8. ASSUME NEW m \in 0..n - 1, m \in G
      PROVE  m + 1 \in G
  <2> DEFINE k == m + 1
             old == f[m]
             next == f[k]
  <2>1. k \in 1..n /\ k - 1 = m /\ k \in 0..n
    BY <1>1
  <2>2. Arrived(old, m)
    BY <1>8
  <2>3. next = [p \in DOMAIN old |-> IF at(k) <= p /\ p < at(k) + size(k) THEN old[from(k) + (p - at(k))] ELSE old[p]]
    BY <1>6, <2>1 DEF Moving, MovedRange, at, from, size
  <2>4. DOMAIN old = 1..L /\ old \in [1..L -> V]
    BY <2>2
  <2> HIDE DEF old, next, k
  <2>5. \A p \in 1..L : next[p] = IF Mine(k, p) THEN old[from(k) + (p - at(k))] ELSE old[p]
    BY <1>2, <1>4, <2>1, <2>3, <2>4
  <2>6. \A p \in 1..L : Mine(k, p) => from(k) + (p - at(k)) \in 1..L /\ from(k) + (p - at(k)) \in Int
    BY <1>2, <1>3, <1>4, <2>1
  <2>7. ASSUME NEW p \in 1..L, Mine(k, p)
        PROVE  next[p] = st.cell[from(k) + (p - at(k))]
    <3> DEFINE q == from(k) + (p - at(k))
    <3>1. q \in 1..L /\ q \in Int
      BY <2>6, <2>7
    <3>2. from(k) <= q /\ q < from(k) + size(k)
      BY <1>2, <1>3, <1>4, <2>1, <2>7
    <3> HIDE DEF q
    <3>3. \A i \in 1..m : ~Mine(i, q)
      <4> SUFFICES ASSUME NEW i \in 1..m PROVE ~Mine(i, q)
        OBVIOUS
      <4>1. i \in 1..n /\ i < k
        BY <1>1, <2>1
      <4> QED BY <1>5, <2>1, <3>1, <3>2, <4>1
    <3>4. old[q] = st.cell[q]
      BY <2>2, <3>1, <3>3
    <3> QED BY <2>5, <2>7, <3>4 DEF q
  <2>8. ASSUME NEW i \in 1..k, NEW p \in 1..L, Mine(i, p)
        PROVE  next[p] = st.cell[from(i) + (p - at(i))]
    <3>1. CASE i = k
      BY <2>7, <2>8, <3>1
    <3>2. CASE i # k
      <4>1. i \in 1..m /\ i \in 1..n /\ i < k /\ p \in Int
        BY <1>1, <2>1, <3>2
      <4>2. ~Mine(k, p)
        BY <1>5, <2>1, <2>8, <4>1
      <4> QED BY <2>2, <2>5, <2>8, <4>1, <4>2
    <3> QED BY <3>1, <3>2
  <2>9. ASSUME NEW p \in 1..L, \A i \in 1..k : ~Mine(i, p)
        PROVE  next[p] = st.cell[p]
    <3>1. k \in 1..k /\ \A i \in 1..m : i \in 1..k
      BY <2>1
    <3> QED BY <2>2, <2>5, <2>9, <3>1
  <2>10. next \in [1..L -> V]
    <3>1. \A p \in 1..L : next[p] \in V
      BY <2>4, <2>5, <2>6
    <3> QED BY <2>3, <2>4, <3>1
  <2>11. Arrived(next, k)
    BY <2>8, <2>9, <2>10
  <2> HIDE DEF Arrived
  <2> QED BY <2>1, <2>11 DEF next, k
<1>9. n \in G
  <2> HIDE DEF G, n
  <2> QED BY <1>1, <1>7, <1>8, CountUp
<1>10. new = f[n] /\ Arrived(new, n)
  BY <1>6, <1>9 DEF Moving
<1>11. new \in Seq(V) /\ Len(new) = L
  BY <1>2, <1>10
<1>12. ASSUME NEW i \in 1..n, NEW x \in 0..(size(i) - 1)
       PROVE  new[at(i) + x] = st.cell[from(i) + x]
  <2>1. at(i) + x \in 1..L /\ at(i) + x \in Int /\ at(i) <= at(i) + x /\ at(i) + x < at(i) + size(i)
    BY <1>2, <1>3
  <2>2. Mine(i, at(i) + x)
    BY <1>4, <2>1
  <2>3. from(i) + ((at(i) + x) - at(i)) = from(i) + x
    BY <1>3
  <2> QED BY <1>10, <2>1, <2>2, <2>3
<1> QED BY <1>10, <1>11, <1>12 DEF V, L, from, at, size, Mine

-----------------------------------------------------------------------------
(* Packing rows                                                             *)

(* Rows lo..hi fit between the rows around them when packed from at on.     *)
Fits(st, lo, hi, at) ==
  /\ lo \in RowsOf(st) /\ hi \in RowsOf(st) /\ lo <= hi /\ at \in Int
  /\ at >= 1 /\ (lo > 1 => st.end[lo - 1] <= at)
  /\ at + Filled(st, lo, hi) <= st.start[hi + 1]

(* Where the packed rows begin and end                                      *)
LEMMA PackedStarts ==
  ASSUME NEW st, WellLaid(st), NEW lo, NEW hi, NEW at, Fits(st, lo, hi, at)
  PROVE  /\ PackedStart(st, lo, lo, at) = at
         /\ PackedStart(st, lo, hi, at) + Size(st, hi) = at + Filled(st, lo, hi)
         /\ \A k \in lo..hi : /\ PackedStart(st, lo, k, at) \in Int /\ at <= PackedStart(st, lo, k, at)
                              /\ PackedStart(st, lo, k, at) + Size(st, k) <= at + Filled(st, lo, hi)
         /\ \A k \in lo..(hi - 1) : PackedStart(st, lo, k + 1, at) = PackedStart(st, lo, k, at) + Size(st, k)
         /\ \A j, k \in lo..hi : j < k => PackedStart(st, lo, j, at) + Size(st, j) <= PackedStart(st, lo, k, at)
<1>1. /\ lo \in Int /\ hi \in Int /\ at \in Int /\ 1 <= lo /\ lo <= hi /\ hi <= NRowsOf(st)
      /\ \A k \in lo..hi : Size(st, k) \in Nat
  BY LaidFacts DEF Fits
<1> DEFINE F(a, b) == Filled(st, a, b)
<1>2. \A a, b \in Int : lo <= a /\ b <= hi /\ a <= b + 1 => F(a, b) \in Nat /\ Sized(st, a, b)
  <2> SUFFICES ASSUME NEW a \in Int, NEW b \in Int, lo <= a, b <= hi, a <= b + 1
               PROVE  F(a, b) \in Nat /\ Sized(st, a, b)
    OBVIOUS
  <2>1. 1 <= a /\ b <= NRowsOf(st)
    BY <1>1, LaidFacts
  <2> QED BY <2>1, FilledInside
<1>3. ASSUME NEW k \in lo..hi
      PROVE  F(lo, k) = F(lo, k - 1) + Size(st, k) /\ F(lo, k) \in Nat /\ F(lo, k - 1) \in Nat
  <2>1. Sized(st, lo, k - 1 + 1) /\ k - 1 \in Int /\ lo <= k - 1 + 1
    <3>1. k - 1 + 1 = k /\ k \in Int /\ lo <= k + 1 /\ k <= hi
      BY <1>1
    <3> QED BY <1>1, <1>2, <3>1
  <2>2. Filled(st, lo, k - 1 + 1) = Filled(st, lo, k - 1) + Size(st, k - 1 + 1)
    BY <1>1, <2>1, FilledNext
  <2>3. k - 1 + 1 = k /\ k \in Int /\ lo <= k - 1 + 1 /\ k - 1 <= hi /\ lo <= k + 1 /\ k <= hi
    BY <1>1
  <2>4. F(lo, k) \in Nat /\ F(lo, k - 1) \in Nat
    BY <1>1, <1>2, <2>1, <2>3
  <2> QED BY <2>2, <2>3, <2>4
<1>4. ASSUME NEW j \in lo..hi, NEW k \in lo..hi, j <= k
      PROVE  F(lo, j) <= F(lo, k)
  <2>1. /\ j + 1 \in Int /\ lo <= j + 1 /\ j + 1 <= k + 1 /\ k \in Int /\ k <= hi /\ j + 1 - 1 = j /\ lo <= k + 1
    BY <1>1, <1>4
  <2>2. Sized(st, lo, k) /\ F(j + 1, k) \in Nat
    BY <1>1, <1>2, <2>1
  <2>3. F(lo, k) = F(lo, j + 1 - 1) + F(j + 1, k)
    BY <1>1, <2>1, <2>2, FilledSplit
  <2> QED BY <1>3, <2>1, <2>2, <2>3
<1>5. F(lo, lo - 1) = 0
  BY <1>1, FilledNone
<1>6. \A k : PackedStart(st, lo, k, at) = at + F(lo, k - 1)
  BY DEF PackedStart
<1>7. lo \in lo..hi /\ hi \in lo..hi
  BY <1>1
<1>8. \A k \in lo..hi : /\ PackedStart(st, lo, k, at) \in Int /\ at <= PackedStart(st, lo, k, at)
                        /\ PackedStart(st, lo, k, at) + Size(st, k) = at + F(lo, k)
  BY <1>1, <1>3, <1>6
<1>9. \A k \in lo..(hi - 1) : PackedStart(st, lo, k + 1, at) = PackedStart(st, lo, k, at) + Size(st, k)
  <2> SUFFICES ASSUME NEW k \in lo..(hi - 1)
               PROVE  PackedStart(st, lo, k + 1, at) = PackedStart(st, lo, k, at) + Size(st, k)
    OBVIOUS
  <2>1. k + 1 - 1 = k /\ k \in lo..hi
    BY <1>1
  <2> QED BY <1>6, <1>8, <2>1
<1>10. \A j, k \in lo..hi : j < k => PackedStart(st, lo, j, at) + Size(st, j) <= PackedStart(st, lo, k, at)
  <2> SUFFICES ASSUME NEW j \in lo..hi, NEW k \in lo..hi, j < k
               PROVE  PackedStart(st, lo, j, at) + Size(st, j) <= PackedStart(st, lo, k, at)
    OBVIOUS
  <2>1. k - 1 \in lo..hi /\ j <= k - 1
    BY <1>1
  <2>2. F(lo, j) <= F(lo, k - 1) /\ F(lo, j) \in Nat /\ F(lo, k - 1) \in Nat
    BY <1>3, <1>4, <2>1
  <2> HIDE DEF F
  <2> QED BY <1>1, <1>6, <1>8, <2>2
<1>11. \A k \in lo..hi : F(lo, k) <= F(lo, hi) /\ F(lo, k) \in Nat /\ F(lo, hi) \in Nat
  BY <1>1, <1>3, <1>4, <1>7
<1>12. PackedStart(st, lo, lo, at) = at
  BY <1>1, <1>5, <1>6
<1>13. \A k \in lo..hi : PackedStart(st, lo, k, at) + Size(st, k) <= at + Filled(st, lo, hi)
  BY <1>1, <1>8, <1>11
<1> QED BY <1>7, <1>8, <1>9, <1>10, <1>12, <1>13

(* The rows are moved in an order in which none is moved onto another one.  *)
Places(st, lo, hi, at) == [k \in lo..hi |-> PackedStart(st, lo, k, at)]
PacksInTurn(st, lo, hi, at, order) ==
  /\ InTurn(st, order, Places(st, lo, hi, at))
  /\ \A i \in 1..Len(order) : order[i] \in lo..hi
  /\ \A k \in lo..hi : \E i \in 1..Len(order) : order[i] = k

(* A packed row keeps its size, in the array; when all rows are packed to   *)
(* the left it ends no later than before, to the right it begins no earlier.*)
LEMMA PackedPlaces ==
  ASSUME NEW st, WellLaid(st), NEW lo, NEW hi, NEW at, Fits(st, lo, hi, at), NEW k \in lo..hi
  PROVE  /\ k \in RowsOf(st) /\ Places(st, lo, hi, at)[k] = PackedStart(st, lo, k, at)
         /\ PackedStart(st, lo, k, at) \in Int /\ 1 <= PackedStart(st, lo, k, at) /\ Size(st, k) \in Nat
         /\ PackedStart(st, lo, k, at) + Size(st, k) <= Len(st.cell) + 1
         /\ at <= st.start[lo] => PackedStart(st, lo, k, at) + Size(st, k) <= st.end[k]
         /\ st.end[hi] <= at + Filled(st, lo, hi) => st.start[k] <= PackedStart(st, lo, k, at)
<1> DEFINE N == NRowsOf(st)
           P == PackedStart(st, lo, k, at)
<1>1. /\ N \in Nat /\ RowsOf(st) = 1..N /\ Len(st.cell) \in Nat /\ st.start[N + 1] <= Len(st.cell) + 1
      /\ \A i \in 1..(N + 1) : st.start[i] \in Int /\ st.end[i] \in Int
      /\ \A i \in 1..N : st.start[i] <= st.end[i] /\ Size(st, i) \in Nat
  BY LaidFacts
<1>2. /\ lo \in 1..N /\ hi \in 1..N /\ lo <= hi /\ at \in Int /\ at >= 1
      /\ at + Filled(st, lo, hi) <= st.start[hi + 1]
  BY <1>1 DEF Fits
<1>3. /\ P \in Int /\ at <= P /\ P + Size(st, k) <= at + Filled(st, lo, hi)
  BY PackedStarts
<1> HIDE DEF N
<1>4. k \in 1..N /\ k \in Int /\ lo <= k /\ k <= hi /\ lo \in Int /\ hi \in Int
  BY <1>1, <1>2
<1>5. Places(st, lo, hi, at)[k] = P
  BY DEF Places
<1>6. /\ st.start[lo] \in Int /\ st.end[k] \in Int /\ st.start[k] \in Int /\ st.end[hi] \in Int
      /\ st.start[hi + 1] \in Int /\ Size(st, k) \in Nat
  <2>1. {lo, k, hi, hi + 1} \subseteq 1..(N + 1)
    BY <1>1, <1>2, <1>4
  <2> QED BY <1>1, <1>4, <2>1
<1>7. P + Size(st, k) <= Len(st.cell) + 1
  <2>1. st.start[hi + 1] <= Len(st.cell) + 1
    <3>1. CASE hi = N
      BY <1>1, <3>1
    <3>2. CASE hi # N
      <4>1. hi + 1 \in 1..N /\ hi + 1 \in 1..(N + 1)
        BY <1>1, <1>2, <3>2
      <4>2. st.start[hi + 1] <= st.end[hi + 1] /\ st.end[hi + 1] <= Len(st.cell) + 1
        BY <1>1, <4>1, InArray
      <4> QED BY <1>1, <4>1, <4>2
    <3> QED BY <3>1, <3>2
  <2>2. Filled(st, lo, hi) \in Nat
    <3>1. 1 <= lo /\ hi <= N /\ lo <= hi + 1
      BY <1>1, <1>2, <1>4
    <3> QED BY <1>4, <3>1, FilledInside DEF N
  <2> DEFINE full == at + Filled(st, lo, hi)
  <2>3. full \in Int /\ full <= st.start[hi + 1] /\ P + Size(st, k) <= full
    BY <1>2, <1>3, <2>2
  <2>4. P + Size(st, k) \in Int
    BY <1>3, <1>6
  <2> HIDE DEF P, full
  <2> QED BY <1>1, <1>6, <2>1, <2>3, <2>4
<1>8. /\ P = at + Filled(st, lo, k - 1)
      /\ Filled(st, lo, hi) = Filled(st, lo, k - 1) + Filled(st, k, hi)
      /\ Filled(st, lo, k) = Filled(st, lo, k - 1) + Size(st, k)
  <2>1. Sized(st, lo, hi) /\ Sized(st, lo, k) /\ k <= hi + 1
    BY <1>1, <1>2, <1>4, FilledInside DEF N
  <2>2. k - 1 \in Int /\ lo <= k - 1 + 1 /\ k - 1 + 1 = k
    BY <1>4
  <2>3. Filled(st, lo, k - 1 + 1) = Filled(st, lo, k - 1) + Size(st, k - 1 + 1)
    BY <1>4, <2>1, <2>2, FilledNext
  <2>4. Filled(st, lo, hi) = Filled(st, lo, k - 1) + Filled(st, k, hi)
    BY <1>4, <2>1, FilledSplit
  <2> QED BY <2>2, <2>3, <2>4 DEF PackedStart
<1>9. /\ Filled(st, lo, k - 1) \in Nat /\ Filled(st, k, hi) \in Nat /\ Filled(st, lo, k) \in Nat
      /\ Filled(st, lo, k) <= st.end[k] - st.start[lo]
      /\ Filled(st, k, hi) <= st.end[hi] - st.start[k]
  <2>1. /\ 1 <= lo /\ k - 1 \in Int /\ k - 1 <= N /\ lo <= k - 1 + 1 /\ hi <= N /\ k <= hi + 1 /\ 1 <= k
        /\ k <= N /\ lo <= k + 1
    BY <1>1, <1>2, <1>4
  <2> QED BY <1>4, <2>1, FilledInside DEF N
<1> HIDE DEF P
<1>10. at <= st.start[lo] => P + Size(st, k) <= st.end[k]
  <2>1. P + Size(st, k) = at + Filled(st, lo, k)
    BY <1>2, <1>6, <1>8, <1>9
  <2> QED BY <1>2, <1>6, <1>9, <2>1
<1>11. st.end[hi] <= at + Filled(st, lo, hi) => st.start[k] <= P
  <2>1. at + Filled(st, lo, hi) = P + Filled(st, k, hi)
    BY <1>2, <1>8, <1>9
  <2> QED BY <1>3, <1>6, <1>9, <2>1
<1> QED BY <1>1, <1>2, <1>3, <1>4, <1>5, <1>6, <1>7, <1>10, <1>11 DEF P

(* A row that has moved from s..t - 1 to a..b - 1, beside the place of      *)
(* another one, x..y - 1, and away from where that is, u..v - 1             *)
LEMMA LeavesAlone ==
  ASSUME NEW s \in Int, NEW t \in Int, NEW a \in Int, NEW b \in Int,
         NEW u \in Int, NEW v \in Int, NEW x \in Int, NEW y \in Int,
         \/ b <= x /\ b <= t /\ t <= u
         \/ y <= a /\ s <= a /\ v <= s,
         NEW p \in Int, a <= p, p < b
  PROVE  ~(x <= p /\ p < y) /\ ~(u <= p /\ p < v)
OBVIOUS

(* Row a does not reach into the place of row b or where that is.           *)
LEMMA PackedApart ==
  ASSUME NEW st, WellLaid(st), NEW lo, NEW hi, NEW at, Fits(st, lo, hi, at), NEW a \in lo..hi, NEW b \in lo..hi,
         \/ at <= st.start[lo] /\ a < b
         \/ st.end[hi] <= at + Filled(st, lo, hi) /\ b < a,
         NEW p \in Int, Taken(st, Places(st, lo, hi, at), a, p)
  PROVE  /\ ~Taken(st, Places(st, lo, hi, at), b, p)
         /\ ~(st.start[b] <= p /\ p < st.end[b])
<1> DEFINE P(k) == PackedStart(st, lo, k, at)
           aEnd == P(a) + Size(st, a)
           bEnd == P(b) + Size(st, b)
<1>1. \A k \in {a, b} : /\ k \in RowsOf(st) /\ Places(st, lo, hi, at)[k] = P(k) /\ P(k) \in Int /\ Size(st, k) \in Nat
                        /\ at <= st.start[lo] => P(k) + Size(st, k) <= st.end[k]
                        /\ st.end[hi] <= at + Filled(st, lo, hi) => st.start[k] <= P(k)
  BY PackedPlaces
<1>2. aEnd \in Int /\ bEnd \in Int
  BY <1>1
<1>3. /\ P(a) <= p /\ p < aEnd
      /\ Taken(st, Places(st, lo, hi, at), b, p) <=> P(b) <= p /\ p < bEnd
  BY <1>1 DEF Taken
<1>4. (a < b => aEnd <= P(b)) /\ (b < a => bEnd <= P(a))
  BY PackedStarts
<1>5. \A k \in {a, b} : k \in 1..(NRowsOf(st) + 1) /\ st.start[k] \in Int /\ st.end[k] \in Int
  <2>1. /\ NRowsOf(st) \in Nat /\ RowsOf(st) = 1..NRowsOf(st)
        /\ \A k \in 1..(NRowsOf(st) + 1) : st.start[k] \in Int /\ st.end[k] \in Int
    BY LaidFacts
  <2>2. \A k \in {a, b} : k \in 1..(NRowsOf(st) + 1)
    BY <1>1, <2>1
  <2> QED BY <2>1, <2>2
<1>6. (a < b => st.end[a] <= st.start[b]) /\ (b < a => st.end[b] <= st.start[a])
  BY <1>1, <1>5, Apart
<1>7. \/ aEnd <= P(b) /\ aEnd <= st.end[a] /\ st.end[a] <= st.start[b]
      \/ bEnd <= P(a) /\ st.start[a] <= P(a) /\ st.end[b] <= st.start[a]
  BY <1>1, <1>4, <1>6
<1> HIDE DEF aEnd, bEnd
<1>8. ~(P(b) <= p /\ p < bEnd) /\ ~(st.start[b] <= p /\ p < st.end[b])
  BY <1>1, <1>2, <1>3, <1>5, <1>7, LeavesAlone
<1> QED BY <1>3, <1>8

(* An order of the rows lo..hi in which each one leaves those after it alone*)
LEMMA PacksByOrder ==
  ASSUME NEW st, WellLaid(st), NEW lo, NEW hi, NEW at, Fits(st, lo, hi, at),
         NEW order, order \in Seq(Int),
         \A i \in 1..Len(order) : order[i] \in lo..hi,
         \A k \in lo..hi : \E i \in 1..Len(order) : order[i] = k,
         \/ /\ at <= st.start[lo]
            /\ \A i, j \in 1..Len(order) : i < j => order[i] < order[j]
         \/ /\ st.end[hi] <= at + Filled(st, lo, hi)
            /\ \A i, j \in 1..Len(order) : i < j => order[j] < order[i]
  PROVE  PacksInTurn(st, lo, hi, at, order)
<1> DEFINE n == Len(order)
           To == Places(st, lo, hi, at)
<1>1. n \in Nat /\ order \in [1..n -> Int]
  OBVIOUS
<1>2. \A k \in lo..hi : /\ k \in RowsOf(st) /\ To[k] \in Int /\ 1 <= To[k]
                        /\ To[k] + Size(st, k) <= Len(st.cell) + 1
  BY PackedPlaces
<1>6. order \in Seq(RowsOf(st))
  <2>1. \A i \in 1..n : order[i] \in RowsOf(st)
    BY <1>2
  <2>2. order \in [1..n -> RowsOf(st)]
    BY <1>1, <2>1
  <2> HIDE DEF n
  <2> QED BY <1>1, <2>2
<1> HIDE DEF To, n
<1>7. ASSUME NEW i \in 1..n, NEW j \in 1..n, i < j
      PROVE  /\ \A p \in Int : ~(Taken(st, To, order[i], p) /\ Taken(st, To, order[j], p))
             /\ \A p \in Int : ~(Taken(st, To, order[i], p) /\ st.start[order[j]] <= p /\ p < st.end[order[j]])
  <2>1. order[i] \in lo..hi /\ order[j] \in lo..hi
    BY DEF n
  <2>2. \/ at <= st.start[lo] /\ order[i] < order[j]
        \/ st.end[hi] <= at + Filled(st, lo, hi) /\ order[j] < order[i]
    BY <1>7 DEF n
  <2>3. ASSUME NEW p \in Int, Taken(st, To, order[i], p)
        PROVE  ~Taken(st, To, order[j], p) /\ ~(st.start[order[j]] <= p /\ p < st.end[order[j]])
    BY <2>1, <2>2, <2>3, PackedApart DEF To
  <2> QED BY <2>3
<1>8. \A i \in 1..n : /\ To[order[i]] \in Int /\ 1 <= To[order[i]]
                      /\ To[order[i]] + Size(st, order[i]) <= Len(st.cell) + 1
  BY <1>2 DEF n
<1>9. InTurn(st, order, To)
  BY <1>6, <1>7, <1>8 DEF InTurn, n
<1> QED BY <1>9 DEF PacksInTurn, To

(* To the left from the left                                                *)
LEMMA UpwardsInTurn ==
  ASSUME NEW st, WellLaid(st), NEW lo, NEW hi, NEW at, Fits(st, lo, hi, at), at <= st.start[lo]
  PROVE  PacksInTurn(st, lo, hi, at, Upwards(lo, hi))
<1> DEFINE order == Upwards(lo, hi)
           n == hi - lo + 1
<1>1. lo \in Int /\ hi \in Int /\ lo <= hi /\ n \in Nat
  BY LaidFacts DEF Fits
<1>2. order = [i \in 1..n |-> lo + i - 1]
  BY DEF Upwards
<1>3. \A i \in 1..n : lo + i - 1 \in Int
  BY <1>1
<1>4. order \in Seq(Int) /\ Len(order) = n
  <2>1. order \in [1..n -> Int] /\ DOMAIN order = 1..n
    BY <1>2, <1>3
  <2> HIDE DEF order, n
  <2> QED BY <1>1, <2>1
<1>5. \A i \in 1..n : order[i] = lo + i - 1
  BY <1>2
<1> HIDE DEF order
<1>6. \A i \in 1..Len(order) : order[i] \in lo..hi
  BY <1>1, <1>4, <1>5
<1>7. ASSUME NEW k \in lo..hi PROVE \E i \in 1..Len(order) : order[i] = k
  <2>1. k - lo + 1 \in 1..n
    BY <1>1
  <2>2. lo + (k - lo + 1) - 1 = k
    BY <1>1
  <2> QED BY <1>4, <1>5, <2>1, <2>2
<1>8. \A i, j \in 1..Len(order) : i < j => order[i] < order[j]
  BY <1>1, <1>4, <1>5
<1> QED BY <1>4, <1>6, <1>7, <1>8, PacksByOrder DEF order

(* To the right from the right                                              *)
LEMMA DownwardsInTurn ==
  ASSUME NEW st, WellLaid(st), NEW lo, NEW hi, NEW at, Fits(st, lo, hi, at),
         st.end[hi] <= at + Filled(st, lo, hi)
  PROVE  PacksInTurn(st, lo, hi, at, Downwards(lo, hi))
<1> DEFINE order == Downwards(lo, hi)
           n == hi - lo + 1
<1>1. lo \in Int /\ hi \in Int /\ lo <= hi /\ n \in Nat
  BY LaidFacts DEF Fits
<1>2. order = [i \in 1..n |-> hi + 1 - i]
  BY DEF Downwards
<1>3. \A i \in 1..n : hi + 1 - i \in Int
  BY <1>1
<1>4. order \in Seq(Int) /\ Len(order) = n
  <2>1. order \in [1..n -> Int] /\ DOMAIN order = 1..n
    BY <1>2, <1>3
  <2> HIDE DEF order, n
  <2> QED BY <1>1, <2>1
<1>5. \A i \in 1..n : order[i] = hi + 1 - i
  BY <1>2
<1> HIDE DEF order
<1>6. \A i \in 1..Len(order) : order[i] \in lo..hi
  BY <1>1, <1>4, <1>5
<1>7. ASSUME NEW k \in lo..hi PROVE \E i \in 1..Len(order) : order[i] = k
  <2>1. hi + 1 - k \in 1..n
    BY <1>1
  <2>2. hi + 1 - (hi + 1 - k) = k
    BY <1>1
  <2> QED BY <1>4, <1>5, <2>1, <2>2
<1>8. \A i, j \in 1..Len(order) : i < j => order[j] < order[i]
  BY <1>1, <1>4, <1>5
<1> QED BY <1>4, <1>6, <1>7, <1>8, PacksByOrder DEF order

(* The parts of the storage that change                                     *)
LEMMA PackedFields ==
  ASSUME NEW st, WellLaid(st), NEW lo, NEW hi, NEW at, Fits(st, lo, hi, at),
         NEW order, PacksInTurn(st, lo, hi, at, order)
  PROVE  LET new == Packed(st, lo, hi, at, order)
         IN /\ new \in Storages /\ NRowsOf(new) = NRowsOf(st) /\ RowsOf(new) = RowsOf(st)
            /\ Len(new.start) = Len(st.start) /\ Len(new.end) = Len(st.end) /\ Len(new.cell) = Len(st.cell)
            /\ \A k \in lo..hi : /\ new.start[k] = PackedStart(st, lo, k, at)
                                 /\ new.end[k] = PackedStart(st, lo, k, at) + Size(st, k)
            /\ \A k \in (1..(NRowsOf(st) + 1)) \ (lo..hi) : new.start[k] = st.start[k] /\ new.end[k] = st.end[k]
            /\ new.cell = MovedRows(st, order, Places(st, lo, hi, at))
<1> DEFINE N == NRowsOf(st)
           V == [col : Nat, val : Int]
           start == [k \in DOMAIN st.start |-> IF k \in lo..hi THEN PackedStart(st, lo, k, at) ELSE st.start[k]]
           end == [k \in DOMAIN st.end |-> IF k \in lo..hi THEN PackedStart(st, lo, k, at) + Size(st, k) ELSE st.end[k]]
           cell == MovedRows(st, order, Places(st, lo, hi, at))
           new == Packed(st, lo, hi, at, order)
<1>1. /\ N \in Nat /\ RowsOf(st) = 1..N /\ DOMAIN st.start = 1..(N + 1) /\ DOMAIN st.end = 1..(N + 1)
      /\ Len(st.cell) \in Nat /\ DOMAIN st.cell = 1..Len(st.cell)
      /\ \A k \in 1..(N + 1) : st.start[k] \in Int /\ st.end[k] \in Int
  BY LaidFacts
<1>2. lo \in 1..N /\ hi \in 1..N /\ \A k \in lo..hi : PackedStart(st, lo, k, at) \in Int /\ Size(st, k) \in Nat
  <2>1. lo \in 1..N /\ hi \in 1..N /\ \A k \in lo..hi : PackedStart(st, lo, k, at) \in Int
    BY <1>1, PackedStarts DEF Fits
  <2>2. \A k \in lo..hi : k \in RowsOf(st)
    BY <1>1, <2>1
  <2> QED BY <2>1, <2>2, LaidFacts
<1>3. start \in [1..(N + 1) -> Int] /\ end \in [1..(N + 1) -> Int]
  BY <1>1, <1>2
<1>4. start \in Seq(Int) /\ end \in Seq(Int) /\ Len(start) = N + 1 /\ Len(end) = N + 1
  <2> HIDE DEF start, end, N
  <2> QED BY <1>1, <1>3
<1>6. cell \in Seq(V) /\ Len(cell) = Len(st.cell)
  BY MovedInPlace DEF PacksInTurn
<1>7. st \in Storages
  BY DEF WellLaid
<1>8. new = [st EXCEPT !.start = start, !.end = end, !.cell = cell]
  BY <1>7 DEF Packed, Storages, Places
<1>9. new \in Storages /\ new.start = start /\ new.end = end /\ new.cell = cell
  <2> HIDE DEF start, end, cell, new
  <2> QED BY <1>4, <1>6, <1>7, <1>8 DEF Storages
<1>10. NRowsOf(new) = N /\ RowsOf(new) = RowsOf(st)
  <2>1. NRowsOf(new) = N
    BY <1>1, <1>4, <1>9 DEF NRowsOf
  <2> QED BY <2>1 DEF RowsOf
<1>11. Len(new.start) = Len(st.start) /\ Len(new.end) = Len(st.end) /\ Len(new.cell) = Len(st.cell)
  <2>1. Len(st.start) = N + 1 /\ Len(st.end) = N + 1
    BY <1>1, <1>7 DEF Storages
  <2> QED BY <1>4, <1>6, <1>9, <2>1
<1>12. \A k \in lo..hi : /\ start[k] = PackedStart(st, lo, k, at)
                         /\ end[k] = PackedStart(st, lo, k, at) + Size(st, k)
  BY <1>1, <1>2
<1>13. \A k \in (1..(N + 1)) \ (lo..hi) : start[k] = st.start[k] /\ end[k] = st.end[k]
  BY <1>1, <1>2
<1> HIDE DEF start, end, cell, new
<1> QED BY <1>9, <1>10, <1>11, <1>12, <1>13 DEF new, cell

(* The packed rows lie one behind the other, between the rows around them.  *)
LEMMA PackedLaid ==
  ASSUME NEW st, WellLaid(st), NEW lo, NEW hi, NEW at, Fits(st, lo, hi, at),
         NEW order, PacksInTurn(st, lo, hi, at, order)
  PROVE  WellLaid(Packed(st, lo, hi, at, order))
<1> DEFINE N == NRowsOf(st)
           P(k) == PackedStart(st, lo, k, at)
           new == Packed(st, lo, hi, at, order)
<1>1. /\ N \in Nat /\ RowsOf(st) = 1..N /\ Len(st.cell) \in Nat /\ st.start[N + 1] <= Len(st.cell) + 1
      /\ \A k \in 1..(N + 1) : st.start[k] \in Int /\ st.end[k] \in Int
      /\ \A k \in 1..N : st.start[k] <= st.end[k] /\ st.end[k] <= st.start[k + 1] /\ Size(st, k) \in Nat
  BY LaidFacts
<1>2. /\ lo \in 1..N /\ hi \in 1..N /\ lo <= hi /\ at \in Int /\ at >= 1 /\ (lo > 1 => st.end[lo - 1] <= at)
      /\ at + Filled(st, lo, hi) <= st.start[hi + 1]
  BY <1>1 DEF Fits
<1>3. /\ P(lo) = at /\ P(hi) + Size(st, hi) = at + Filled(st, lo, hi)
      /\ \A k \in lo..hi : P(k) \in Int
      /\ \A k \in lo..(hi - 1) : P(k + 1) = P(k) + Size(st, k)
  BY PackedStarts
<1>4. /\ new \in Storages /\ NRowsOf(new) = N /\ RowsOf(new) = 1..N
      /\ Len(new.start) = Len(st.start) /\ Len(new.end) = Len(st.end) /\ Len(new.cell) = Len(st.cell)
      /\ \A k \in lo..hi : new.start[k] = P(k) /\ new.end[k] = P(k) + Size(st, k)
      /\ \A k \in (1..(N + 1)) \ (lo..hi) : new.start[k] = st.start[k] /\ new.end[k] = st.end[k]
  BY <1>1, PackedFields
<1> HIDE DEF P, new, N
<1>5. ASSUME NEW k \in 1..N
      PROVE  new.start[k] <= new.end[k] /\ new.end[k] <= new.start[k + 1]
  <2>1. CASE k \in lo..(hi - 1)
    <3>1. k \in lo..hi /\ k + 1 \in lo..hi
      BY <1>2, <2>1
    <3>2. new.start[k] = P(k) /\ new.end[k] = P(k) + Size(st, k) /\ new.start[k + 1] = P(k + 1)
      BY <1>4, <3>1
    <3>3. P(k + 1) = P(k) + Size(st, k) /\ P(k) \in Int /\ Size(st, k) \in Nat
      BY <1>1, <1>3, <2>1, <3>1
    <3> QED BY <3>2, <3>3
  <2>2. CASE k = hi
    <3>1. hi \in lo..hi
      BY <1>2
    <3>2. hi + 1 \in 1..(N + 1) /\ hi + 1 \notin lo..hi
      BY <1>1, <1>2
    <3>3. new.start[hi] = P(hi) /\ new.end[hi] = P(hi) + Size(st, hi)
      BY <1>4, <3>1
    <3>4. new.start[hi + 1] = st.start[hi + 1]
      BY <1>4, <3>2
    <3>5. P(hi) \in Int /\ Size(st, hi) \in Nat
      BY <1>1, <1>2, <1>3, <3>1
    <3>6. new.end[hi] <= st.start[hi + 1]
      BY <1>2, <1>3, <3>3
    <3> QED BY <2>2, <3>3, <3>4, <3>5, <3>6
  <2>3. CASE k + 1 = lo
    <3>1. lo \in lo..hi /\ lo > 1 /\ lo - 1 = k
      BY <1>2, <2>3
    <3>2. k \in 1..(N + 1) /\ k \notin lo..hi
      BY <1>1, <1>2, <2>3
    <3>3. new.start[k] = st.start[k] /\ new.end[k] = st.end[k]
      BY <1>4, <3>2
    <3>4. new.start[k + 1] = at
      BY <1>3, <1>4, <2>3, <3>1
    <3>5. st.end[k] <= at /\ st.start[k] <= st.end[k]
      BY <1>1, <1>2, <3>1
    <3> QED BY <3>3, <3>4, <3>5
  <2>4. CASE k \notin lo..hi /\ k + 1 # lo
    <3>1. k \in (1..(N + 1)) \ (lo..hi) /\ k + 1 \in (1..(N + 1)) \ (lo..hi)
      BY <1>1, <1>2, <2>4
    <3> QED BY <1>1, <1>4, <3>1
  <2>5. k \in lo..(hi - 1) \/ k = hi \/ k \notin lo..hi
    BY <1>2
  <2> QED BY <2>1, <2>2, <2>3, <2>4, <2>5
<1>6. new.start[N + 1] <= Len(new.cell) + 1
  <2>1. N + 1 \in (1..(N + 1)) \ (lo..hi)
    BY <1>1, <1>2
  <2> QED BY <1>1, <1>4, <2>1
<1>7. new.start[1] >= 1
  <2>1. CASE lo = 1
    <3>1. 1 \in lo..hi
      BY <1>2, <2>1
    <3> QED BY <1>2, <1>3, <1>4, <2>1, <3>1
  <2>2. CASE lo # 1
    <3>1. 1 \in (1..(N + 1)) \ (lo..hi)
      BY <1>1, <1>2, <2>2
    <3> QED BY <1>4, <3>1 DEF WellLaid
  <2> QED BY <2>1, <2>2
<1>8. Len(new.start) # 0 /\ Len(new.end) = Len(new.start)
  BY <1>4 DEF WellLaid
<1>9. Ordered(new)
  BY <1>4, <1>5, <1>6 DEF Ordered
<1> QED BY <1>4, <1>7, <1>8, <1>9 DEF WellLaid, new

(* No entry is lost: neither one of the rows that move nor one of the others*)
LEMMA PackedEntries ==
  ASSUME NEW st, WellLaid(st), NEW lo, NEW hi, NEW at, Fits(st, lo, hi, at),
         NEW order, PacksInTurn(st, lo, hi, at, order), NEW r \in RowsOf(st)
  PROVE  Entries(Packed(st, lo, hi, at, order), r) = Entries(st, r)
<1> DEFINE N == NRowsOf(st)
           P(k) == PackedStart(st, lo, k, at)
           new == Packed(st, lo, hi, at, order)
           Full == at + Filled(st, lo, hi)
<1>1. /\ N \in Nat /\ RowsOf(st) = 1..N /\ Len(st.cell) \in Nat /\ st.start[N + 1] <= Len(st.cell) + 1
      /\ \A k \in 1..(N + 1) : st.start[k] \in Int /\ st.end[k] \in Int
      /\ \A k \in 1..N : st.start[k] <= st.end[k] /\ st.end[k] <= st.start[k + 1] /\ Size(st, k) \in Nat
  BY LaidFacts
<1>2. /\ lo \in 1..N /\ hi \in 1..N /\ lo <= hi /\ at \in Int /\ at >= 1 /\ (lo > 1 => st.end[lo - 1] <= at)
      /\ Full <= st.start[hi + 1]
  BY <1>1 DEF Fits
<1>3. /\ \A k \in lo..hi : P(k) \in Int /\ at <= P(k) /\ P(k) + Size(st, k) <= Full
      /\ \A j, k \in lo..hi : j < k => P(j) + Size(st, j) <= P(k)
      /\ P(hi) + Size(st, hi) = Full
  BY PackedStarts
<1>4. /\ RowsOf(new) = RowsOf(st) /\ Len(new.cell) = Len(st.cell)
      /\ \A k \in lo..hi : new.start[k] = P(k) /\ new.end[k] = P(k) + Size(st, k)
      /\ \A k \in (1..(N + 1)) \ (lo..hi) : new.start[k] = st.start[k] /\ new.end[k] = st.end[k]
      /\ new.cell = MovedRows(st, order, Places(st, lo, hi, at))
  BY PackedFields
<1>5. WellLaid(new)
  BY PackedLaid
<1> DEFINE To == Places(st, lo, hi, at)
<1>6. \A k \in lo..hi : To[k] = P(k)
  BY DEF Places
<1>13. /\ \A i \in 1..Len(order) : \A x \in 0..(Size(st, order[i]) - 1) :
             new.cell[To[order[i]] + x] = st.cell[st.start[order[i]] + x]
       /\ \A p \in 1..Len(st.cell) :
             (\A i \in 1..Len(order) : ~Taken(st, To, order[i], p)) => new.cell[p] = st.cell[p]
  BY <1>4, MovedInPlace DEF PacksInTurn
<1>14. \A i \in 1..Len(order) : order[i] \in lo..hi
  BY DEF PacksInTurn
<1>7. Full \in Int
  <2>1. hi \in lo..hi
    BY <1>2
  <2> QED BY <1>1, <1>2, <1>3, <2>1
<1>8. 1 <= st.start[r] /\ st.end[r] <= Len(st.cell) + 1 /\ r \in 1..(N + 1) /\ r \in 1..N
  BY <1>1, InArray
<1>9. 1 <= new.start[r] /\ new.end[r] <= Len(st.cell) + 1
  BY <1>4, <1>5, InArray
<1>10. st.end[r] = st.start[r] + Size(st, r) /\ st.start[r] \in Int /\ Size(st, r) \in Nat
  BY <1>1, <1>8 DEF Size
<1> HIDE DEF P, new, N, Full, To
<1>11. CASE r \in lo..hi
  <2>1. new.start[r] = P(r) /\ new.end[r] = P(r) + Size(st, r) /\ P(r) \in Int
    BY <1>3, <1>4, <1>11
  <2>2. Size(new, r) = Size(st, r)
    BY <1>10, <2>1 DEF Size
  <2>3. ASSUME NEW i \in 0..(Size(st, r) - 1)
        PROVE  new.cell[new.start[r] + i] = st.cell[st.start[r] + i]
    <3>1. PICK j \in 1..Len(order) : order[j] = r
      BY <1>11 DEF PacksInTurn
    <3> QED BY <1>6, <1>11, <1>13, <2>1, <3>1
  <2> QED BY <1>4, <1>5, <2>2, <2>3, SameEntries DEF new
<1>12. CASE r \notin lo..hi
  <2>1. new.start[r] = st.start[r] /\ new.end[r] = st.end[r]
    BY <1>4, <1>8, <1>12
  <2>2. Size(new, r) = Size(st, r)
    BY <2>1 DEF Size
  <2>3. st.end[r] <= at \/ Full <= st.start[r]
    <3>1. CASE r < lo
      <4>1. lo - 1 \in 1..N /\ lo > 1 /\ lo - 1 \in 1..(N + 1)
        BY <1>1, <1>2, <1>8, <3>1
      <4>2. r < lo - 1 => st.end[r] <= st.start[lo - 1]
        BY <4>1, Apart DEF N
      <4>3. st.start[lo - 1] <= st.end[lo - 1] /\ st.end[lo - 1] <= at
        BY <1>1, <1>2, <4>1
      <4>4. st.end[r] \in Int /\ st.start[lo - 1] \in Int /\ st.end[lo - 1] \in Int /\ at \in Int
        BY <1>1, <1>2, <1>8, <4>1
      <4>5. r = lo - 1 \/ r < lo - 1
        BY <1>2, <1>8, <3>1
      <4> QED BY <4>2, <4>3, <4>4, <4>5
    <3>2. CASE hi < r
      <4>1. hi + 1 \in 1..N /\ hi + 1 \in 1..(N + 1)
        BY <1>1, <1>2, <1>8, <3>2
      <4>2. hi + 1 < r => st.end[hi + 1] <= st.start[r]
        BY <1>1, <1>8, <4>1, Apart DEF N
      <4>3. st.start[hi + 1] <= st.end[hi + 1] /\ Full <= st.start[hi + 1]
        BY <1>1, <1>2, <4>1
      <4>4. st.start[r] \in Int /\ st.start[hi + 1] \in Int /\ st.end[hi + 1] \in Int /\ Full \in Int
        BY <1>1, <1>7, <1>8, <4>1
      <4>5. r = hi + 1 \/ hi + 1 < r
        BY <1>2, <1>8, <3>2
      <4> QED BY <4>2, <4>3, <4>4, <4>5
    <3> QED BY <1>2, <1>8, <1>12, <3>1, <3>2
  <2>4. ASSUME NEW i \in 0..(Size(st, r) - 1)
        PROVE  new.cell[new.start[r] + i] = st.cell[st.start[r] + i]
    <3> DEFINE p == st.start[r] + i
    <3>1. p \in 1..Len(st.cell) /\ p \in Int /\ (p < at \/ Full <= p)
      <4>1. st.start[r] <= p /\ p < st.end[r] /\ p \in Int
        BY <1>10
      <4>2. at \in Int /\ Full \in Int /\ st.end[r] \in Int
        BY <1>2, <1>7, <1>10
      <4> HIDE DEF p
      <4>3. 1 <= p /\ p <= Len(st.cell)
        <5>1. Len(st.cell) \in Nat
          BY <1>1
        <5>2. 1 <= st.start[r] /\ st.end[r] <= Len(st.cell) + 1 /\ st.start[r] \in Int
          BY <1>8, <1>10
        <5> QED BY <4>1, <4>2, <5>1, <5>2
      <4>4. p < at \/ Full <= p
        BY <1>10, <2>3, <4>1, <4>2
      <4> QED BY <1>1, <4>1, <4>3, <4>4
    <3>2. ASSUME NEW k \in 1..Len(order) PROVE ~Taken(st, To, order[k], p)
      <4> DEFINE j == order[k]
      <4>1. j \in lo..hi
        BY <1>14, <3>2
      <4> HIDE DEF j
      <4>2. P(j) \in Int /\ at <= P(j) /\ P(j) + Size(st, j) <= Full /\ Size(st, j) \in Nat
        <5>1. j \in 1..N
          BY <1>1, <1>2, <4>1
        <5> QED BY <1>1, <1>3, <4>1, <5>1
      <4>3. Taken(st, To, j, p) <=> P(j) <= p /\ p < P(j) + Size(st, j)
        BY <1>6, <4>1 DEF Taken
      <4> HIDE DEF p
      <4> QED BY <1>2, <1>7, <3>1, <4>2, <4>3 DEF j
    <3>3. new.cell[p] = st.cell[p]
      BY <1>13, <3>1, <3>2
    <3> QED BY <1>4, <2>1, <3>1, <3>3
  <2> QED BY <1>4, <1>5, <2>2, <2>4, SameEntries DEF new
<1> QED BY <1>11, <1>12

-----------------------------------------------------------------------------
(* The search for space                                                     *)

(* Space x before row is made by moving the rows behind l: none if there is *)
(* no gap between them; otherwise the first row with a gap in front of it   *)
(* moves left by the space found last, and all of the gap is taken as long  *)
(* as something is missing.                                                 *)
IsFarthestLeft(st, row, l, lo) ==
  lo \in l + 1..row /\ GapBefore(st, lo) /\ \A j \in l + 1..lo - 1 : ~GapBefore(st, j)

LeftGives(st, row, l, left, missing, x) ==
  \/ (\A j \in l + 1..row : ~GapBefore(st, j)) /\ left = 0 /\ x = 0
  \/ \E lo \in l + 1..row :
       /\ IsFarthestLeft(st, row, l, lo)
       /\ 0 < left /\ left <= st.start[lo] - st.end[lo - 1]
       /\ missing > 0 => left = st.start[lo] - st.end[lo - 1]
       /\ x = st.end[row] - (st.start[lo] - left) - Filled(st, lo, row)

(* Space y behind row is made by moving the rows before r, likewise.        *)
IsFarthestRight(st, row, r, hi) ==
  hi \in row + 1..r - 1 /\ GapBefore(st, hi + 1) /\ \A j \in hi + 1..r - 1 : ~GapBefore(st, j + 1)

RightGives(st, row, r, right, missing, y) ==
  \/ (\A j \in row + 1..r - 1 : ~GapBefore(st, j + 1)) /\ right = 0 /\ y = 0
  \/ \E hi \in row + 1..r - 1 :
       /\ IsFarthestRight(st, row, r, hi)
       /\ 0 < right /\ right <= st.start[hi + 1] - st.end[hi]
       /\ missing > 0 => right = st.start[hi + 1] - st.end[hi]
       /\ y = st.end[hi] + right - Filled(st, row + 1, hi) - st.start[row + 1]

(* The search so far: what is found and what is missing is what is asked for*)
SearchState(st, row, leftbound, rightbound, asked, w) ==
  /\ w \in [l : Int, r : Int, left : Int, right : Int, missing : Nat, budget : Int, failed : BOOLEAN]
  /\ leftbound <= w.l /\ w.l <= row /\ row + 1 <= w.r /\ w.r <= rightbound
  /\ \E x, y \in Int : /\ x + y + w.missing = asked
                       /\ LeftGives(st, row, w.l, w.left, w.missing, x)
                       /\ RightGives(st, row, w.r, w.right, w.missing, y)

(* Less missing takes nothing away from what has been found.                *)
LEMMA StillGives ==
  ASSUME NEW st, NEW row, NEW l, NEW left, NEW r, NEW right, NEW more \in Nat, NEW less \in Nat, less <= more,
         NEW x, NEW y
  PROVE  /\ LeftGives(st, row, l, left, more, x) => LeftGives(st, row, l, left, less, x)
         /\ RightGives(st, row, r, right, more, y) => RightGives(st, row, r, right, less, y)
<1>1. less > 0 => more > 0
  OBVIOUS
<1>2. ASSUME LeftGives(st, row, l, left, more, x) PROVE LeftGives(st, row, l, left, less, x)
  BY <1>1, <1>2 DEF LeftGives
<1>3. ASSUME RightGives(st, row, r, right, more, y) PROVE RightGives(st, row, r, right, less, y)
  BY <1>1, <1>3 DEF RightGives
<1> QED BY <1>2, <1>3

(* One more row to the left                                                 *)
LEMMA LeftGivesMore ==
  ASSUME NEW st, WellLaid(st), NEW row \in RowsOf(st), NEW l \in Int, 1 < l, l <= row,
         NEW left, NEW missing \in Nat, missing > 0, NEW x \in Int, LeftGives(st, row, l, left, missing, x),
         NEW found, found = Least(missing, st.start[l] - st.end[l - 1])
  PROVE  /\ found \in Nat /\ found <= missing
         /\ LeftGives(st, row, l - 1, IF found # 0 THEN found ELSE left, missing - found, x + found)
<1> DEFINE gap == st.start[l] - st.end[l - 1]
           N == NRowsOf(st)
<1>1. /\ N \in Nat /\ RowsOf(st) = 1..N
      /\ \A k \in 1..N : st.start[k] \in Int /\ st.end[k] \in Int
      /\ \A k \in 1..N : st.start[k] <= st.end[k] /\ st.end[k] <= st.start[k + 1]
  BY LaidFacts
<1>2. row \in Int /\ row <= N /\ l \in 1..N /\ l - 1 \in 1..N /\ l - 1 + 1 = l
  BY <1>1
<1>3. gap \in Nat /\ st.start[l] \in Int /\ st.end[l - 1] \in Int /\ st.end[row] \in Int
  <2>1. st.end[l - 1] <= st.start[l - 1 + 1]
    BY <1>1, <1>2
  <2> QED BY <1>1, <1>2, <2>1
<1>4. found \in Nat /\ found <= missing /\ found <= gap /\ (found = missing \/ found = gap)
  BY <1>3 DEF Least
<1>5. CASE found = 0
  <2>1. ~GapBefore(st, l)
    BY <1>3, <1>4, <1>5 DEF GapBefore
  <2>2. \A j \in (l - 1) + 1..row : j = l \/ j \in l + 1..row
    BY <1>2
  <2>3. ASSUME (\A j \in l + 1..row : ~GapBefore(st, j)) /\ left = 0 /\ x = 0
        PROVE  LeftGives(st, row, l - 1, left, missing, x)
    BY <2>1, <2>2, <2>3 DEF LeftGives
  <2>4. ASSUME NEW lo \in l + 1..row, IsFarthestLeft(st, row, l, lo),
               0 < left, left <= st.start[lo] - st.end[lo - 1],
               missing > 0 => left = st.start[lo] - st.end[lo - 1],
               x = st.end[row] - (st.start[lo] - left) - Filled(st, lo, row)
        PROVE  LeftGives(st, row, l - 1, left, missing, x)
    <3>1. lo \in (l - 1) + 1..row
      BY <1>2
    <3>2. \A j \in (l - 1) + 1..lo - 1 : j = l \/ j \in l + 1..lo - 1
      BY <1>2
    <3>3. IsFarthestLeft(st, row, l - 1, lo)
      BY <2>1, <2>4, <3>1, <3>2 DEF IsFarthestLeft
    <3> QED BY <2>4, <3>1, <3>3 DEF LeftGives
  <2>5. LeftGives(st, row, l - 1, left, missing, x)
    <3>1. \/ (\A j \in l + 1..row : ~GapBefore(st, j)) /\ left = 0 /\ x = 0
          \/ \E lo \in l + 1..row :
               /\ IsFarthestLeft(st, row, l, lo)
               /\ 0 < left /\ left <= st.start[lo] - st.end[lo - 1]
               /\ missing > 0 => left = st.start[lo] - st.end[lo - 1]
               /\ x = st.end[row] - (st.start[lo] - left) - Filled(st, lo, row)
      BY DEF LeftGives
    <3> QED BY <2>3, <2>4, <3>1
  <2>6. missing - found = missing /\ x + found = x
    BY <1>5
  <2> QED BY <1>4, <1>5, <2>5, <2>6
<1>6. CASE found # 0
  <2>1. l \in (l - 1) + 1..row /\ (l - 1) + 1..l - 1 = {}
    BY <1>2
  <2>2. GapBefore(st, l)
    BY <1>3, <1>4, <1>6 DEF GapBefore
  <2>3. IsFarthestLeft(st, row, l - 1, l)
    BY <2>1, <2>2 DEF IsFarthestLeft
  <2>4. missing - found > 0 => found = gap
    BY <1>4
  <2>5. Filled(st, l, row) \in Int /\ Sized(st, l, row)
    BY <1>2, FilledInside
  <2>6. x = st.end[row] - st.start[l] - Filled(st, l, row)
    <3>1. CASE (\A j \in l + 1..row : ~GapBefore(st, j)) /\ left = 0 /\ x = 0
      <4>1. Filled(st, l, row) = st.end[row] - st.start[l]
        BY <1>2, <3>1, FilledInside
      <4> QED BY <1>3, <3>1, <4>1
    <3>2. ASSUME NEW lo \in l + 1..row, IsFarthestLeft(st, row, l, lo),
                 missing > 0 => left = st.start[lo] - st.end[lo - 1],
                 x = st.end[row] - (st.start[lo] - left) - Filled(st, lo, row)
          PROVE  x = st.end[row] - st.start[l] - Filled(st, l, row)
      <4>1. lo \in Int /\ lo \in 1..N /\ lo - 1 \in 1..N /\ l <= lo /\ lo <= row + 1 /\ l <= lo - 1
        BY <1>1, <1>2
      <4>2. /\ Filled(st, l, row) = Filled(st, l, lo - 1) + Filled(st, lo, row)
            /\ Filled(st, l, lo - 1) \in Int /\ Filled(st, lo, row) \in Int
        BY <1>2, <2>5, <4>1, FilledSplit
      <4>3. Filled(st, l, lo - 1) = st.end[lo - 1] - st.start[l]
        <5>1. 1 <= l /\ lo - 1 <= NRowsOf(st) /\ lo - 1 \in Int /\ l <= lo - 1 + 1
          BY <1>1, <1>2, <4>1
        <5>2. \A k \in l + 1..lo - 1 : ~GapBefore(st, k)
          BY <3>2 DEF IsFarthestLeft
        <5> QED BY <4>1, <5>1, <5>2, FilledInside
      <4>4. st.start[lo] \in Int /\ st.end[lo - 1] \in Int
        BY <1>1, <4>1
      <4> QED BY <1>3, <3>2, <4>2, <4>3, <4>4
    <3> QED BY <3>1, <3>2 DEF LeftGives
  <2>7. x + found = st.end[row] - (st.start[l] - found) - Filled(st, l, row)
    BY <1>3, <1>4, <2>5, <2>6
  <2>8. LeftGives(st, row, l - 1, found, missing - found, x + found)
    <3>1. 0 < found /\ found <= st.start[l] - st.end[l - 1]
      BY <1>4, <1>6
    <3> QED BY <2>1, <2>3, <2>4, <2>7, <3>1 DEF LeftGives
  <2> QED BY <1>4, <1>6, <2>8
<1> QED BY <1>5, <1>6

(* One more row to the right                                                *)
LEMMA RightGivesMore ==
  ASSUME NEW st, WellLaid(st), NEW row \in RowsOf(st), NEW r \in RowsOf(st), row < r,
         NEW right, NEW missing \in Nat, missing > 0, NEW y \in Int, RightGives(st, row, r, right, missing, y),
         NEW found, found = Least(missing, st.start[r + 1] - st.end[r])
  PROVE  /\ found \in Nat /\ found <= missing
         /\ RightGives(st, row, r + 1, IF found # 0 THEN found ELSE right, missing - found, y + found)
<1> DEFINE gap == st.start[r + 1] - st.end[r]
           N == NRowsOf(st)
<1>1. /\ N \in Nat /\ RowsOf(st) = 1..N
      /\ \A k \in 1..(N + 1) : st.start[k] \in Int /\ st.end[k] \in Int
      /\ \A k \in 1..N : st.start[k] <= st.end[k] /\ st.end[k] <= st.start[k + 1]
  BY LaidFacts
<1>2. /\ row \in Int /\ r \in Int /\ row + 1 <= r /\ row + 1 \in 1..N /\ r \in 1..N /\ r + 1 \in 1..(N + 1)
      /\ r + 1 - 1 = r /\ 1 <= row + 1 /\ r <= N
  BY <1>1
<1>3. gap \in Nat /\ st.start[r + 1] \in Int /\ st.end[r] \in Int /\ st.start[row + 1] \in Int
  <2>1. st.end[r] <= st.start[r + 1]
    BY <1>1, <1>2
  <2>2. r \in 1..(N + 1) /\ row + 1 \in 1..(N + 1)
    BY <1>1, <1>2
  <2> QED BY <1>1, <1>2, <2>1, <2>2
<1>4. found \in Nat /\ found <= missing /\ found <= gap /\ (found = missing \/ found = gap)
  BY <1>3 DEF Least
<1>5. CASE found = 0
  <2>1. ~GapBefore(st, r + 1)
    BY <1>2, <1>3, <1>4, <1>5 DEF GapBefore
  <2>2. \A j \in row + 1..(r + 1) - 1 : j = r \/ j \in row + 1..r - 1
    BY <1>2
  <2>3. ASSUME (\A j \in row + 1..r - 1 : ~GapBefore(st, j + 1)) /\ right = 0 /\ y = 0
        PROVE  RightGives(st, row, r + 1, right, missing, y)
    BY <2>1, <2>2, <2>3 DEF RightGives
  <2>4. ASSUME NEW hi \in row + 1..r - 1, IsFarthestRight(st, row, r, hi),
               0 < right, right <= st.start[hi + 1] - st.end[hi],
               missing > 0 => right = st.start[hi + 1] - st.end[hi],
               y = st.end[hi] + right - Filled(st, row + 1, hi) - st.start[row + 1]
        PROVE  RightGives(st, row, r + 1, right, missing, y)
    <3>1. hi \in row + 1..(r + 1) - 1
      BY <1>2
    <3>2. \A j \in hi + 1..(r + 1) - 1 : j = r \/ j \in hi + 1..r - 1
      BY <1>2
    <3>3. IsFarthestRight(st, row, r + 1, hi)
      BY <2>1, <2>4, <3>1, <3>2 DEF IsFarthestRight
    <3> QED BY <2>4, <3>1, <3>3 DEF RightGives
  <2>5. RightGives(st, row, r + 1, right, missing, y)
    <3>1. \/ (\A j \in row + 1..r - 1 : ~GapBefore(st, j + 1)) /\ right = 0 /\ y = 0
          \/ \E hi \in row + 1..r - 1 :
               /\ IsFarthestRight(st, row, r, hi)
               /\ 0 < right /\ right <= st.start[hi + 1] - st.end[hi]
               /\ missing > 0 => right = st.start[hi + 1] - st.end[hi]
               /\ y = st.end[hi] + right - Filled(st, row + 1, hi) - st.start[row + 1]
      BY DEF RightGives
    <3> QED BY <2>3, <2>4, <3>1
  <2>6. missing - found = missing /\ y + found = y
    BY <1>5
  <2> QED BY <1>4, <1>5, <2>5, <2>6
<1>6. CASE found # 0
  <2>1. r \in row + 1..(r + 1) - 1 /\ r + 1..(r + 1) - 1 = {}
    BY <1>2
  <2>2. GapBefore(st, r + 1)
    BY <1>2, <1>3, <1>4, <1>6 DEF GapBefore
  <2>3. IsFarthestRight(st, row, r + 1, r)
    BY <2>1, <2>2 DEF IsFarthestRight
  <2>4. missing - found > 0 => found = gap
    BY <1>4
  <2>5. Filled(st, row + 1, r) \in Int /\ Sized(st, row + 1, r)
    BY <1>2, FilledInside
  <2>6. y = st.end[r] - Filled(st, row + 1, r) - st.start[row + 1]
    <3>1. CASE (\A j \in row + 1..r - 1 : ~GapBefore(st, j + 1)) /\ right = 0 /\ y = 0
      <4>1. ASSUME NEW k \in (row + 1) + 1..r PROVE ~GapBefore(st, k)
        <5>1. k - 1 \in row + 1..r - 1 /\ k - 1 + 1 = k
          BY <1>2
        <5> QED BY <3>1, <5>1
      <4>2. Filled(st, row + 1, r) = st.end[r] - st.start[row + 1]
        BY <1>2, <4>1, FilledInside
      <4> QED BY <1>3, <3>1, <4>2
    <3>2. ASSUME NEW hi \in row + 1..r - 1, IsFarthestRight(st, row, r, hi),
                 missing > 0 => right = st.start[hi + 1] - st.end[hi],
                 y = st.end[hi] + right - Filled(st, row + 1, hi) - st.start[row + 1]
          PROVE  y = st.end[r] - Filled(st, row + 1, r) - st.start[row + 1]
      <4>1. /\ hi \in Int /\ hi \in 1..N /\ hi + 1 \in 1..N /\ hi + 1 \in Int /\ row + 1 <= hi + 1
            /\ hi + 1 <= r + 1 /\ hi + 1 <= r /\ hi + 1 - 1 = hi
        BY <1>1, <1>2
      <4>2. /\ Filled(st, row + 1, r) = Filled(st, row + 1, hi) + Filled(st, hi + 1, r)
            /\ Filled(st, row + 1, hi) \in Int /\ Filled(st, hi + 1, r) \in Int
        <5>1. /\ Filled(st, row + 1, r) = Filled(st, row + 1, (hi + 1) - 1) + Filled(st, hi + 1, r)
              /\ Filled(st, row + 1, (hi + 1) - 1) \in Int /\ Filled(st, hi + 1, r) \in Int
          BY <1>2, <2>5, <4>1, FilledSplit
        <5> QED BY <4>1, <5>1
      <4>3. Filled(st, hi + 1, r) = st.end[r] - st.start[hi + 1]
        <5>1. ASSUME NEW k \in (hi + 1) + 1..r PROVE ~GapBefore(st, k)
          <6>1. k - 1 \in hi + 1..r - 1 /\ k - 1 + 1 = k
            BY <1>2, <4>1
          <6> QED BY <3>2, <6>1 DEF IsFarthestRight
        <5>2. 1 <= hi + 1 /\ r <= NRowsOf(st) /\ hi + 1 <= r + 1
          BY <1>2, <4>1
        <5> QED BY <1>2, <4>1, <5>1, <5>2, FilledInside
      <4>4. st.start[hi + 1] \in Int /\ st.end[hi] \in Int
        <5>1. hi \in 1..(N + 1) /\ hi + 1 \in 1..(N + 1)
          BY <1>1, <4>1
        <5> QED BY <1>1, <5>1
      <4> QED BY <1>3, <3>2, <4>2, <4>3, <4>4
    <3> QED BY <3>1, <3>2 DEF RightGives
  <2>7. y + found = st.end[r] + found - Filled(st, row + 1, r) - st.start[row + 1]
    BY <1>3, <1>4, <2>5, <2>6
  <2>8. RightGives(st, row, r + 1, found, missing - found, y + found)
    <3>1. 0 < found /\ found <= st.start[r + 1] - st.end[r]
      BY <1>4, <1>6
    <3> QED BY <2>1, <2>3, <2>4, <2>7, <3>1 DEF RightGives
  <2> QED BY <1>4, <1>6, <2>8
<1> QED BY <1>5, <1>6

(* Each step of the search adds what it finds.                              *)
LEMMA SearchStepKeeps ==
  ASSUME NEW st, WellLaid(st), NEW row \in RowsOf(st), NEW leftbound \in Int, NEW rightbound \in Int, NEW asked,
         1 <= leftbound, rightbound <= NRowsOf(st) + 1,
         NEW w, SearchState(st, row, leftbound, rightbound, asked, w),
         NEW new, new = SearchStep(st, leftbound, rightbound, w)
  PROVE  /\ SearchState(st, row, leftbound, rightbound, asked, new)
         /\ new.failed \/ new.missing = 0 \/ new.r - new.l = w.r - w.l + 1
         /\ (w.failed \/ w.missing = 0) => new = w
<1> DEFINE S == [l : Int, r : Int, left : Int, right : Int, missing : Nat, budget : Int, failed : BOOLEAN]
           N == NRowsOf(st)
<1>1. /\ w \in S /\ leftbound <= w.l /\ w.l <= row /\ row + 1 <= w.r /\ w.r <= rightbound
  BY DEF SearchState
<1>2. PICK x \in Int, y \in Int : /\ x + y + w.missing = asked
                                  /\ LeftGives(st, row, w.l, w.left, w.missing, x)
                                  /\ RightGives(st, row, w.r, w.right, w.missing, y)
  BY DEF SearchState
<1>3. N \in Nat /\ RowsOf(st) = 1..N /\ row \in 1..N /\ \A k \in RowsOf(st) : Size(st, k) \in Nat
  BY LaidFacts
<1>4. CASE w.missing = 0 \/ w.failed
  BY <1>4 DEF SearchStep
<1>5. CASE ~(w.missing = 0 \/ w.failed) /\ new = [w EXCEPT !.failed = TRUE]
  <2>1. /\ new \in S /\ new.l = w.l /\ new.r = w.r /\ new.left = w.left /\ new.right = w.right
        /\ new.missing = w.missing /\ new.failed
    BY <1>1, <1>5
  <2>2. SearchState(st, row, leftbound, rightbound, asked, new)
    BY <1>1, <1>2, <2>1 DEF SearchState
  <2> QED BY <1>5, <2>1, <2>2
<1>6. CASE ~(w.missing = 0 \/ w.failed) /\ w.l > leftbound /\ new = GoLeft(st, w)
  <2> DEFINE found == Least(w.missing, st.start[w.l] - st.end[w.l - 1])
             left == IF found # 0 THEN found ELSE w.left
  <2>1. w.l \in Int /\ 1 < w.l /\ w.l <= row /\ w.missing \in Nat /\ w.missing > 0 /\ w.l \in RowsOf(st)
    BY <1>1, <1>3, <1>6
  <2>2. /\ found \in Nat /\ found <= w.missing
        /\ LeftGives(st, row, w.l - 1, left, w.missing - found, x + found)
    BY <1>2, <2>1, LeftGivesMore
  <2>3. Size(st, w.l) \in Int /\ left \in Int
    BY <1>1, <1>3, <2>1, <2>2
  <2>4. new = [w EXCEPT !.l = w.l - 1, !.budget = w.budget - Size(st, w.l), !.missing = w.missing - found, !.left = left]
    BY <1>1, <1>6 DEF GoLeft
  <2> HIDE DEF found, left
  <2>5. w.missing - found \in Nat /\ w.missing - found <= w.missing /\ w.missing \in Nat
    BY <2>1, <2>2
  <2>6. /\ new \in S /\ new.l = w.l - 1 /\ new.r = w.r /\ new.left = left /\ new.right = w.right
        /\ new.missing = w.missing - found
    <3>1. w.l - 1 \in Int /\ w.budget - Size(st, w.l) \in Int
      BY <1>1, <2>3
    <3> QED BY <1>1, <2>3, <2>4, <2>5, <3>1
  <2>7. RightGives(st, row, w.r, w.right, w.missing - found, y)
    BY <1>2, <2>5, StillGives
  <2>8. x + found \in Int /\ (x + found) + y + new.missing = asked
    BY <1>2, <2>2, <2>1, <2>6
  <2>9. leftbound <= new.l /\ new.l <= row /\ row + 1 <= new.r /\ new.r <= rightbound
    <3>1. w.l \in Int /\ w.r \in Int /\ leftbound <= w.l /\ w.l <= row /\ row + 1 <= w.r /\ w.r <= rightbound
      BY <1>1
    <3>2. new.l = w.l - 1 /\ new.r = w.r /\ row \in Int
      BY <1>3, <2>6
    <3> QED BY <1>6, <3>1, <3>2
  <2>10. SearchState(st, row, leftbound, rightbound, asked, new)
    BY <2>2, <2>6, <2>7, <2>8, <2>9 DEF SearchState
  <2>11. new.r - new.l = w.r - w.l + 1
    BY <1>1, <2>6
  <2> QED BY <1>6, <2>10, <2>11
<1>7. CASE ~(w.missing = 0 \/ w.failed) /\ w.r < rightbound /\ new = GoRight(st, w)
  <2> DEFINE found == Least(w.missing, st.start[w.r + 1] - st.end[w.r])
             right == IF found # 0 THEN found ELSE w.right
  <2>1. w.r \in RowsOf(st) /\ row < w.r /\ w.missing \in Nat /\ w.missing > 0
    BY <1>1, <1>3, <1>7
  <2>2. /\ found \in Nat /\ found <= w.missing
        /\ RightGives(st, row, w.r + 1, right, w.missing - found, y + found)
    BY <1>2, <2>1, RightGivesMore
  <2>3. Size(st, w.r) \in Int /\ right \in Int
    BY <1>1, <1>3, <2>1, <2>2
  <2>4. new = [w EXCEPT !.r = w.r + 1, !.budget = w.budget - Size(st, w.r), !.missing = w.missing - found, !.right = right]
    BY <1>1, <1>7 DEF GoRight
  <2> HIDE DEF found, right
  <2>5. w.missing - found \in Nat /\ w.missing - found <= w.missing /\ w.missing \in Nat
    BY <2>1, <2>2
  <2>6. /\ new \in S /\ new.l = w.l /\ new.r = w.r + 1 /\ new.left = w.left /\ new.right = right
        /\ new.missing = w.missing - found
    <3>1. w.r + 1 \in Int /\ w.budget - Size(st, w.r) \in Int
      BY <1>1, <2>3
    <3> QED BY <1>1, <2>3, <2>4, <2>5, <3>1
  <2>7. LeftGives(st, row, w.l, w.left, w.missing - found, x)
    BY <1>2, <2>5, StillGives
  <2>8. y + found \in Int /\ x + (y + found) + new.missing = asked
    BY <1>2, <2>2, <2>1, <2>6
  <2>9. leftbound <= new.l /\ new.l <= row /\ row + 1 <= new.r /\ new.r <= rightbound
    <3>1. w.l \in Int /\ w.r \in Int /\ leftbound <= w.l /\ w.l <= row /\ row + 1 <= w.r /\ w.r <= rightbound
      BY <1>1
    <3>2. new.l = w.l /\ new.r = w.r + 1 /\ row \in Int
      BY <1>3, <2>6
    <3> QED BY <1>7, <3>1, <3>2
  <2>10. SearchState(st, row, leftbound, rightbound, asked, new)
    BY <2>2, <2>6, <2>7, <2>8, <2>9 DEF SearchState
  <2>11. new.r - new.l = w.r - w.l + 1
    BY <1>1, <2>6
  <2> QED BY <1>7, <2>10, <2>11
<1>8. \/ w.missing = 0 \/ w.failed
      \/ new = [w EXCEPT !.failed = TRUE]
      \/ w.l > leftbound /\ new = GoLeft(st, w)
      \/ w.r < rightbound /\ new = GoRight(st, w)
  BY DEF SearchStep
<1> QED BY <1>4, <1>5, <1>6, <1>7, <1>8

(* The search takes a step at a time.                                       *)
LEMMA SearchRuns ==
  ASSUME NEW st, NRowsOf(st) \in Nat, NEW leftbound, NEW rightbound, NEW initial
  PROVE  \E f : /\ f[0] = initial
                /\ \A k \in 1..NRowsOf(st) : f[k] = SearchStep(st, leftbound, rightbound, f[k - 1])
                /\ Search(st, leftbound, rightbound, initial) = f[NRowsOf(st)]
<1> DEFINE N == NRowsOf(st)
           Runs(f, m) == f = [k \in 0..m |-> IF k = 0 THEN initial ELSE SearchStep(st, leftbound, rightbound, f[k - 1])]
           G == {m \in 0..N : \E f : Runs(f, m)}
<1>1. 0 \in G
  <2> DEFINE f == [k \in 0..0 |-> initial]
  <2>1. f = [k \in 0..0 |-> IF k = 0 THEN initial ELSE SearchStep(st, leftbound, rightbound, f[k - 1])]
    OBVIOUS
  <2>2. Runs(f, 0)
    BY <2>1
  <2>3. 0 \in 0..N
    OBVIOUS
  <2> HIDE DEF Runs, f, N
  <2> QED BY <2>2, <2>3
<1>2. ASSUME NEW m \in 0..N - 1, m \in G
      PROVE  m + 1 \in G
  <2>1. PICK f : Runs(f, m)
    BY <1>2
  <2> DEFINE g == [k \in 0..(m + 1) |-> IF k = 0 THEN initial ELSE SearchStep(st, leftbound, rightbound, f[k - 1])]
  <2>2. \A k \in 0..m : g[k] = f[k]
    BY <2>1
  <2>3. \A k \in 0..(m + 1) : k = 0 \/ k - 1 \in 0..m
    OBVIOUS
  <2>4. \A k \in 0..(m + 1) : k # 0 => f[k - 1] = g[k - 1]
    <3> HIDE DEF g
    <3> QED BY <2>2, <2>3
  <2>5. g = [k \in 0..(m + 1) |-> IF k = 0 THEN initial ELSE SearchStep(st, leftbound, rightbound, g[k - 1])]
    <3> DEFINE h == [k \in 0..(m + 1) |-> IF k = 0 THEN initial ELSE SearchStep(st, leftbound, rightbound, g[k - 1])]
    <3>1. \A k \in 0..(m + 1) : (IF k = 0 THEN initial ELSE SearchStep(st, leftbound, rightbound, f[k - 1])) =
                                (IF k = 0 THEN initial ELSE SearchStep(st, leftbound, rightbound, g[k - 1]))
      BY <2>4
    <3> QED BY <3>1
  <2>6. Runs(g, m + 1)
    BY <2>5
  <2>7. m + 1 \in 0..N
    OBVIOUS
  <2> HIDE DEF Runs, g, N
  <2> QED BY <2>6, <2>7
<1>3. N \in G
  <2> HIDE DEF G, N
  <2>1. N \in Nat
    BY DEF N
  <2> QED BY <1>1, <1>2, <2>1, CountUp
<1> DEFINE after == CHOOSE f : Runs(f, N)
<1>4. Runs(after, N)
  <2>1. \E f : Runs(f, N)
    BY <1>3
  <2> HIDE DEF Runs
  <2> QED BY <2>1
<1>5. Search(st, leftbound, rightbound, initial) = after[N]
  BY DEF Search
<1> HIDE DEF after
<1>6. after[0] = initial /\ \A k \in 1..N : after[k] = SearchStep(st, leftbound, rightbound, after[k - 1])
  BY <1>4
<1> QED BY <1>5, <1>6

(* It ends with an answer: no, or the space asked for has been found.       *)
LEMMA SearchFinds ==
  ASSUME NEW st, WellLaid(st), NEW row \in RowsOf(st), NEW leftbound \in Int, NEW rightbound \in Int,
         1 <= leftbound, leftbound <= row, row + 1 <= rightbound, rightbound <= NRowsOf(st) + 1,
         NEW asked \in Nat, asked > 0, NEW budget \in Int,
         NEW initial, initial = [l |-> row, r |-> row + 1, left |-> 0, right |-> 0, missing |-> asked,
                                 budget |-> budget, failed |-> FALSE]
  PROVE  LET found == Search(st, leftbound, rightbound, initial)
         IN /\ SearchState(st, row, leftbound, rightbound, asked, found)
            /\ found.failed \/ found.missing = 0
<1> DEFINE N == NRowsOf(st)
           State(w) == SearchState(st, row, leftbound, rightbound, asked, w)
           Done(w) == w.failed \/ w.missing = 0
<1>1. N \in Nat /\ RowsOf(st) = 1..N /\ row \in Int
  BY LaidFacts
<1>2. PICK f : /\ f[0] = initial
               /\ \A k \in 1..N : f[k] = SearchStep(st, leftbound, rightbound, f[k - 1])
               /\ Search(st, leftbound, rightbound, initial) = f[N]
  BY <1>1, SearchRuns
<1> DEFINE G == {k \in 0..N : State(f[k]) /\ (Done(f[k]) \/ f[k].r - f[k].l = k + 1)}
<1>3. 0 \in G
  <2>1. /\ initial \in [l : Int, r : Int, left : Int, right : Int, missing : Nat, budget : Int, failed : BOOLEAN]
        /\ initial.l = row /\ initial.r = row + 1 /\ initial.left = 0 /\ initial.right = 0 /\ initial.missing = asked
    BY <1>1
  <2>2. row + 1..row = {} /\ row + 1..(row + 1) - 1 = {}
    BY <1>1
  <2>3. LeftGives(st, row, row, 0, asked, 0)
    BY <2>2 DEF LeftGives
  <2>4. RightGives(st, row, row + 1, 0, asked, 0)
    BY <2>2 DEF RightGives
  <2>5. 0 + 0 + asked = asked /\ 0 \in Int
    OBVIOUS
  <2>6. State(initial)
    BY <1>1, <2>1, <2>3, <2>4, <2>5 DEF SearchState
  <2>7. initial.r - initial.l = 0 + 1 /\ 0 \in 0..N
    BY <1>1, <2>1
  <2> HIDE DEF State, Done, N
  <2> QED BY <1>2, <2>6, <2>7
<1>4. ASSUME NEW k \in 0..N - 1, k \in G
      PROVE  k + 1 \in G
  <2>1. f[k + 1] = SearchStep(st, leftbound, rightbound, f[k])
    <3>1. k + 1 \in 1..N /\ k + 1 - 1 = k
      BY <1>1
    <3> QED BY <1>2, <3>1
  <2>2. State(f[k]) /\ (Done(f[k]) \/ f[k].r - f[k].l = k + 1)
    BY <1>4
  <2>3. /\ State(f[k + 1])
        /\ Done(f[k + 1]) \/ f[k + 1].r - f[k + 1].l = f[k].r - f[k].l + 1
        /\ Done(f[k]) => f[k + 1] = f[k]
    <3>1. SearchState(st, row, leftbound, rightbound, asked, f[k])
      BY <2>2
    <3>2. /\ SearchState(st, row, leftbound, rightbound, asked, f[k + 1])
          /\ f[k + 1].failed \/ f[k + 1].missing = 0 \/ f[k + 1].r - f[k + 1].l = f[k].r - f[k].l + 1
          /\ (f[k].failed \/ f[k].missing = 0) => f[k + 1] = f[k]
      BY <2>1, <3>1, SearchStepKeeps
    <3> QED BY <3>2
  <2>4. k + 1 \in 0..N /\ f[k].r - f[k].l + 1 = f[k].r - f[k].l + 1
    BY <1>1
  <2> HIDE DEF State, Done, N
  <2> QED BY <2>2, <2>3, <2>4
<1>5. N \in G
  <2> HIDE DEF G, N
  <2> QED BY <1>1, <1>3, <1>4, CountUp
<1>6. Done(f[N])
  <2>1. f[N].l \in Int /\ f[N].r \in Int /\ leftbound <= f[N].l /\ f[N].r <= rightbound
    BY <1>5 DEF SearchState
  <2>2. f[N].r - f[N].l <= N
    BY <1>1, <2>1
  <2>3. Done(f[N]) \/ f[N].r - f[N].l = N + 1
    BY <1>5
  <2> HIDE DEF Done
  <2> QED BY <1>1, <2>1, <2>2, <2>3
<1> QED BY <1>2, <1>5, <1>6

-----------------------------------------------------------------------------
(* Moving the rows                                                          *)

(* Storages with the same rows, of which only those of S may have moved     *)
SameRows(old, new, S) ==
  /\ WellLaid(new) /\ NRowsOf(new) = NRowsOf(old)
  /\ \A r \in RowsOf(old) : Entries(new, r) = Entries(old, r)
  /\ \A k \in (1..(NRowsOf(old) + 1)) \ S : new.start[k] = old.start[k] /\ new.end[k] = old.end[k]

(* One thing after the other                                                *)
LEMMA SameRowsTwice ==
  ASSUME NEW old, NEW mid, NEW new, NEW S, NEW T, SameRows(old, mid, S), SameRows(mid, new, T)
  PROVE  SameRows(old, new, S \cup T)
<1>1. RowsOf(mid) = RowsOf(old)
  BY DEF RowsOf, SameRows
<1> QED BY <1>1 DEF SameRows

(* Packing is such a move.                                                  *)
LEMMA PackedSameRows ==
  ASSUME NEW st, WellLaid(st), NEW lo, NEW hi, NEW at, Fits(st, lo, hi, at),
         NEW order, PacksInTurn(st, lo, hi, at, order)
  PROVE  /\ SameRows(st, Packed(st, lo, hi, at, order), lo..hi)
         /\ Packed(st, lo, hi, at, order).start[lo] = at
         /\ Packed(st, lo, hi, at, order).end[hi] = at + Filled(st, lo, hi)
<1> DEFINE new == Packed(st, lo, hi, at, order)
<1>1. WellLaid(new) /\ \A r \in RowsOf(st) : Entries(new, r) = Entries(st, r)
  BY PackedLaid, PackedEntries
<1>2. /\ NRowsOf(new) = NRowsOf(st)
      /\ \A k \in lo..hi : new.start[k] = PackedStart(st, lo, k, at) /\ new.end[k] = PackedStart(st, lo, k, at) + Size(st, k)
      /\ \A k \in (1..(NRowsOf(st) + 1)) \ (lo..hi) : new.start[k] = st.start[k] /\ new.end[k] = st.end[k]
  BY PackedFields
<1>3. lo \in lo..hi /\ hi \in lo..hi
  <2>1. lo \in Int /\ hi \in Int /\ lo <= hi
    BY LaidFacts DEF Fits
  <2> QED BY <2>1
<1>4. PackedStart(st, lo, lo, at) = at /\ PackedStart(st, lo, hi, at) + Size(st, hi) = at + Filled(st, lo, hi)
  BY PackedStarts
<1> HIDE DEF new
<1>5. SameRows(st, new, lo..hi)
  BY <1>1, <1>2 DEF SameRows
<1> QED BY <1>2, <1>3, <1>4, <1>5 DEF new

(* The rows to the left make the space found.                               *)
LEMMA PackedLeftMakes ==
  ASSUME NEW st, WellLaid(st), NEW row \in RowsOf(st), NEW w, w.l \in Int, 1 <= w.l, w.l <= row,
         w.left \in Int, NEW x \in Int, LeftGives(st, row, w.l, w.left, 0, x)
  PROVE  /\ SameRows(st, PackedLeft(st, row, w), w.l + 1..row)
         /\ PackedLeft(st, row, w).end[row] = st.end[row] - x
<1> DEFINE N == NRowsOf(st)
           new == PackedLeft(st, row, w)
<1>1. /\ N \in Nat /\ RowsOf(st) = 1..N /\ row \in 1..N
      /\ \A k \in 1..N : st.start[k] \in Int /\ st.end[k] \in Int
      /\ \A k \in 1..N : st.start[k] <= st.end[k] /\ st.end[k] <= st.start[k + 1]
  <2>1. /\ N \in Nat /\ RowsOf(st) = 1..N
        /\ \A k \in 1..(N + 1) : st.start[k] \in Int /\ st.end[k] \in Int
        /\ \A k \in RowsOf(st) : st.start[k] <= st.end[k] /\ st.end[k] <= st.start[k + 1]
    BY LaidFacts
  <2>2. \A k \in 1..N : k \in 1..(N + 1)
    BY <2>1
  <2> HIDE DEF N
  <2> QED BY <2>1, <2>2
<1>2. CASE w.left = 0 /\ x = 0
  <2>1. new = st
    BY <1>2 DEF PackedLeft
  <2>2. SameRows(st, st, w.l + 1..row)
    BY DEF SameRows
  <2>3. st.end[row] - 0 = st.end[row]
    BY <1>1
  <2> QED BY <1>2, <2>1, <2>2, <2>3
<1>3. ASSUME NEW lo \in w.l + 1..row, IsFarthestLeft(st, row, w.l, lo),
             0 < w.left, w.left <= st.start[lo] - st.end[lo - 1],
             x = st.end[row] - (st.start[lo] - w.left) - Filled(st, lo, row)
      PROVE  SameRows(st, new, w.l + 1..row) /\ new.end[row] = st.end[row] - x
  <2>1. FarthestLeft(st, row, w.l) = lo
    <3>1. \A k \in w.l + 1..row : IsFarthestLeft(st, row, w.l, k) => k = lo
      <4> SUFFICES ASSUME NEW k \in w.l + 1..row, IsFarthestLeft(st, row, w.l, k) PROVE k = lo
        OBVIOUS
      <4>1. k < lo => k \in w.l + 1..lo - 1
        BY <1>1
      <4>2. lo < k => lo \in w.l + 1..k - 1
        BY <1>1
      <4>3. k \in Int /\ lo \in Int
        BY <1>1
      <4> QED BY <1>3, <4>1, <4>2, <4>3 DEF IsFarthestLeft
    <3>2. FarthestLeft(st, row, w.l) = CHOOSE k \in w.l + 1..row : IsFarthestLeft(st, row, w.l, k)
      BY DEF FarthestLeft, IsFarthestLeft
    <3> QED BY <1>3, <3>1, <3>2
  <2> DEFINE at == st.start[lo] - w.left
  <2>2. new = Packed(st, lo, row, at, Upwards(lo, row))
    BY <1>3, <2>1 DEF PackedLeft
  <2>3. lo \in 1..N /\ lo - 1 \in 1..N /\ lo \in Int /\ row \in Int /\ lo <= row /\ lo <= row + 1 /\ row + 1 \in 1..(N + 1)
    BY <1>1
  <2>4. st.start[lo] \in Int /\ st.end[lo - 1] \in Int /\ st.start[lo - 1] \in Int /\ st.end[row] \in Int /\ st.start[row + 1] \in Int
    <3>1. st.start[row + 1] \in Int
      BY <2>3, LaidFacts
    <3> QED BY <1>1, <2>3, <3>1
  <2>5. Filled(st, lo, row) \in Nat /\ Filled(st, lo, row) <= st.end[row] - st.start[lo]
    BY <1>1, <2>3, FilledInside
  <2>6. 1 <= st.start[lo - 1] /\ st.start[lo - 1] <= st.end[lo - 1] /\ st.end[row] <= st.start[row + 1]
    <3>1. 1 <= st.start[lo - 1]
      BY <1>1, <2>3, InArray
    <3> QED BY <1>1, <2>3, <3>1
  <2>8. at \in Int /\ 1 <= at /\ st.end[lo - 1] <= at /\ at + Filled(st, lo, row) <= st.start[row + 1]
    BY <1>3, <2>4, <2>5, <2>6
  <2>9. Fits(st, lo, row, at)
    BY <1>1, <2>3, <2>8 DEF Fits
  <2>7. at <= st.start[lo]
    BY <1>3, <2>4
  <2> HIDE DEF at
  <2>10. SameRows(st, new, lo..row) /\ new.end[row] = at + Filled(st, lo, row)
    <3>1. PacksInTurn(st, lo, row, at, Upwards(lo, row))
      BY <2>7, <2>9, UpwardsInTurn
    <3> QED BY <2>2, <2>9, <3>1, PackedSameRows
  <2>11. new.end[row] = st.end[row] - x
    <3>1. x = st.end[row] - at - Filled(st, lo, row)
      BY <1>3 DEF at
    <3>2. at + Filled(st, lo, row) = st.end[row] - (st.end[row] - at - Filled(st, lo, row))
      BY <2>4, <2>5, <2>8
    <3> QED BY <2>10, <3>1, <3>2
  <2>12. lo..row \subseteq w.l + 1..row
    BY <1>1
  <2>13. SameRows(st, new, w.l + 1..row)
    BY <2>10, <2>12 DEF SameRows
  <2> QED BY <2>11, <2>13
<1> QED BY <1>2, <1>3 DEF LeftGives

(* What has moved on the left leaves the space on the right as it was found.*)
LEMMA RightKept ==
  ASSUME NEW st, WellLaid(st), NEW row \in RowsOf(st), NEW r \in Int, row + 1 <= r, r <= NRowsOf(st) + 1,
         NEW right, NEW y, RightGives(st, row, r, right, 0, y),
         NEW mid, NEW l \in Int, SameRows(st, mid, l..row)
  PROVE  RightGives(mid, row, r, right, 0, y)
<1> DEFINE N == NRowsOf(st)
<1>1. N \in Nat /\ RowsOf(st) = 1..N /\ row \in 1..N
  BY LaidFacts
<1>2. \A k \in row + 1..N + 1 : mid.start[k] = st.start[k] /\ mid.end[k] = st.end[k]
  <2>1. \A k \in row + 1..N + 1 : k \in (1..(N + 1)) \ (l..row)
    BY <1>1
  <2> QED BY <2>1 DEF SameRows
<1>3. \A k \in row + 1..r - 1 : GapBefore(mid, k + 1) = GapBefore(st, k + 1)
  <2> SUFFICES ASSUME NEW k \in row + 1..r - 1
               PROVE  GapBefore(mid, k + 1) = GapBefore(st, k + 1)
    OBVIOUS
  <2>1. k \in row + 1..N + 1 /\ k + 1 \in row + 1..N + 1 /\ k + 1 - 1 = k
    BY <1>1
  <2> QED BY <1>2, <2>1 DEF GapBefore
<1>4. \A hi \in row + 1..r - 1 : Filled(mid, row + 1, hi) = Filled(st, row + 1, hi)
  <2> SUFFICES ASSUME NEW hi \in row + 1..r - 1
               PROVE  Filled(mid, row + 1, hi) = Filled(st, row + 1, hi)
    OBVIOUS
  <2>1. \A k \in row + 1..hi : k \in row + 1..N + 1
    BY <1>1
  <2>2. \A k \in row + 1..hi : Size(mid, k) = Size(st, k)
    BY <1>2, <2>1 DEF Size
  <2>3. [k \in row + 1..hi |-> Size(mid, k)] = [k \in row + 1..hi |-> Size(st, k)]
    BY <2>2
  <2> QED BY <2>3 DEF Filled
<1>5. CASE (\A j \in row + 1..r - 1 : ~GapBefore(st, j + 1)) /\ right = 0 /\ y = 0
  BY <1>3, <1>5 DEF RightGives
<1>6. ASSUME NEW hi \in row + 1..r - 1, IsFarthestRight(st, row, r, hi),
             0 < right, right <= st.start[hi + 1] - st.end[hi],
             y = st.end[hi] + right - Filled(st, row + 1, hi) - st.start[row + 1]
      PROVE  RightGives(mid, row, r, right, 0, y)
  <2>1. hi \in row + 1..N + 1 /\ hi + 1 \in row + 1..N + 1 /\ row + 1 \in row + 1..N + 1
    BY <1>1
  <2>2. \A j \in hi + 1..r - 1 : j \in row + 1..r - 1
    BY <1>1
  <2>3. IsFarthestRight(mid, row, r, hi)
    BY <1>3, <1>6, <2>2 DEF IsFarthestRight
  <2>4. /\ mid.start[hi + 1] = st.start[hi + 1] /\ mid.end[hi] = st.end[hi] /\ mid.start[row + 1] = st.start[row + 1]
        /\ Filled(mid, row + 1, hi) = Filled(st, row + 1, hi)
    BY <1>2, <1>4, <2>1
  <2>5. /\ 0 < right /\ right <= mid.start[hi + 1] - mid.end[hi]
        /\ y = mid.end[hi] + right - Filled(mid, row + 1, hi) - mid.start[row + 1]
    BY <1>6, <2>4
  <2> QED BY <2>3, <2>5 DEF RightGives
<1> QED BY <1>5, <1>6 DEF RightGives

(* The rows to the right make the space found.                              *)
LEMMA PackedRightMakes ==
  ASSUME NEW st, WellLaid(st), NEW row \in RowsOf(st), NEW w, w.r \in Int, row + 1 <= w.r, w.r <= NRowsOf(st) + 1,
         w.right \in Int, NEW y \in Int, RightGives(st, row, w.r, w.right, 0, y)
  PROVE  /\ SameRows(st, PackedRight(st, row, w), row + 1..w.r - 1)
         /\ PackedRight(st, row, w).start[row + 1] = st.start[row + 1] + y
<1> DEFINE N == NRowsOf(st)
           new == PackedRight(st, row, w)
<1>1. /\ N \in Nat /\ RowsOf(st) = 1..N /\ row \in 1..N
      /\ \A k \in 1..(N + 1) : st.start[k] \in Int /\ st.end[k] \in Int
      /\ \A k \in 1..N : st.start[k] <= st.end[k] /\ st.end[k] <= st.start[k + 1]
  BY LaidFacts
<1>2. CASE w.right = 0 /\ y = 0
  <2>1. new = st
    BY <1>2 DEF PackedRight
  <2>2. SameRows(st, st, row + 1..w.r - 1)
    BY DEF SameRows
  <2>3. row + 1 \in 1..(N + 1)
    BY <1>1
  <2>4. st.start[row + 1] + 0 = st.start[row + 1]
    BY <1>1, <2>3
  <2> QED BY <1>2, <2>1, <2>2, <2>4
<1>3. ASSUME NEW hi \in row + 1..w.r - 1, IsFarthestRight(st, row, w.r, hi),
             0 < w.right, w.right <= st.start[hi + 1] - st.end[hi],
             y = st.end[hi] + w.right - Filled(st, row + 1, hi) - st.start[row + 1]
      PROVE  SameRows(st, new, row + 1..w.r - 1) /\ new.start[row + 1] = st.start[row + 1] + y
  <2>1. FarthestRight(st, row, w.r) = hi
    <3>1. \A k \in row + 1..w.r - 1 : IsFarthestRight(st, row, w.r, k) => k = hi
      <4> SUFFICES ASSUME NEW k \in row + 1..w.r - 1, IsFarthestRight(st, row, w.r, k) PROVE k = hi
        OBVIOUS
      <4>1. k < hi => hi \in k + 1..w.r - 1
        BY <1>1
      <4>2. hi < k => k \in hi + 1..w.r - 1
        BY <1>1
      <4>3. k \in Int /\ hi \in Int
        BY <1>1
      <4> QED BY <1>3, <4>1, <4>2, <4>3 DEF IsFarthestRight
    <3>2. FarthestRight(st, row, w.r) = CHOOSE k \in row + 1..w.r - 1 : IsFarthestRight(st, row, w.r, k)
      BY DEF FarthestRight, IsFarthestRight
    <3> QED BY <1>3, <3>1, <3>2
  <2> DEFINE at == st.end[hi] + w.right - Filled(st, row + 1, hi)
  <2>2. new = Packed(st, row + 1, hi, at, Downwards(row + 1, hi))
    BY <1>3, <2>1 DEF PackedRight
  <2>3. /\ hi \in 1..N /\ hi \in Int /\ hi + 1 \in 1..(N + 1) /\ row + 1 \in 1..N /\ row + 1 \in Int
        /\ row + 1 <= hi /\ row + 1 <= hi + 1 /\ row + 1 - 1 = row
    BY <1>1
  <2>4. st.start[hi + 1] \in Int /\ st.end[hi] \in Int /\ st.start[row + 1] \in Int /\ st.end[row] \in Int
    <3>1. hi \in 1..(N + 1) /\ hi + 1 \in 1..(N + 1) /\ row + 1 \in 1..(N + 1) /\ row \in 1..(N + 1)
      BY <1>1, <2>3
    <3> QED BY <1>1, <3>1
  <2>5. Filled(st, row + 1, hi) \in Nat /\ Filled(st, row + 1, hi) <= st.end[hi] - st.start[row + 1]
    BY <1>1, <2>3, FilledInside
  <2>6. 1 <= st.start[row + 1] /\ st.end[row] <= st.start[row + 1]
    <3>1. 1 <= st.start[row + 1]
      BY <1>1, <2>3, InArray
    <3> QED BY <1>1, <3>1
  <2>7. at \in Int /\ 1 <= at /\ st.end[row] <= at /\ at + Filled(st, row + 1, hi) <= st.start[hi + 1]
    BY <1>3, <2>4, <2>5, <2>6
  <2>8. Fits(st, row + 1, hi, at)
    BY <1>1, <2>3, <2>7 DEF Fits
  <2>13. st.end[hi] <= at + Filled(st, row + 1, hi)
    BY <1>3, <2>4, <2>5
  <2> HIDE DEF at
  <2>9. SameRows(st, new, row + 1..hi) /\ new.start[row + 1] = at
    <3>1. PacksInTurn(st, row + 1, hi, at, Downwards(row + 1, hi))
      BY <2>8, <2>13, DownwardsInTurn
    <3> QED BY <2>2, <2>8, <3>1, PackedSameRows
  <2>10. new.start[row + 1] = st.start[row + 1] + y
    <3>1. y = at - st.start[row + 1]
      <4>1. y = st.end[hi] + w.right - Filled(st, row + 1, hi) - st.start[row + 1]
        BY <1>3
      <4>2. \A a, b, c, d \in Int : a + b - c - d = (a + b - c) - d
        OBVIOUS
      <4>3. /\ st.end[hi] \in Int /\ w.right \in Int /\ Filled(st, row + 1, hi) \in Int
            /\ st.start[row + 1] \in Int
        BY <2>4, <2>5
      <4>4. y = (st.end[hi] + w.right - Filled(st, row + 1, hi)) - st.start[row + 1]
        BY <4>1, <4>2, <4>3
      <4> QED BY <4>4 DEF at
    <3>2. at = st.start[row + 1] + (at - st.start[row + 1])
      <4>1. \A a, b \in Int : a = b + (a - b)
        OBVIOUS
      <4>2. at \in Int /\ st.start[row + 1] \in Int
        BY <2>4, <2>7
      <4> QED BY <4>1, <4>2
    <3> QED BY <2>9, <3>1, <3>2
  <2>11. row + 1..hi \subseteq row + 1..w.r - 1
    BY <1>1
  <2>12. SameRows(st, new, row + 1..w.r - 1)
    BY <2>9, <2>11 DEF SameRows
  <2> QED BY <2>10, <2>12
<1> QED BY <1>2, <1>3 DEF RightGives

-----------------------------------------------------------------------------
(* Row after row                                                            *)

(* Different rows, in their order                                           *)
Ascending(st, rows) ==
  /\ rows \in Seq(RowsOf(st))
  /\ \A i, j \in DOMAIN rows : i < j => rows[i] < rows[j]

(* Between the rows asked for before it and after it a row finds its room,  *)
(* or it does not.                                                          *)
LEMMA ShiftOneRowServes ==
  ASSUME NEW w, w \in [ok : BOOLEAN, st : Storages], WellLaid(w.st), NEW rows, Ascending(w.st, rows),
         NEW i \in DOMAIN rows, NEW required, required[i] \in Int, NEW maxshift \in Int,
         NEW new, new = ShiftOneRow(w, rows, i, required, maxshift)
  PROVE  /\ new \in [ok : BOOLEAN, st : Storages]
         /\ SameRows(w.st, new.st, LeftBound(rows, i) + 1..RightBound(w.st, rows, i) - 1)
         /\ new.ok => w.ok /\ Behind(new.st, rows[i]) >= required[i]
         /\ LeftBound(rows, i) \in Int /\ 1 <= LeftBound(rows, i)
         /\ RightBound(w.st, rows, i) \in Int /\ RightBound(w.st, rows, i) <= NRowsOf(w.st) + 1
<1> DEFINE st == w.st
           N == NRowsOf(st)
           row == rows[i]
           left == LeftBound(rows, i)
           right == RightBound(st, rows, i)
           missing == required[i] - Behind(st, row)
           initial == [l |-> row, r |-> row + 1, left |-> 0, right |-> 0, missing |-> missing, budget |-> maxshift, failed |-> FALSE]
           found == Search(st, left, right, initial)
<1>1. /\ N \in Nat /\ RowsOf(st) = 1..N
      /\ \A k \in 1..(N + 1) : st.start[k] \in Int /\ st.end[k] \in Int
  BY LaidFacts
<1>2. /\ rows \in Seq(1..N) /\ DOMAIN rows = 1..Len(rows) /\ Len(rows) \in Nat
      /\ \A k \in DOMAIN rows : rows[k] \in 1..N
  <2>1. rows \in Seq(1..N)
    BY <1>1 DEF Ascending
  <2>2. DOMAIN rows = 1..Len(rows) /\ Len(rows) \in Nat
    BY <2>1, LenProperties
  <2>3. \A k \in 1..Len(rows) : rows[k] \in 1..N
    BY <2>1, ElementOfSeq
  <2> QED BY <2>1, <2>2, <2>3
<1>3. row \in RowsOf(st) /\ row \in 1..N /\ row \in Int /\ row \in 1..(N + 1) /\ row + 1 \in 1..(N + 1)
  BY <1>1, <1>2
<1>4. left \in Int /\ 1 <= left /\ left <= row
  <2>1. CASE i = 1
    BY <1>3, <2>1 DEF LeftBound
  <2>2. CASE i # 1
    <3>1. i - 1 \in DOMAIN rows /\ i - 1 < i
      BY <1>2, <2>2
    <3>2. rows[i - 1] < rows[i] /\ rows[i - 1] \in 1..N
      BY <1>2, <3>1 DEF Ascending
    <3> QED BY <1>3, <2>2, <3>2 DEF LeftBound
  <2> QED BY <2>1, <2>2
<1>5. right \in Int /\ row + 1 <= right /\ right <= N + 1
  <2>1. CASE i = Len(rows)
    BY <1>1, <1>3, <2>1 DEF RightBound
  <2>2. CASE i # Len(rows)
    <3>1. i + 1 \in DOMAIN rows /\ i < i + 1
      BY <1>2, <2>2
    <3>2. rows[i] < rows[i + 1] /\ rows[i + 1] \in 1..N
      BY <1>2, <3>1 DEF Ascending
    <3> QED BY <1>1, <1>3, <2>2, <3>2 DEF RightBound
  <2> QED BY <2>1, <2>2
<1>6. Behind(st, row) = st.start[row + 1] - st.end[row] /\ Behind(st, row) \in Int /\ missing \in Int
  BY <1>1, <1>3 DEF Behind
<1>7. SameRows(st, st, left + 1..right - 1)
  BY DEF SameRows
<1> HIDE DEF N, left, right, row
<1>8. CASE ~w.ok \/ missing <= 0
  <2>1. new = w
    BY <1>8 DEF ShiftOneRow, row
  <2>2. new.ok => w.ok /\ Behind(st, row) >= required[i]
    BY <1>6, <1>8, <2>1
  <2> QED BY <1>4, <1>5, <1>7, <2>1, <2>2 DEF row, left, right, N
<1>9. CASE w.ok /\ ~(missing <= 0) /\ found.failed
  <2>1. new = [w EXCEPT !.ok = FALSE]
    BY <1>9 DEF ShiftOneRow, row, left, right
  <2> HIDE DEF found
  <2>2. new \in [ok : BOOLEAN, st : Storages] /\ new.st = w.st /\ ~new.ok
    BY <2>1
  <2> QED BY <1>4, <1>5, <1>7, <2>2 DEF row, left, right, N
<1>10. CASE w.ok /\ ~(missing <= 0) /\ ~found.failed
  <2> DEFINE mid == PackedLeft(st, row, found)
             end == PackedRight(mid, row, found)
  <2>1. new = [w EXCEPT !.st = end]
    BY <1>10 DEF ShiftOneRow, row, left, right
  <2>2. SearchState(st, row, left, right, missing, found) /\ found.missing = 0
    <3>1. missing \in Nat /\ missing > 0
      BY <1>6, <1>10
    <3>2. right <= NRowsOf(st) + 1 /\ row \in RowsOf(st)
      BY <1>3, <1>5 DEF N
    <3> HIDE DEF missing
    <3>3. SearchState(st, row, left, right, missing, found) /\ (found.failed \/ found.missing = 0)
      BY <1>4, <1>5, <3>1, <3>2, SearchFinds
    <3> QED BY <1>10, <3>3
  <2> HIDE DEF found, mid, end, missing
  <2>3. /\ found.l \in Int /\ found.r \in Int /\ found.left \in Int /\ found.right \in Int
        /\ left <= found.l /\ found.l <= row /\ row + 1 <= found.r /\ found.r <= right
    BY <2>2 DEF SearchState
  <2>4. PICK x \in Int, y \in Int : /\ x + y + found.missing = missing
                                    /\ LeftGives(st, row, found.l, found.left, found.missing, x)
                                    /\ RightGives(st, row, found.r, found.right, found.missing, y)
    BY <2>2 DEF SearchState
  <2>5. x + y = missing /\ LeftGives(st, row, found.l, found.left, 0, x) /\ RightGives(st, row, found.r, found.right, 0, y)
    BY <2>2, <2>4
  <2>6. 1 <= found.l /\ found.r <= N + 1 /\ found.l + 1 \in Int
    BY <1>3, <1>4, <1>5, <2>3, <1>1
  <2>7. SameRows(st, mid, found.l + 1..row) /\ mid.end[row] = st.end[row] - x
    BY <1>3, <2>3, <2>5, <2>6, PackedLeftMakes DEF mid
  <2>8. WellLaid(mid) /\ NRowsOf(mid) = N /\ RowsOf(mid) = RowsOf(st)
    BY <2>7 DEF SameRows, RowsOf, N
  <2>9. RightGives(mid, row, found.r, found.right, 0, y)
    BY <1>3, <2>3, <2>5, <2>6, <2>7, RightKept DEF N
  <2>10. SameRows(mid, end, row + 1..found.r - 1) /\ end.start[row + 1] = mid.start[row + 1] + y
    BY <1>3, <2>3, <2>6, <2>8, <2>9, PackedRightMakes DEF end
  <2>11. SameRows(st, end, left + 1..right - 1)
    <3>1. SameRows(st, end, (found.l + 1..row) \cup (row + 1..found.r - 1))
      BY <2>7, <2>10, SameRowsTwice
    <3>2. (found.l + 1..row) \cup (row + 1..found.r - 1) \subseteq left + 1..right - 1
      BY <1>3, <1>4, <1>5, <2>3
    <3> QED BY <3>1, <3>2 DEF SameRows
  <2>12. mid.start[row + 1] = st.start[row + 1] /\ end.end[row] = mid.end[row]
    <3>1. row + 1 \in (1..(N + 1)) \ (found.l + 1..row) /\ row \in (1..(N + 1)) \ (row + 1..found.r - 1)
      BY <1>3
    <3> QED BY <2>7, <2>8, <2>10, <3>1 DEF SameRows, N
  <2>13. Behind(end, row) = Behind(st, row) + missing
    <3>1. st.start[row + 1] \in Int /\ st.end[row] \in Int
      BY <1>1, <1>3
    <3>2. end.start[row + 1] = st.start[row + 1] + y /\ end.end[row] = st.end[row] - x
      BY <2>7, <2>10, <2>12
    <3>3. Behind(end, row) = (st.start[row + 1] + y) - (st.end[row] - x)
      BY <3>2 DEF Behind
    <3>4. x \in Int /\ y \in Int
      OBVIOUS
    <3>5. x + y = missing
      BY <2>5
    <3>6. ASSUME NEW a \in Int, NEW b \in Int
          PROVE  (a + y) - (b - x) = a - b + (x + y)
      OBVIOUS
    <3>7. Behind(end, row) = st.start[row + 1] - st.end[row] + missing
      BY <3>1, <3>3, <3>5, <3>6
    <3>8. Behind(st, row) = st.start[row + 1] - st.end[row]
      BY <1>6
    <3> QED BY <3>7, <3>8
  <2>14. Behind(end, row) = required[i]
    BY <1>6, <2>13 DEF missing
  <2>15. end \in Storages
    BY <2>10 DEF SameRows, WellLaid
  <2>16. new \in [ok : BOOLEAN, st : Storages] /\ new.st = end /\ new.ok = w.ok
    BY <2>1, <2>15
  <2> QED BY <1>4, <1>5, <1>10, <2>11, <2>14, <2>16 DEF row, left, right, N
<1> QED BY <1>8, <1>9, <1>10

(* The rows are served one after the other.                                 *)
Serving(f, st, rows, required, maxshift) ==
  /\ f[0] = [ok |-> TRUE, st |-> st]
  /\ \A i \in 1..Len(rows) : f[i] = ShiftOneRow(f[i - 1], rows, i, required, maxshift)
  /\ ShiftRows(st, rows, required, maxshift) = f[Len(rows)]

LEMMA ShiftRowsRuns ==
  ASSUME NEW st, NEW rows, Len(rows) \in Nat, NEW required, NEW maxshift
  PROVE  \E f : Serving(f, st, rows, required, maxshift)
<1> DEFINE n == Len(rows)
           first == [ok |-> TRUE, st |-> st]
           Next(f, i) == IF i = 0 THEN first ELSE ShiftOneRow(f[i - 1], rows, i, required, maxshift)
           Runs(f, m) == f = [i \in 0..m |-> Next(f, i)]
           G == {m \in 0..n : \E f : Runs(f, m)}
<1>1. \A f, i : Next(f, 0) = first /\ (i # 0 => Next(f, i) = ShiftOneRow(f[i - 1], rows, i, required, maxshift))
  OBVIOUS
<1>2. \A f, g, i : (i # 0 => f[i - 1] = g[i - 1]) => Next(f, i) = Next(g, i)
  <2> HIDE DEF first
  <2> QED OBVIOUS
<1>3. ShiftRows(st, rows, required, maxshift) = (CHOOSE f : Runs(f, n))[n]
  BY DEF ShiftRows
<1> HIDE DEF first, Next
<1>4. 0 \in G
  <2> DEFINE f == [i \in 0..0 |-> first]
  <2>1. \A i \in 0..0 : Next(f, i) = first
    <3> HIDE DEF f
    <3> QED BY <1>1
  <2>2. Runs(f, 0)
    BY <2>1
  <2>3. 0 \in 0..n
    OBVIOUS
  <2> HIDE DEF Runs, f, n
  <2> QED BY <2>2, <2>3
<1>5. ASSUME NEW m \in 0..n - 1, m \in G
      PROVE  m + 1 \in G
  <2>1. PICK f : Runs(f, m)
    BY <1>5
  <2> DEFINE g == [i \in 0..(m + 1) |-> Next(f, i)]
  <2>2. \A i \in 0..m : g[i] = f[i]
    BY <2>1
  <2>3. \A i \in 0..(m + 1) : i = 0 \/ i - 1 \in 0..m
    OBVIOUS
  <2>4. \A i \in 0..(m + 1) : Next(f, i) = Next(g, i)
    <3> HIDE DEF g
    <3> QED BY <1>2, <2>2, <2>3
  <2>5. Runs(g, m + 1)
    BY <2>4
  <2>6. m + 1 \in 0..n
    OBVIOUS
  <2> HIDE DEF Runs, g, n
  <2> QED BY <2>5, <2>6
<1>6. n \in G
  <2> HIDE DEF G, n
  <2>1. n \in Nat
    BY DEF n
  <2> QED BY <1>4, <1>5, <2>1, CountUp
<1> DEFINE served == CHOOSE f : Runs(f, n)
<1>7. Runs(served, n)
  <2>1. \E f : Runs(f, n)
    BY <1>6
  <2> HIDE DEF Runs
  <2> QED BY <2>1
<1>8. ShiftRows(st, rows, required, maxshift) = served[n]
  BY <1>3
<1> HIDE DEF served
<1>9. \A i \in 0..n : served[i] = Next(served, i)
  BY <1>7
<1>10. Serving(served, st, rows, required, maxshift)
  <2>1. served[0] = [ok |-> TRUE, st |-> st]
    <3>1. 0 \in 0..n
      OBVIOUS
    <3>2. served[0] = Next(served, 0) /\ Next(served, 0) = first
      BY <1>1, <1>9, <3>1
    <3> QED BY <3>2 DEF first
  <2>2. \A i \in 1..n : served[i] = ShiftOneRow(served[i - 1], rows, i, required, maxshift)
    BY <1>1, <1>9
  <2> QED BY <1>8, <2>1, <2>2 DEF Serving
<1> QED BY <1>10

(* Whatever shiftRows answers, the rows still lie one behind the other with *)
(* the entries they had, and the first row has not moved; with a yes every  *)
(* row asked for has its room, the ones served first too (their room is not *)
(* taken again for the ones behind them).                                   *)
THEOREM ShiftRowsServes ==
  ASSUME NEW st, WellLaid(st), NEW rows, Ascending(st, rows),
         NEW required \in Seq(Int), Len(required) = Len(rows), NEW maxshift \in Int
  PROVE  LET new == ShiftRows(st, rows, required, maxshift)
         IN /\ SameRows(st, new.st, 2..NRowsOf(st))
            /\ new.ok => \A i \in DOMAIN rows : Behind(new.st, rows[i]) >= required[i]
<1> DEFINE N == NRowsOf(st)
           n == Len(rows)
<1>1. N \in Nat /\ RowsOf(st) = 1..N
  BY LaidFacts
<1>2. rows \in Seq(1..N) /\ DOMAIN rows = 1..n /\ n \in Nat /\ \A i \in 1..n : rows[i] \in 1..N
  <2>1. rows \in Seq(1..N)
    BY <1>1 DEF Ascending
  <2>2. DOMAIN rows = 1..Len(rows) /\ Len(rows) \in Nat
    BY <2>1, LenProperties
  <2>3. \A i \in 1..Len(rows) : rows[i] \in 1..N
    BY <2>1, ElementOfSeq
  <2> QED BY <2>1, <2>2, <2>3
<1>3. \A i \in 1..n : required[i] \in Int
  BY <1>2, ElementOfSeq
<1>4. PICK f : Serving(f, st, rows, required, maxshift)
  BY <1>2, ShiftRowsRuns
<1> DEFINE Served(w, m) == /\ w \in [ok : BOOLEAN, st : Storages] /\ SameRows(st, w.st, 2..N)
                           /\ w.ok => \A j \in 1..m : Behind(w.st, rows[j]) >= required[j]
           G == {m \in 0..n : Served(f[m], m)}
<1>5. 0 \in G
  <2>1. f[0] \in [ok : BOOLEAN, st : Storages] /\ f[0].st = st
    BY <1>4 DEF WellLaid, Serving
  <2>2. SameRows(st, st, 2..N)
    BY DEF SameRows
  <2>3. 1..0 = {} /\ 0 \in 0..n
    BY <1>2
  <2>4. Served(f[0], 0)
    BY <2>1, <2>2, <2>3
  <2> HIDE DEF Served
  <2> QED BY <2>3, <2>4
<1>6. ASSUME NEW m \in 0..n - 1, m \in G
      PROVE  m + 1 \in G
  <2> DEFINE w == f[m]
             new == f[m + 1]
             S == LeftBound(rows, m + 1) + 1..RightBound(w.st, rows, m + 1) - 1
  <2>1. Served(w, m)
    BY <1>6
  <2>2. m + 1 \in 1..n /\ m + 1 - 1 = m /\ m + 1 \in DOMAIN rows
    BY <1>2
  <2>3. new = ShiftOneRow(w, rows, m + 1, required, maxshift)
    BY <1>4, <2>2 DEF Serving
  <2>4. w \in [ok : BOOLEAN, st : Storages] /\ WellLaid(w.st) /\ NRowsOf(w.st) = N /\ RowsOf(w.st) = RowsOf(st)
    BY <2>1 DEF SameRows, RowsOf
  <2>5. Ascending(w.st, rows)
    BY <2>4 DEF Ascending
  <2> HIDE DEF Served, w, new
  <2>6. /\ new \in [ok : BOOLEAN, st : Storages] /\ SameRows(w.st, new.st, S)
        /\ new.ok => w.ok /\ Behind(new.st, rows[m + 1]) >= required[m + 1]
        /\ LeftBound(rows, m + 1) \in Int /\ 1 <= LeftBound(rows, m + 1)
        /\ RightBound(w.st, rows, m + 1) \in Int /\ RightBound(w.st, rows, m + 1) <= N + 1
    <3>1. required[m + 1] \in Int
      BY <1>3, <2>2
    <3> HIDE DEF N
    <3>2. /\ new \in [ok : BOOLEAN, st : Storages] /\ SameRows(w.st, new.st, S)
          /\ new.ok => w.ok /\ Behind(new.st, rows[m + 1]) >= required[m + 1]
          /\ LeftBound(rows, m + 1) \in Int /\ 1 <= LeftBound(rows, m + 1)
          /\ RightBound(w.st, rows, m + 1) \in Int /\ RightBound(w.st, rows, m + 1) <= NRowsOf(w.st) + 1
      <4>1. m + 1 \in DOMAIN rows /\ w \in [ok : BOOLEAN, st : Storages] /\ WellLaid(w.st)
        BY <2>2, <2>4
      <4> QED BY <2>3, <2>5, <3>1, <4>1, ShiftOneRowServes
    <3> QED BY <2>4, <3>2
  <2>7. SameRows(st, new.st, 2..N)
    <3>1. SameRows(st, new.st, (2..N) \cup S)
      BY <2>1, <2>6, SameRowsTwice DEF Served
    <3>2. S \subseteq 2..N
      BY <1>1, <2>6
    <3> QED BY <3>1, <3>2 DEF SameRows
  <2>8. ASSUME NEW j \in 1..m, new.ok
        PROVE  Behind(new.st, rows[j]) >= required[j]
    <3>1. m # 0 /\ m \in 1..n /\ j \in 1..n /\ m + 1 # 1
      BY <1>2
    <3>2. LeftBound(rows, m + 1) = rows[m] + 1
      BY <2>2, <3>1 DEF LeftBound
    <3>3. rows[j] <= rows[m] /\ rows[j] \in 1..N /\ rows[m] \in 1..N
      <4>1. j = m \/ j < m
        BY <3>1
      <4>2. j < m => rows[j] < rows[m]
        BY <1>2, <3>1 DEF Ascending
      <4> QED BY <1>2, <3>1, <4>1, <4>2
    <3>4. /\ rows[j] \in 1..(N + 1) /\ rows[j] \notin S
          /\ rows[j] + 1 \in 1..(N + 1) /\ rows[j] + 1 \notin S
      <4>1. \A k \in S : LeftBound(rows, m + 1) + 1 <= k
        BY <2>6
      <4> HIDE DEF S
      <4>2. ~(rows[m] + 1 + 1 <= rows[j]) /\ ~(rows[m] + 1 + 1 <= rows[j] + 1)
        BY <3>3
      <4>3. rows[j] \in 1..(N + 1) /\ rows[j] + 1 \in 1..(N + 1)
        BY <1>1, <3>3
      <4> QED BY <3>2, <4>1, <4>2, <4>3
    <3>5. new.st.start[rows[j] + 1] = w.st.start[rows[j] + 1] /\ new.st.end[rows[j]] = w.st.end[rows[j]]
      BY <2>4, <2>6, <3>4 DEF SameRows
    <3>6. Behind(new.st, rows[j]) = Behind(w.st, rows[j])
      BY <3>5 DEF Behind
    <3> QED BY <2>1, <2>6, <2>8, <3>6 DEF Served
  <2>9. \A j \in 1..(m + 1) : j \in 1..m \/ j = m + 1
    OBVIOUS
  <2>10. Served(new, m + 1)
    BY <2>6, <2>7, <2>8, <2>9 DEF Served
  <2>11. m + 1 \in 0..n
    BY <2>2
  <2> QED BY <2>10, <2>11 DEF new
<1>7. n \in G
  <2> HIDE DEF G, n
  <2> QED BY <1>2, <1>5, <1>6, CountUp
<1>8. Served(f[n], n)
  BY <1>7
<1> QED BY <1>2, <1>4, <1>8 DEF Serving
================================================================================
