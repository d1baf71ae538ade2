---------------------------- MODULE MCUsageShape ----------------------------
(***************************************************************************)
(* Reports of up to 12 rows, of equal and of growing length, with a large  *)
(* and a small rest, against a budget that cuts them at every place.  The  *)
(* sizes are those of _compact: the rest, the rows, a comma between any    *)
(* two of them, the markers and the digits of breakdownReturned.           *)
(***************************************************************************)
EXTENDS UsageShape, FiniteSetsExt

CONSTANTS MaxRows, Marker

Digits(k) == IF k < 10 THEN 1 ELSE 2

Commas(k) == IF k = 0 THEN 0 ELSE k - 1

RowSize(first, growth, i) == first + growth * i

RowsSize(first, growth, k) ==
    FoldSet(LAMBDA i, sum : sum + RowSize(first, growth, i), Commas(k), 1..k)

Report(n, rest, first, growth) ==
    [dict |-> TRUE, rows |-> n,
     plain |-> rest + RowsSize(first, growth, n),
     marked |-> [k \in 0..n |-> rest + Marker + Digits(k) + RowsSize(first, growth, k)]]

MCPayloads ==
    {Report(n, rest, first, growth) :
        n \in 0..MaxRows, rest \in {2, 17, 40, 70}, first \in {2, 5}, growth \in 0..2}
    \cup {[Report(0, 10, 0, 0) EXCEPT !.dict = FALSE]}
=============================================================================
