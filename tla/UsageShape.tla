----------------------------- MODULE UsageShape -----------------------------
(***************************************************************************)
(* _shape_overview (tools/usage.py): a usage report too large for its      *)
(* budget loses rows of its breakdown, as few as possible, and says so.    *)
(* How many fit is found by a binary search over the serialized size.      *)
(*                                                                         *)
(* Of a payload only the sizes matter: in all, and with the markers and    *)
(* the first k rows, in characters of _compact.                            *)
(***************************************************************************)
EXTENDS Integers

CONSTANTS Payloads, \* what the platform may answer
          Budget    \* _BREAKDOWN_BUDGET

(***************************************************************************)
(* dict    whether the payload is a dict                                   *)
(* rows    the length of breakdown; 0 if it is no list                     *)
(* plain   the size without debug, all rows, no marker                     *)
(* marked  the size without debug, with markers, by number of rows         *)
(***************************************************************************)
Grows(p) ==
    /\ DOMAIN p.marked = 0..p.rows
    /\ \A k \in 0..p.rows : p.marked[k] \in Nat
    /\ \A j, k \in 0..p.rows : j <= k => p.marked[j] <= p.marked[k]
    /\ p.plain < p.marked[p.rows]

ASSUME BudgetAssumption == Budget \in Nat
ASSUME PayloadAssumption ==
    \A p \in Payloads : /\ p.dict \in BOOLEAN
                        /\ p.rows \in Nat
                        /\ p.plain \in Nat
                        /\ Grows(p)

VARIABLES pc,      \* where _shape_overview is
          payload, \* what it was given
          lo, hi, best, \* the variables of the search
          out      \* what it returned

vars == <<pc, payload, lo, hi, best, out>>

NoOutput == [kind |-> "none", kept |-> 0]

Init ==
    /\ pc = "start"
    /\ payload \in Payloads
    /\ lo = 0 /\ hi = 0 /\ best = 0
    /\ out = NoOutput

Return(kind, kept) ==
    /\ pc' = "done"
    /\ out' = [kind |-> kind, kept |-> kept]

(* Forms a mistake could take stand before the operator they would replace;*)
(* nothing else uses them.  Here debug, ten characters of it, is counted in.*)
FitsWithDebug(p) == p.plain + 10 <= Budget

FitsWhole(p) == p.plain <= Budget

PassThrough ==
    /\ pc = "start"
    /\ ~payload.dict
    /\ Return("untouched", payload.rows)
    /\ UNCHANGED <<payload, lo, hi, best>>

(* Small enough, or with nothing in it that could be trimmed.              *)
ReturnWhole ==
    /\ pc = "start"
    /\ payload.dict
    /\ FitsWhole(payload) \/ payload.rows = 0
    /\ Return("whole", payload.rows)
    /\ UNCHANGED <<payload, lo, hi, best>>

(* The search starts one row too far.                                      *)
StartSearchBeyond ==
    /\ pc = "start"
    /\ payload.dict
    /\ ~FitsWhole(payload) /\ payload.rows > 0
    /\ pc' = "search"
    /\ lo' = 0 /\ hi' = payload.rows + 1 /\ best' = 0
    /\ UNCHANGED <<payload, out>>

StartSearch ==
    /\ pc = "start"
    /\ payload.dict
    /\ ~FitsWhole(payload) /\ payload.rows > 0
    /\ pc' = "search"
    /\ lo' = 0 /\ hi' = payload.rows /\ best' = 0
    /\ UNCHANGED <<payload, out>>

(* Row after row.                                                          *)
MidLinear == lo

Mid == (lo + hi) \div 2

Fits(k) == payload.marked[k] <= Budget

(* The row that fits is probed again.                                      *)
ProbeStays ==
    /\ pc = "search"
    /\ lo <= hi
    /\ IF Fits(Mid) THEN best' = Mid /\ lo' = Mid /\ UNCHANGED hi
       ELSE hi' = Mid - 1 /\ UNCHANGED <<lo, best>>
    /\ UNCHANGED <<pc, payload, out>>

(* The search stops with two rows left to tell apart.                      *)
ProbeSkips ==
    /\ pc = "search"
    /\ lo <= hi
    /\ IF Fits(Mid) THEN best' = Mid /\ lo' = Mid + 1 /\ UNCHANGED hi
       ELSE hi' = Mid - 2 /\ UNCHANGED <<lo, best>>
    /\ UNCHANGED <<pc, payload, out>>

Probe ==
    /\ pc = "search"
    /\ lo <= hi
    /\ IF Fits(Mid) THEN best' = Mid /\ lo' = Mid + 1 /\ UNCHANGED hi
       ELSE hi' = Mid - 1 /\ UNCHANGED <<lo, best>>
    /\ UNCHANGED <<pc, payload, out>>

EndSearch ==
    /\ pc = "search"
    /\ lo > hi
    /\ Return("trimmed", best)
    /\ UNCHANGED <<payload, lo, hi, best>>

Done == pc = "done" /\ UNCHANGED vars

Next == PassThrough \/ ReturnWhole \/ StartSearch \/ Probe \/ EndSearch \/ Done

Spec == Init /\ [][Next]_vars

FairSpec == Spec /\ WF_vars(Next)

-----------------------------------------------------------------------------
(* Properties.                                                             *)

\* Every variable has its type, and while the search runs it stays inside the
\* rows there are.
TypeOK ==
    /\ pc \in {"start", "search", "done"}
    /\ payload \in Payloads
    /\ lo \in 0..(payload.rows + 1)
    /\ hi \in -1..payload.rows
    /\ best \in 0..payload.rows
    /\ out \in [kind : {"none", "untouched", "whole", "trimmed"}, kept : 0..payload.rows]

\* A trimmed report keeps as many rows as fit: one more would not, and what is
\* kept fits unless even the report without rows is over the budget.
KeepsTheMost ==
    out.kind = "trimmed" =>
        /\ \A k \in 0..payload.rows : Fits(k) => k <= out.kept
        /\ Fits(out.kept) \/ (out.kept = 0 /\ ~Fits(0))

\* The marker breakdownTruncatedByToolOutput is never a lie: a report that
\* carries it has lost at least one row, and one without has lost none.
MarkerTrue == pc = "done" => (out.kind = "trimmed" <=> out.kept < payload.rows)

\* Every probe at least halves the interval that is left, so that a page of a
\* thousand rows is serialized some ten times and not a thousand.
Halves == [][pc = "search" /\ pc' = "search" => 2 * (hi' - lo' + 1) <= hi - lo + 1]_vars

\* The search ends.
Answers == <>(pc = "done")

-----------------------------------------------------------------------------
(* The loop invariant behind them: below lo everything fits, above hi      *)
(* nothing does, and best is the last row count seen to fit.               *)
SearchInv ==
    pc = "search" =>
        /\ payload.dict /\ payload.rows > 0 /\ ~FitsWhole(payload)
        /\ lo <= hi + 1
        /\ IF lo = 0 THEN best = 0 ELSE best = lo - 1 /\ Fits(best)
        /\ \A k \in 0..payload.rows : k > hi => ~Fits(k)

OutInv == IF pc = "done" THEN KeepsTheMost /\ MarkerTrue ELSE out = NoOutput

IInv == TypeOK /\ SearchInv /\ OutInv
=============================================================================
