----------------------------- MODULE MCTriggers -----------------------------
(***************************************************************************)
(* Two tool calls, each issued at most twice: enough for a lost answer and *)
(* its retry, and for a late duplicate.                                    *)
(***************************************************************************)
EXTENDS Triggers

CONSTANTS t1, t2

MCCalls == {t1, t2}
MCOneCall == {t1}
MCLimit == [c \in Calls |-> 2]

Upsert(creating, type, given) ==
    [tool |-> "upsert", creating |-> creating, type |-> type, given |-> given]

Other(tool) == [tool |-> tool, creating |-> FALSE, type |-> "none", given |-> {}]

Common == {"agentId", "name", "prompt"}

MCArguments ==
    {Upsert(TRUE, "recurring", Common \cup {"schedule", "run"}),
     Upsert(TRUE, "recurring", Common),
     Upsert(TRUE, "event", Common \cup {"trigger"}), Upsert(TRUE, "event", Common \cup {"schedule"}),
     Upsert(TRUE, "other", Common),
     Upsert(FALSE, "none", {"enabled"}), Upsert(FALSE, "none", {}),
     Other("delete"), Other("list")}
=============================================================================
