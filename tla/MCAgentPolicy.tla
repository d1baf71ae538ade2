--------------------------- MODULE MCAgentPolicy ----------------------------
(***************************************************************************)
(* One tool call with every kind of arguments, and three that read and     *)
(* write one record.  A get is issued once; the put of t1 twice, which     *)
(* is enough for a late duplicate.  The arguments are one of each kind the *)
(* tools treat differently.                                                *)
(***************************************************************************)
EXTENDS AgentPolicy, TLC

CONSTANTS t1, t2, t3

MCToolCalls == {t1, t2, t3}
MCOneToolCall == {t1}

MCSymmetry == Permutations({t2, t3})

MCCalls == [of : ToolCalls, part : {"get", "put"}]
MCLimit == [c \in MCCalls |-> IF c = [of |-> t1, part |-> "put"] THEN 2 ELSE 1]

Get(tool) == [tool |-> tool, given |-> {}, ids |-> {}, rubrics |-> FALSE]

Permissions(given, ids) ==
    [tool |-> "upsert_permissions", given |-> given, ids |-> ids, rubrics |-> FALSE]

Evaluation(rubrics) ==
    [tool |-> "upsert_evaluation", given |-> {}, ids |-> {}, rubrics |-> rubrics]

Approval == [tool |-> "upsert_approval", given |-> {}, ids |-> {}, rubrics |-> FALSE]

(* A reader and two writers on the same record, of different keys: what    *)
(* one does not name it may erase.                                         *)
MCOwnership ==
    {Permissions({"owners"}, {}), Permissions({"permission"}, {"builtin"}), Get("get_permissions")}

(* Of the answers that say nothing for certain one stands for all.  The one*)
(* whose put may be repeated does not read: of three readers and writers   *)
(* that is no loss for owners, since a writer that is not repeated is      *)
(* played by t2 and t3 too.  The flag stays down.                          *)
MCWritersInit == Init /\ ~policyError

MCFew ==
    /\ UNCHANGED policyError
    /\ answer'[GetOf(t1)] = "unasked"
    /\ \A c \in Calls : answer'[c] \in {"unasked", "open", "good", "unreachable"}

MCWritersSpec == MCWritersInit /\ [][Next /\ MCFew]_vars

MCArguments ==
    {Permissions({}, {}),
     Permissions({"owners"}, {}),
     Permissions({"permission", "owners"}, {"builtin", "connector"}),
     Permissions({"interruptOn"}, {"made_up"}),
     Permissions({"interruptOn"}, {"builtin"}),
     Evaluation(TRUE), Evaluation(FALSE),
     Approval,
     Get("get_permissions"), Get("get_evaluation"), Get("get_approval")}
=============================================================================
