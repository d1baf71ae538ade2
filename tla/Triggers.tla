------------------------------ MODULE Triggers ------------------------------
(***************************************************************************)
(* tools/triggers.py: creating, changing, deleting and running triggers.   *)
(* Each tool call checks its arguments and makes one call of AgentClient,  *)
(* with the default of three retries whatever the method: a POST /api/tasks*)
(* that arrives twice creates two triggers, a DELETE that arrives twice    *)
(* finds nothing the second time.                                          *)
(*                                                                         *)
(* Updates and deletes are of one trigger that exists to begin with.       *)
(***************************************************************************)
EXTENDS RemoteCall

CONSTANTS Arguments, \* what the tools may be invoked with
          Nobody     \* the one who deleted a trigger that is there

(***************************************************************************)
(* creating  task_id is None (upsert)                                      *)
(* type      the type given, "none" if it is not                           *)
(* given     which other fields are given; "trigger" stands for            *)
(*           trigger_integration together with trigger_events              *)
(***************************************************************************)
Types == {"recurring", "event", "manual"}

Fields == {"agentId", "name", "prompt", "enabled", "schedule", "run", "trigger"}

TriggerArguments == [tool : {"list", "catalog", "upsert", "delete"}, creating : BOOLEAN,
                     type : Types \cup {"none", "other"}, given : SUBSET Fields]

ASSUME TriggerAssumption == Arguments \subseteq TriggerArguments
ASSUME NobodyAssumption == Nobody \notin Calls

VARIABLES args,     \* args[c]: what tool call c was invoked with
          reply,    \* reply[c]: the kind of answer it gave
          deletedBy,\* the call whose DELETE removed the trigger, or Nobody
          runs      \* runs[c]: how often call c has made an agent run

toolVars == <<args, reply>>
platformVars == <<deletedBy, runs>>
vars == <<remoteVars, toolVars, platformVars>>

NoArguments == [tool |-> "list", creating |-> FALSE, type |-> "none", given |-> {}]

Init ==
    /\ RemoteInit
    /\ args = [c \in Calls |-> NoArguments]
    /\ reply = [c \in Calls |-> "none"]
    /\ deletedBy = Nobody
    /\ runs = [c \in Calls |-> 0]

-----------------------------------------------------------------------------
Creates(a) == a.tool = "upsert" /\ a.creating

Reads(a) == a.tool \in {"list", "catalog"}

(* Forms a mistake could take stand before the operator they would replace;*)
(* nothing else uses them.  Here nobody asks what an event trigger needs.  *)
IncompleteUnlessEvent(a) ==
    \/ ~({"agentId", "name", "prompt"} \subseteq a.given)
    \/ a.type \notin Types
    \/ a.type = "recurring" /\ "schedule" \notin a.given

Incomplete(a) ==
    \/ ~({"agentId", "name", "prompt"} \subseteq a.given)
    \/ a.type \notin Types
    \/ a.type = "recurring" /\ "schedule" \notin a.given
    \/ a.type = "event" /\ "trigger" \notin a.given

(* An update needs nothing but a field to change: its type and schedule    *)
(* are left to the platform.                                               *)
Rejected(a) ==
    /\ a.tool = "upsert"
    /\ IF a.creating THEN Incomplete(a) ELSE a.type = "none" /\ a.given = {}

Fresh(c) == answer[c] = "unasked" /\ reply[c] = "none"

Reject(c, a) ==
    /\ Fresh(c)
    /\ Rejected(a)
    /\ args' = [args EXCEPT ![c] = a]
    /\ reply' = [reply EXCEPT ![c] = "rejected"]
    /\ UNCHANGED <<remoteVars, platformVars>>

Submit(c, a) ==
    /\ Fresh(c)
    /\ ~Rejected(a)
    /\ Ask(c)
    /\ args' = [args EXCEPT ![c] = a]
    /\ UNCHANGED <<reply, platformVars>>

(* The raw error handed on.                                                *)
ReportRaw(c) ==
    /\ reply[c] = "none"
    /\ Answered(c)
    /\ reply' = [reply EXCEPT ![c] = IF answer[c] \in Errors THEN answer[c] ELSE "result"]
    /\ UNCHANGED <<remoteVars, args, platformVars>>

Report(c) ==
    /\ reply[c] = "none"
    /\ Answered(c)
    /\ reply' = [reply EXCEPT ![c] = IF answer[c] \in Errors THEN "envelope" ELSE "result"]
    /\ UNCHANGED <<remoteVars, args, platformVars>>

-----------------------------------------------------------------------------
(* The platform.  A refusal here is a 404: credentials and bodies are good.*)

Exists == deletedBy = Nobody

Arrives(r) ==
    LET c == r.call
        a == args[c]
    IN  /\ Reads(a) \/ Creates(a) \/ Exists
        /\ Land(r)
        /\ deletedBy' = IF a.tool = "delete" THEN c ELSE deletedBy
        /\ runs' = IF Creates(a) /\ "run" \in a.given THEN [runs EXCEPT ![c] = @ + 1] ELSE runs
        /\ UNCHANGED toolVars

Lost(r) == Lose(r) /\ UNCHANGED <<toolVars, platformVars>>

NotFound(c) == ~Exists /\ ~Creates(args[c]) /\ ~Reads(args[c])

Conclude(c) == GiveUp(c) \/ \E a \in Answers : (a = "refused" => NotFound(c)) /\ Return(c, a)

Calling(c) == (Issue(c) \/ Skip(c) \/ Conclude(c)) /\ UNCHANGED <<toolVars, platformVars>>

AllReported ==
    /\ \A c \in Calls : reply[c] # "none"
    /\ pending = {}
    /\ UNCHANGED vars

Next ==
    \/ \E c \in Calls : \/ \E a \in Arguments : Reject(c, a) \/ Submit(c, a)
                        \/ Report(c)
                        \/ Calling(c)
    \/ \E r \in pending : Arrives(r) \/ Lost(r)
    \/ AllReported

Spec == Init /\ [][Next]_vars

-----------------------------------------------------------------------------
(* Properties.                                                             *)

(* The triggers call c has created or may still create.                    *)
Created(c) ==
    IF Creates(args[c])
    THEN effects[c] \cup {r.attempt : r \in {q \in pending : q.call = c}}
    ELSE {}

\* Every variable has its type; an agent is never run more often than requests
\* were issued.
TypeOK ==
    /\ RemoteTypeOK
    /\ args \in [Calls -> TriggerArguments]
    /\ reply \in [Calls -> {"none", "rejected", "envelope", "result"}]
    /\ deletedBy \in Calls \cup {Nobody}
    /\ \A c \in Calls : runs[c] \in 0..issued[c]

\* Every trigger that upsert_trigger has created, or may still create, belongs
\* to an agent and can fire: a recurring one has a schedule, an event one the
\* events that fire it, and none has a type of its own.
CreatedCanFire ==
    \A c \in Calls :
        Created(c) # {} =>
            /\ "agentId" \in args[c].given
            /\ \/ args[c].type = "recurring" /\ "schedule" \in args[c].given
               \/ args[c].type = "event" /\ "trigger" \in args[c].given
               \/ args[c].type = "manual"

\* A create answered at its first issue has created one trigger and will never
\* create another: duplicates take a retry.
CreatedOnceAtFirstIssue ==
    \A c \in Calls :
        Creates(args[c]) /\ answer[c] = "good" /\ issued[c] = 1
            => Created(c) = {0} /\ runs[c] = (IF "run" \in args[c].given THEN 1 ELSE 0)

\* A call that is told not_found was either too late, another call having
\* deleted the trigger, or is a delete that had already done its work when its
\* retry arrived.
NotFoundExplained ==
    \A c \in Calls :
        answer[c] = "refused" =>
            /\ deletedBy # Nobody
            /\ deletedBy = c => args[c].tool = "delete" /\ issued[c] > 1

\* "run=true runs it once immediately on create", and the call returns the
\* created trigger: a create with run=true makes one trigger and one run.
RunsOnceOnCreate ==
    \A c \in Calls :
        Creates(args[c]) /\ "run" \in args[c].given /\ reply[c] = "result" /\ answer[c] = "good"
            => runs[c] = 1
=============================================================================
