---------------------------- MODULE AgentPolicy -----------------------------
(***************************************************************************)
(* tools/agents.py: the six tools that read and write one agent's policy.  *)
(*                                                                         *)
(* All share one GET and one PUT of the same record.  A getter is one read *)
(* of the record, projected.  An upsert that touches what policyError      *)
(* makes unreliable first reads the record (_guard_policy) and then puts   *)
(* the keys it was given; anything may happen in between and after, since  *)
(* reads and writes are calls of AgentClient: see RemoteCall for what may  *)
(* become of them.                                                         *)
(***************************************************************************)
EXTENDS RemoteCall

CONSTANTS ToolCalls, \* invocations of the tools, all on the same agent
          Arguments, \* what they may be invoked with
          Stored,    \* the writer of what the record holds to begin with
          Null       \* a value that is not there

PermissionKeys == {"permission", "interruptOn", "owners"}

Keys == PermissionKeys \cup {"review", "approval"}

Getters == {"get_permissions", "get_evaluation", "get_approval"}

Upserts == {"upsert_permissions", "upsert_evaluation", "upsert_approval"}

(***************************************************************************)
(* given    the arguments of upsert_permissions that are not None          *)
(* ids      the kinds of tool ids its two maps are keyed by                *)
(* rubrics  whether every rule of upsert_evaluation has a rubric           *)
(***************************************************************************)
ToolArguments == [tool : Getters \cup Upserts, given : SUBSET PermissionKeys,
                  ids : SUBSET {"builtin", "connector", "made_up"}, rubrics : BOOLEAN]

(***************************************************************************)
(* The calls of the client: each tool call has at most one read and one    *)
(* write to make.                                                          *)
(***************************************************************************)
GetOf(t) == [of |-> t, part |-> "get"]

PutOf(t) == [of |-> t, part |-> "put"]

ASSUME CallsAssumption == Calls = [of : ToolCalls, part : {"get", "put"}]
ASSUME ArgumentsAssumption == Arguments \subseteq ToolArguments
ASSUME StoredAssumption == Stored \notin ToolCalls

VARIABLES step,        \* step[t]: where tool call t is
          args,        \* args[t]: what it was invoked with
          reply,       \* reply[t]: the kind of answer it gave
          shown,       \* shown[t]: what a getter showed, key by key
          record,      \* record[k]: the tool call that last set or erased key k
          policyError, \* the flag the platform keeps on the record
          snapshot,    \* snapshot[t][n]: the record as issue n of t's read saw it
          steady,      \* steady[t]: policyError has not changed since t began
          earlier      \* earlier[t]: the tool calls that were over when t began

toolVars == <<step, args, reply, shown, steady, earlier>>
agentVars == <<record, policyError, snapshot>>
vars == <<remoteVars, toolVars, agentVars>>

NoArguments == [tool |-> "get_permissions", given |-> {}, ids |-> {}, rubrics |-> FALSE]

Init ==
    /\ RemoteInit
    /\ step = [t \in ToolCalls |-> "idle"]
    /\ args = [t \in ToolCalls |-> NoArguments]
    /\ reply = [t \in ToolCalls |-> "none"]
    /\ shown = [t \in ToolCalls |-> <<>>]
    /\ record = [k \in Keys |-> Stored]
    /\ policyError \in BOOLEAN
    /\ snapshot = [t \in ToolCalls |-> <<>>]
    /\ steady = [t \in ToolCalls |-> TRUE]
    /\ earlier = [t \in ToolCalls |-> {}]

-----------------------------------------------------------------------------
(* What the tools decide from their arguments alone.                       *)

(* Only ids without a dot are looked up among the built-ins.               *)
InvalidBareIds(a) == a.ids \cap {"made_up"}

Rejected(a) ==
    \/ a.tool = "upsert_permissions" /\ (a.given = {} \/ InvalidBareIds(a) # {})
    \/ a.tool = "upsert_evaluation" /\ ~a.rubrics

Body(a) ==
    CASE a.tool = "upsert_permissions" -> a.given
      [] a.tool = "upsert_evaluation" -> {"review"}
      [] a.tool = "upsert_approval" -> {"approval"}

(* Forms a mistake could take stand before the operator they would replace;*)
(* nothing else uses them.  Here every upsert is guarded ...               *)
GuardedAlways(a) == a.tool \in Upserts

(* ... and here the approval prompts are forgotten.                        *)
GuardedLess(a) ==
    \/ a.tool \in {"upsert_evaluation", "upsert_approval"}
    \/ a.tool = "upsert_permissions" /\ "permission" \in a.given

(* policyError says nothing about owners: alone they are not guarded.      *)
Guarded(a) ==
    \/ a.tool \in {"upsert_evaluation", "upsert_approval"}
    \/ a.tool = "upsert_permissions" /\ a.given \cap {"permission", "interruptOn"} # {}

Projection(tool) ==
    CASE tool = "get_permissions" -> PermissionKeys
      [] tool = "get_evaluation" -> {"review"}
      [] tool = "get_approval" -> {"approval"}

-----------------------------------------------------------------------------
(* What they make of the answer to a read.                                 *)

(* _fetch_agent_data: (result or {}).get("data", {}) or {}.  The record if *)
(* the platform sent it; of None, a page of text or success:false nothing. *)
Fetched(t) ==
    IF answer[GetOf(t)] = "good" THEN snapshot[t][issued[GetOf(t)]]
    ELSE [record |-> [k \in Keys |-> Null], policyError |-> FALSE]

ReadFailed(t) == answer[GetOf(t)] \in Errors

(* A read that failed lets the upsert pass.                                *)
BlockedByFlag(t) == Fetched(t).policyError

Blocked(t) == ReadFailed(t) \/ Fetched(t).policyError

-----------------------------------------------------------------------------
Over(t) == step[t] = "over"

Begin(t, a) ==
    /\ step[t] = "idle"
    /\ args' = [args EXCEPT ![t] = a]
    /\ steady' = [steady EXCEPT ![t] = TRUE]
    /\ earlier' = [earlier EXCEPT ![t] = {u \in ToolCalls : Over(u)}]

Answer(t, kind) ==
    /\ step' = [step EXCEPT ![t] = "over"]
    /\ reply' = [reply EXCEPT ![t] = kind]

Reject(t, a) ==
    /\ Rejected(a)
    /\ Begin(t, a)
    /\ Answer(t, "rejected")
    /\ UNCHANGED <<remoteVars, shown, agentVars>>

(* A getter, or an upsert that has to pass the guard.                      *)
BeginRead(t, a) ==
    /\ ~Rejected(a)
    /\ a.tool \in Getters \/ Guarded(a)
    /\ Begin(t, a)
    /\ Ask(GetOf(t))
    /\ step' = [step EXCEPT ![t] = "reading"]
    /\ UNCHANGED <<reply, shown, agentVars>>

BeginWrite(t, a) ==
    /\ ~Rejected(a)
    /\ a.tool \in Upserts /\ ~Guarded(a)
    /\ Begin(t, a)
    /\ Ask(PutOf(t))
    /\ step' = [step EXCEPT ![t] = "writing"]
    /\ UNCHANGED <<reply, shown, agentVars>>

AfterRead(t) == step[t] = "reading" /\ Answered(GetOf(t))

Show(t) ==
    /\ AfterRead(t)
    /\ args[t].tool \in Getters
    /\ Answer(t, IF ReadFailed(t) THEN "envelope" ELSE "shown")
    /\ shown' = IF ReadFailed(t) THEN shown
                ELSE [shown EXCEPT ![t] =
                        [k \in Projection(args[t].tool) |-> Fetched(t).record[k]]]
    /\ UNCHANGED <<remoteVars, args, steady, earlier, agentVars>>

(* An upsert whose read failed is left hanging.                            *)
BlockByFlag(t) ==
    /\ AfterRead(t)
    /\ args[t].tool \in Upserts
    /\ Fetched(t).policyError
    /\ Answer(t, "blocked")
    /\ UNCHANGED <<remoteVars, args, shown, steady, earlier, agentVars>>

Block(t) ==
    /\ AfterRead(t)
    /\ args[t].tool \in Upserts
    /\ Blocked(t)
    /\ Answer(t, "blocked")
    /\ UNCHANGED <<remoteVars, args, shown, steady, earlier, agentVars>>

Proceed(t) ==
    /\ AfterRead(t)
    /\ args[t].tool \in Upserts
    /\ ~Blocked(t)
    /\ Ask(PutOf(t))
    /\ step' = [step EXCEPT ![t] = "writing"]
    /\ UNCHANGED <<args, reply, shown, steady, earlier, agentVars>>

(* The tool answers without waiting for the PUT.                           *)
ReportEarly(t) ==
    /\ step[t] = "writing"
    /\ issued[PutOf(t)] > 0
    /\ Answer(t, "written")
    /\ UNCHANGED <<remoteVars, args, shown, steady, earlier, agentVars>>

(* What was raised is handed on as it is.                                  *)
ReportRaw(t) ==
    /\ step[t] = "writing"
    /\ Answered(PutOf(t))
    /\ Answer(t, IF answer[PutOf(t)] \in Errors THEN answer[PutOf(t)] ELSE "written")
    /\ UNCHANGED <<remoteVars, args, shown, steady, earlier, agentVars>>

(* The result is dumped as it is, whatever it says; an AgentError becomes  *)
(* an envelope.                                                            *)
Report(t) ==
    /\ step[t] = "writing"
    /\ Answered(PutOf(t))
    /\ Answer(t, IF answer[PutOf(t)] \in Errors THEN "envelope" ELSE "written")
    /\ UNCHANGED <<remoteVars, args, shown, steady, earlier, agentVars>>

ToolStep(t) == Show(t) \/ Block(t) \/ Proceed(t) \/ Report(t)

-----------------------------------------------------------------------------
(* The client at work, and the platform at the other end.                  *)

Try(c) == Issue(c) \/ Skip(c)

Conclude(c) == GiveUp(c) \/ \E a \in Answers : Return(c, a)

Calling(c) == (Try(c) \/ Conclude(c)) /\ UNCHANGED <<toolVars, agentVars>>

ReadLands(r) ==
    /\ r.call.part = "get"
    /\ Land(r)
    /\ snapshot' = [snapshot EXCEPT ![r.call.of] =
            [n \in DOMAIN @ \cup {r.attempt + 1} |->
                IF n = r.attempt + 1 THEN [record |-> record, policyError |-> policyError]
                ELSE @[n]]]
    /\ UNCHANGED <<toolVars, record, policyError>>

(* The keys a write may replace.  Of the permissions it does not give, the *)
(* header of agents.py says that they stay (a partial PUT), the docstrings *)
(* of the permission tools that they are erased.  Which it is the platform *)
(* knows: here it chooses, write by write.                                 *)
Replaceable(a) == IF a.tool = "upsert_permissions" THEN PermissionKeys ELSE Body(a)

Replaced(t, keys) == [k \in Keys |-> IF k \in keys THEN t ELSE record[k]]

WriteLands(r) ==
    LET t == r.call.of
    IN  /\ r.call.part = "put"
        /\ Land(r)
        /\ \E keys \in {Body(args[t]), Replaceable(args[t])} : record' = Replaced(t, keys)
        /\ UNCHANGED <<toolVars, policyError, snapshot>>

Lost(r) == Lose(r) /\ UNCHANGED <<toolVars, agentVars>>

(* The shared assistant policy breaks or is repaired on the platform.      *)
PolicyFlips ==
    /\ policyError' = ~policyError
    /\ steady' = [t \in ToolCalls |-> steady[t] /\ (step[t] = "idle" \/ Over(t))]
    /\ UNCHANGED <<remoteVars, step, args, reply, shown, earlier, record, snapshot>>

AllOver ==
    /\ \A t \in ToolCalls : Over(t)
    /\ pending = {}
    /\ UNCHANGED vars

Next ==
    \/ \E t \in ToolCalls : \/ \E a \in Arguments : Reject(t, a) \/ BeginRead(t, a) \/ BeginWrite(t, a)
                            \/ ToolStep(t)
    \/ \E c \in Calls : Calling(c)
    \/ \E r \in pending : ReadLands(r) \/ WriteLands(r) \/ Lost(r)
    \/ PolicyFlips
    \/ AllOver

Spec == Init /\ [][Next]_vars

(* A tool whose answer has come goes on; a call is answered in the end     *)
(* (EveryCallReturns of ApiClient).                                        *)
FairSpec ==
    /\ Spec
    /\ \A t \in ToolCalls : WF_vars(ToolStep(t))
    /\ \A c \in Calls : WF_vars(Conclude(c) /\ UNCHANGED <<toolVars, agentVars>>)

-----------------------------------------------------------------------------
(* Properties.                                                             *)

\* Every variable has its type.
TypeOK ==
    /\ RemoteTypeOK
    /\ step \in [ToolCalls -> {"idle", "reading", "writing", "over"}]
    /\ args \in [ToolCalls -> ToolArguments]
    /\ reply \in [ToolCalls -> {"none", "rejected", "blocked", "shown", "written", "envelope"}]
    /\ record \in [Keys -> ToolCalls \cup {Stored}]
    /\ policyError \in BOOLEAN
    /\ steady \in [ToolCalls -> BOOLEAN]
    /\ earlier \in [ToolCalls -> SUBSET ToolCalls]

ProtectedKeys == {"permission", "interruptOn", "review", "approval"}

Touches(t) == Body(args[t]) \cap ProtectedKeys # {}

KnownBroken(t) == policyError /\ steady[t]

\* While the platform says policyError, and has said so since the upsert began,
\* the upsert gets to writing a policy only past a guard whose read came back
\* with nothing in it: never past a read that failed, never past the flag.
GuardHolds ==
    \A t \in ToolCalls :
        step[t] = "writing" /\ Touches(t) /\ KnownBroken(t)
            => answer[GetOf(t)] \in {"blank", "declined"}

\* Ownership can be set whatever becomes of the policy and of the guard's read.
OwnersUnaffected ==
    \A t \in ToolCalls :
        args[t].tool = "upsert_permissions" /\ args[t].given = {"owners"} => reply[t] # "blocked"

Wrote(t) == args[t].tool \in Upserts /\ answer[PutOf(t)] = "good"

(* A write that was answered at its first issue and reported before u began*)
Behind(v, u) == v \in earlier[u] /\ Wrote(v) /\ issued[PutOf(v)] = 1

(* v has landed and may have replaced k, and it is not one u came after.   *)
CameSince(v, k, u) ==
    /\ v \in ToolCalls
    /\ effects[PutOf(v)] # {}
    /\ k \in Replaceable(args[v])
    /\ ~Behind(v, u)

\* What a reported upsert has set stays, unless an upsert replaces it that was
\* under way with it, was made after it or had to be retried: one that was over
\* before, answered at its first issue, can neither overwrite it nor, if a write
\* erases what it does not name, erase it.  (With a retry it can: the duplicate.)
LaterWriteStays ==
    \A u \in ToolCalls :
        Wrote(u) => \A k \in Body(args[u]) : CameSince(record[k], k, u)

\* A getter called after a write was reported shows, of every key of that write,
\* what a write has really made of it: that one or one that came since, never
\* what was there before it, be it from the start or from a quiet write behind.
ReadYourWrites ==
    \A t, u \in ToolCalls :
        /\ u \in earlier[t]
        /\ Wrote(u)
        /\ reply[t] = "shown"
        /\ answer[GetOf(t)] = "good"
        => \A k \in DOMAIN shown[t] \cap Body(args[u]) : CameSince(shown[t][k], k, u)

\* A value the record holds under a key of the policy was put there past the
\* guard: by an upsert whose own read of the record came back without an error
\* and without the flag, however many upserts and retries were under way.  (Of
\* what is erased nothing is said: owners alone are written without a guard.)
PolicyWrittenPastGuard ==
    \A k \in ProtectedKeys :
        record[k] # Stored /\ k \in Body(args[record[k]]) =>
            /\ Answered(GetOf(record[k]))
            /\ ~ReadFailed(record[k])
            /\ ~Fetched(record[k]).policyError

\* Every tool call is answered.
EveryToolAnswers ==
    \A t \in ToolCalls : step[t] \in {"reading", "writing"} ~> Over(t)
=============================================================================
