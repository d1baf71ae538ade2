------------------------------ MODULE SopChat -------------------------------
(***************************************************************************)
(* mspbotsagent_chat_with_sop (tools/sops.py): a blocking turn with the    *)
(* agent of a SOP.  A turn looks the SOP up, posts one run and waits for   *)
(* it to end.  The run is not idempotent: the platform runs the agent as   *)
(* often as the request arrives, whether or not anybody still waits.       *)
(*                                                                         *)
(* The turns here are those a caller spends on one message: it sends the   *)
(* message again when, and only when, the answer says retryable.           *)
(***************************************************************************)
EXTENDS RemoteCall

CONSTANT MaxTurns \* how often the caller is ready to send the message

ASSUME MaxTurnsAssumption == MaxTurns \in Nat

Turns == 1..MaxTurns

(***************************************************************************)
(* The two calls of a turn, and the retries argument of the second.        *)
(***************************************************************************)
SopOf(t) == [of |-> t, part |-> "sop"]

RunOf(t) == [of |-> t, part |-> "run"]

(* Forms a mistake could take stand before the operator they would replace;*)
(* nothing else uses them.  Here one retry is left on.                     *)
ChatRetriesLeftOn == 1

ChatRetries == 0

ASSUME ChatCallsAssumption ==
    /\ Calls = [of : Turns, part : {"sop", "run"}]
    /\ \A t \in Turns : Limit[RunOf(t)] = ChatRetries + 1

VARIABLES step,     \* step[t]: where turn t is
          reply,    \* reply[t]: what it answered
          hasAgent, \* whether the SOP has an agent
          sawAgent \* sawAgent[t]: whether it had one when turn t read it

chatVars == <<step, reply, hasAgent, sawAgent>>
vars == <<remoteVars, chatVars>>

(***************************************************************************)
(* not_found    the SOP cannot be read, for good                           *)
(* no_agent     "SOP has no agent, so there is nothing to talk to"         *)
(* again        an envelope with retryable=true                            *)
(* waiting      status 0: "probably still executing", retryable=false      *)
(* refused      an envelope for a 4xx, retryable=false                     *)
(* run_failed   success:false or __error__ in the run, retryable=false     *)
(* The others are the values of status in an answer.                       *)
(***************************************************************************)
Statuses == {"interrupted", "completed", "no_reply"}

Replies == {"none", "not_found", "no_agent", "again", "waiting", "refused", "run_failed"}
           \cup Statuses

Init ==
    /\ RemoteInit
    /\ step = [t \in Turns |-> "idle"]
    /\ reply = [t \in Turns |-> "none"]
    /\ hasAgent \in BOOLEAN
    /\ sawAgent = [t \in Turns |-> FALSE]

-----------------------------------------------------------------------------
(* What the tool makes of an answer.                                       *)

(* AgentError.to_envelope, for the statuses behind each kind of error.     *)
RetryableError(a) == a \in {"throttled", "failed", "unreachable"}

(* Only a SOP that was really read can name its agent.                     *)
NamesAgent(t) == answer[SopOf(t)] = "good" /\ sawAgent[t]

(* The envelope as it comes, without the case of a wait that ran out.      *)
ErrorReplyPlain(a) == IF RetryableError(a) THEN "again" ELSE "refused"

ErrorReply(a) ==
    IF a = "unreachable" THEN "waiting"
    ELSE IF RetryableError(a) THEN "again"
    ELSE "refused"

(* What the output of a run may be read as: an __error__, a pause, the     *)
(* last assistant text, or none.                                           *)
OutputReplies == {"run_failed"} \cup Statuses

(* success:false not looked at.                                            *)
RunRepliesUnchecked(a) ==
    CASE a \in {"good", "declined"} -> OutputReplies
      [] a = "blank" -> {"no_reply"}
      [] OTHER -> {ErrorReply(a)}

(* None and a page of text carry no output; a declined answer is either    *)
(* such a page or success:false.                                           *)
RunReplies(a) ==
    CASE a = "good" -> OutputReplies
      [] a = "declined" -> {"run_failed", "no_reply"}
      [] a = "blank" -> {"no_reply"}
      [] OTHER -> {ErrorReply(a)}

-----------------------------------------------------------------------------
Over(t) == step[t] = "over"

Answer(t, r) ==
    /\ step' = [step EXCEPT ![t] = "over"]
    /\ reply' = [reply EXCEPT ![t] = r]
    /\ UNCHANGED <<hasAgent, sawAgent>>

(* The caller sends the message, for the first time or once more.          *)
MaySend(t) == t > 1 => Over(t - 1) /\ reply[t - 1] = "again"

Begin(t) ==
    /\ step[t] = "idle"
    /\ MaySend(t)
    /\ Ask(SopOf(t))
    /\ step' = [step EXCEPT ![t] = "looking"]
    /\ UNCHANGED <<reply, hasAgent, sawAgent>>

LookedUp(t) == step[t] = "looking" /\ Answered(SopOf(t))

(* The raw error handed on.                                                *)
LookupRaw(t) ==
    /\ LookedUp(t)
    /\ answer[SopOf(t)] \in Errors
    /\ Answer(t, answer[SopOf(t)])
    /\ UNCHANGED remoteVars

LookupFails(t) ==
    /\ LookedUp(t)
    /\ answer[SopOf(t)] \in Errors
    /\ Answer(t, IF RetryableError(answer[SopOf(t)]) THEN "again" ELSE "not_found")
    /\ UNCHANGED remoteVars

(* A lookup that read nothing is left hanging.                             *)
NoAgentIfRead(t) ==
    /\ LookedUp(t)
    /\ answer[SopOf(t)] = "good"
    /\ ~NamesAgent(t)
    /\ Answer(t, "no_agent")
    /\ UNCHANGED remoteVars

NoAgent(t) ==
    /\ LookedUp(t)
    /\ answer[SopOf(t)] \notin Errors
    /\ ~NamesAgent(t)
    /\ Answer(t, "no_agent")
    /\ UNCHANGED remoteVars

StartRun(t) ==
    /\ LookedUp(t)
    /\ NamesAgent(t)
    /\ Ask(RunOf(t))
    /\ step' = [step EXCEPT ![t] = "running"]
    /\ UNCHANGED <<reply, hasAgent, sawAgent>>

EndTurn(t) ==
    /\ step[t] = "running"
    /\ Answered(RunOf(t))
    /\ \E r \in RunReplies(answer[RunOf(t)]) : Answer(t, r)
    /\ UNCHANGED remoteVars

TurnStep(t) == LookupFails(t) \/ NoAgent(t) \/ StartRun(t) \/ EndTurn(t)

-----------------------------------------------------------------------------
Conclude(c) == GiveUp(c) \/ \E a \in Answers : Return(c, a)

Calling(c) == (Issue(c) \/ Skip(c) \/ Conclude(c)) /\ UNCHANGED chatVars

SopRead(r) ==
    /\ r.call.part = "sop"
    /\ Land(r)
    /\ sawAgent' = [sawAgent EXCEPT ![r.call.of] = hasAgent]
    /\ UNCHANGED <<step, reply, hasAgent>>

AgentRuns(r) == r.call.part = "run" /\ Land(r) /\ UNCHANGED chatVars

Lost(r) == Lose(r) /\ UNCHANGED chatVars

(* Opening the SOP in the Agent Platform provisions an agent; it may also  *)
(* go away (agent_live).                                                   *)
Provision ==
    /\ hasAgent' = ~hasAgent
    /\ UNCHANGED <<remoteVars, step, reply, sawAgent>>

Next ==
    \/ \E t \in Turns : Begin(t) \/ TurnStep(t)
    \/ \E c \in Calls : Calling(c)
    \/ \E r \in pending : SopRead(r) \/ AgentRuns(r) \/ Lost(r)
    \/ Provision

Spec == Init /\ [][Next]_vars

(* A call is answered in the end (EveryCallReturns of ApiClient: the read  *)
(* timeout of 300 seconds), and a turn whose answer has come goes on.      *)
FairSpec ==
    /\ Spec
    /\ \A t \in Turns : WF_vars(TurnStep(t))
    /\ \A c \in Calls : WF_vars(Conclude(c) /\ UNCHANGED chatVars)

-----------------------------------------------------------------------------
(* Properties.                                                             *)

(* The requests of turn t that have run the agent or still may.            *)
Runs(t) == effects[RunOf(t)] \cup {r.attempt : r \in {q \in pending : q.call = RunOf(t)}}

\* Every variable has its type.
TypeOK ==
    /\ RemoteTypeOK
    /\ step \in [Turns -> {"idle", "looking", "running", "over"}]
    /\ reply \in [Turns -> Replies]
    /\ hasAgent \in BOOLEAN
    /\ sawAgent \in [Turns -> BOOLEAN]

\* One turn never runs the agent twice, however its request and its answer get
\* lost (the README: this call path turns retries off, do not revert).
OneRunPerTurn == \A t \in Turns : \A m, n \in Runs(t) : m = n

\* A caller that trusts retryable runs the agent twice for one message only if
\* an earlier turn was answered with a 5xx: never after a timeout, a lost
\* connection or a 429.
SecondRunExplained ==
    \A t, u \in Turns : t < u /\ Runs(t) # {} /\ Runs(u) # {} => answer[RunOf(t)] = "failed"

\* An answer that says how the run ended is about a run that took place; one
\* that says it said nothing is, unless what came back was no output at all:
\* nothing, a page of text or success:false.
StatusMeansRan ==
    \A t \in Turns :
        /\ reply[t] \in {"interrupted", "completed"} => effects[RunOf(t)] # {}
        /\ reply[t] = "no_reply" =>
              effects[RunOf(t)] # {} \/ answer[RunOf(t)] \in {"blank", "declined"}

\* Every turn is answered.
TurnsEnd == \A t \in Turns : step[t] = "looking" ~> Over(t)
=============================================================================
