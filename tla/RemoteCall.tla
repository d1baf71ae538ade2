----------------------------- MODULE RemoteCall -----------------------------
(***************************************************************************)
(* What AgentClient (api_client.py) promises the MCP tools about one call  *)
(* to the Agent Platform, without the machinery that keeps the promise.    *)
(*                                                                         *)
(* A call is asked for once and answered once.  In between the client      *)
(* issues it to the platform a bounded number of times.  Every issued      *)
(* request may take effect, at any moment, even after the caller has got   *)
(* its answer, or may be lost.  Few answers say anything about the         *)
(* platform: "good" says that the last issue took effect, "refused" and    *)
(* "throttled" that it did not and never will.  The others leave the       *)
(* caller in the dark.                                                     *)
(*                                                                         *)
(* The tool modules are built on this module; ApiClient implements it.     *)
(***************************************************************************)
EXTENDS Naturals

CONSTANTS Calls,   \* the calls that may be made
          Limit    \* Limit[c]: how often call c may be issued

ASSUME LimitAssumption == Limit \in [Calls -> Nat \ {0}]

VARIABLES answer,  \* answer[c]: what the caller of c has been told
          issued,  \* issued[c]: how many times c has been issued
          pending, \* requests issued and not yet settled
          effects  \* effects[c]: the issues of c that took effect

remoteVars == <<answer, issued, pending, effects>>

(***************************************************************************)
(* good         a JSON body with a status below 400                        *)
(* declined     a body below 400 that is text or says success:false        *)
(* blank        None, that is any response whose content was empty         *)
(* refused      an AgentError of status 4xx other than 429                 *)
(* throttled    an AgentError of status 429                                *)
(* failed       an AgentError of status 5xx                                *)
(* unreachable  an AgentError of status 0, that is an httpx.RequestError   *)
(***************************************************************************)
Errors == {"refused", "throttled", "failed", "unreachable"}

Answers == {"good", "declined", "blank"} \cup Errors

Request == [call : Calls, attempt : Nat]

Req(c, n) == [call |-> c, attempt |-> n]

RemoteTypeOK ==
    /\ answer \in [Calls -> Answers \cup {"unasked", "open"}]
    /\ issued \in [Calls -> Nat]
    /\ pending \subseteq Request
    /\ effects \in [Calls -> SUBSET Nat]

RemoteInit ==
    /\ answer = [c \in Calls |-> "unasked"]
    /\ issued = [c \in Calls |-> 0]
    /\ pending = {}
    /\ effects = [c \in Calls |-> {}]

-----------------------------------------------------------------------------
Answered(c) == answer[c] \in Answers

Ask(c) ==
    /\ answer[c] = "unasked"
    /\ answer' = [answer EXCEPT ![c] = "open"]
    /\ UNCHANGED <<issued, pending, effects>>

(* One more request leaves for the platform.                               *)
Issue(c) ==
    /\ answer[c] = "open"
    /\ issued[c] < Limit[c]
    /\ pending' = pending \cup {Req(c, issued[c])}
    /\ issued' = [issued EXCEPT ![c] = @ + 1]
    /\ UNCHANGED <<answer, effects>>

(* One more try that never reaches the network.                            *)
Skip(c) ==
    /\ answer[c] = "open"
    /\ issued[c] < Limit[c]
    /\ issued' = [issued EXCEPT ![c] = @ + 1]
    /\ UNCHANGED <<answer, pending, effects>>

Land(r) ==
    /\ r \in pending
    /\ pending' = pending \ {r}
    /\ effects' = [effects EXCEPT ![r.call] = @ \cup {r.attempt}]
    /\ UNCHANGED <<answer, issued>>

Lose(r) ==
    /\ r \in pending
    /\ pending' = pending \ {r}
    /\ UNCHANGED <<answer, issued, effects>>

Last(c) == issued[c] - 1

(* A mistake in Truthful: the status behind an answer is not looked at.    *)
(* Nothing else uses it.                                                   *)
TruthfulOfNothing(c, a) == a \in Answers

Truthful(c, a) ==
    /\ a = "good" => Last(c) \in effects[c]
    /\ a \in {"refused", "throttled"} =>
            Last(c) \notin effects[c] /\ Req(c, Last(c)) \notin pending

Return(c, a) ==
    /\ answer[c] = "open"
    /\ issued[c] > 0
    /\ Truthful(c, a)
    /\ answer' = [answer EXCEPT ![c] = a]
    /\ UNCHANGED <<issued, pending, effects>>

(* The last try never reaches the network, and that is the end of it.      *)
GiveUp(c) ==
    /\ answer[c] = "open"
    /\ issued[c] < Limit[c]
    /\ issued' = [issued EXCEPT ![c] = @ + 1]
    /\ answer' = [answer EXCEPT ![c] = "unreachable"]
    /\ UNCHANGED <<pending, effects>>

RemoteNext ==
    \/ \E c \in Calls : \/ Ask(c)
                        \/ Issue(c)
                        \/ Skip(c)
                        \/ GiveUp(c)
                        \/ \E a \in Answers : Return(c, a)
    \/ \E r \in pending : Land(r) \/ Lose(r)

RemoteSpec == RemoteInit /\ [][RemoteNext]_remoteVars
=============================================================================
