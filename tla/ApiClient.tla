----------------------------- MODULE ApiClient ------------------------------
(***************************************************************************)
(* AgentClient._request (api_client.py): the retry loop every tool call    *)
(* goes through, run by any number of concurrent calls against a network   *)
(* and a platform that may be slow, answer wrongly or not answer at all.   *)
(*                                                                         *)
(* A request stays on the wire until the platform has processed or lost    *)
(* it.  The client may have stopped listening by then: a read timeout, a   *)
(* gateway's 504 and the end of the call leave the request where it is.    *)
(***************************************************************************)
EXTENDS Integers

CONSTANTS Calls,      \* calls of get, post, put, patch, delete
          RetriesArg, \* RetriesArg[c]: the retries argument of call c
          Default,    \* the retries argument left out
          Responses   \* the HTTP responses that may be received

(***************************************************************************)
(* A response is its status, what its content is, and the Retry-After      *)
(* header in seconds when there is one that float() can parse (hinted).    *)
(* Redirects are followed by httpx, so no 3xx reaches the client.          *)
(*   empty    no content              text     content that is not JSON    *)
(*   data     JSON                    failure  JSON with success:false     *)
(***************************************************************************)
Contents == {"empty", "text", "data", "failure"}

Response == [status : (200..299) \cup (400..599), content : Contents,
             hinted : BOOLEAN, hint : Int]

ASSUME RetriesAssumption == RetriesArg \in [Calls -> Nat \cup {Default}]
ASSUME ResponsesAssumption == Responses \subseteq Response

VARIABLES phase,   \* phase[c]: where _request is
          attempt, \* attempt[c]: the loop variable
          slept,   \* slept[c]: seconds spent in asyncio.sleep so far
          inbox,   \* inbox[c]: the response to the current attempt, if any
          outcome, \* outcome[c]: what _request returned or raised
          wire,    \* requests sent and neither processed nor lost
          applied  \* applied[c]: the attempts of c that changed the platform

clientVars == <<phase, attempt, slept, inbox, outcome>>
vars == <<phase, attempt, slept, inbox, outcome, wire, applied>>

NoReply == [status |-> 0, content |-> "empty", hinted |-> FALSE, hint |-> 0]

Request == [call : Calls, attempt : Nat]

Req(c, n) == [call |-> c, attempt |-> n]

-----------------------------------------------------------------------------
(* The numbers and tables of api_client.py.                                *)

MaxBackoff == 20

Smaller(x, y) == IF x < y THEN x ELSE y

RetryableStatus == {429, 500, 502, 503, 504}

(* Forms a mistake could take stand before the operator they would replace;*)
(* nothing else uses them.                                                 *)

(* retries or 3                                                            *)
RetriesOrDefault(c) == IF RetriesArg[c] \in {Default, 0} THEN 3 ELSE RetriesArg[c]

MaxRetries(c) == IF RetriesArg[c] = Default THEN 3 ELSE RetriesArg[c]

(* 2**attempt seconds; from 2**5 on the cap rules.                         *)
Backoff(n) == IF n > 4 THEN MaxBackoff ELSE Smaller(<<1, 2, 4, 8, 16>>[n + 1], MaxBackoff)

(* The hint taken as it comes.                                             *)
RetryDelayUncapped(resp, n) == IF resp.hinted THEN resp.hint ELSE Backoff(n)

RetryDelay(resp, n) ==
    IF resp.hinted THEN Smaller(resp.hint, MaxBackoff) ELSE Backoff(n)

(* A negative delay taken as it comes.                                     *)
SleepTimeSigned(delay) == delay

(* asyncio.sleep returns at once when the delay is not positive.           *)
SleepTime(delay) == IF delay < 0 THEN 0 ELSE delay

(* The last retry never used.                                              *)
ShouldRetryOneLess(c, resp) ==
    resp.status \in RetryableStatus /\ attempt[c] + 1 < MaxRetries(c)

(* No end to the retries.                                                  *)
ShouldRetryAlways(c, resp) == resp.status \in RetryableStatus

ShouldRetry(c, resp) ==
    resp.status \in RetryableStatus /\ attempt[c] < MaxRetries(c)

Unset == [kind |-> "unset", status |-> 0]

AgentError(status) == [kind |-> "error", status |-> status]

(* A body returned whatever the status.                                    *)
HandleAnyStatus(resp) ==
    [kind |-> IF resp.content = "empty" THEN "none" ELSE resp.content, status |-> resp.status]

(* No content wins over every status; then the status decides.             *)
Handle(resp) ==
    IF resp.content = "empty" THEN [kind |-> "none", status |-> resp.status]
    ELSE IF resp.status >= 400 THEN AgentError(resp.status)
    ELSE [kind |-> resp.content, status |-> resp.status]

Outcome == [kind : {"unset", "none", "text", "data", "failure", "error"}, status : Nat]

-----------------------------------------------------------------------------
(* The platform: what a response tells about the request it answers.       *)

Refusal(status) == status \in 400..499

(* A JSON or empty success is sent only after the change is made, a 4xx    *)
(* only without it; a 5xx, a page of text and success:false go with both.  *)
Honest(resp, lands) ==
    /\ resp.status < 300 /\ resp.content \in {"data", "empty"} => lands
    /\ Refusal(resp.status) => ~lands

Init ==
    /\ phase = [c \in Calls |-> "idle"]
    /\ attempt = [c \in Calls |-> 0]
    /\ slept = [c \in Calls |-> 0]
    /\ inbox = [c \in Calls |-> NoReply]
    /\ outcome = [c \in Calls |-> Unset]
    /\ wire = {}
    /\ applied = [c \in Calls |-> {}]

-----------------------------------------------------------------------------
(* The client's steps.                                                     *)

Invoke(c) ==
    /\ phase[c] = "idle"
    /\ phase' = [phase EXCEPT ![c] = "ready"]
    /\ UNCHANGED <<attempt, slept, inbox, outcome, wire, applied>>

Send(c) ==
    /\ phase[c] = "ready"
    /\ phase' = [phase EXCEPT ![c] = "waiting"]
    /\ wire' = wire \cup {Req(c, attempt[c])}
    /\ inbox' = [inbox EXCEPT ![c] = NoReply]
    /\ UNCHANGED <<attempt, slept, outcome, applied>>

Sleep(c, delay) ==
    /\ phase' = [phase EXCEPT ![c] = "backoff"]
    /\ slept' = [slept EXCEPT ![c] = @ + SleepTime(delay)]
    /\ UNCHANGED <<attempt, inbox, outcome, wire, applied>>

Finish(c, out) ==
    /\ phase' = [phase EXCEPT ![c] = "done"]
    /\ outcome' = [outcome EXCEPT ![c] = out]
    /\ UNCHANGED <<attempt, slept, inbox, wire, applied>>

(* httpx.RequestError: raised before anything is sent (no connection, no   *)
(* free connection in the pool) or after (read or write timeout, protocol  *)
(* error), and then whether or not a response is already on its way.       *)
Interruptible(c) == phase[c] \in {"ready", "waiting"}

(* A retry that is neither counted nor waited for.                         *)
RetryAtOnce(c) ==
    /\ Interruptible(c)
    /\ attempt[c] < MaxRetries(c)
    /\ phase' = [phase EXCEPT ![c] = "ready"]
    /\ UNCHANGED <<attempt, slept, inbox, outcome, wire, applied>>

RetryAfterError(c) ==
    /\ Interruptible(c)
    /\ attempt[c] < MaxRetries(c)
    /\ Sleep(c, Backoff(attempt[c]))

(* A network error reported as if the platform had answered.               *)
GiveUpAsAnswered(c) ==
    /\ Interruptible(c)
    /\ attempt[c] >= MaxRetries(c)
    /\ Finish(c, AgentError(500))

GiveUp(c) ==
    /\ Interruptible(c)
    /\ attempt[c] >= MaxRetries(c)
    /\ Finish(c, AgentError(0))

HasReply(c) == phase[c] = "waiting" /\ inbox[c] # NoReply

RetryAfterStatus(c) ==
    /\ HasReply(c)
    /\ ShouldRetry(c, inbox[c])
    /\ Sleep(c, RetryDelay(inbox[c], attempt[c]))

Return(c) ==
    /\ HasReply(c)
    /\ ~ShouldRetry(c, inbox[c])
    /\ Finish(c, Handle(inbox[c]))

Wake(c) ==
    /\ phase[c] = "backoff"
    /\ phase' = [phase EXCEPT ![c] = "ready"]
    /\ attempt' = [attempt EXCEPT ![c] = @ + 1]
    /\ UNCHANGED <<slept, inbox, outcome, wire, applied>>

ClientStep(c) ==
    Send(c) \/ RetryAfterError(c) \/ GiveUp(c) \/ RetryAfterStatus(c) \/ Return(c) \/ Wake(c)

-----------------------------------------------------------------------------
(* The steps of the platform and of the network.                           *)

Listening(r) ==
    phase[r.call] = "waiting" /\ attempt[r.call] = r.attempt /\ inbox[r.call] = NoReply

(* A response nobody listens for any more is thrown away.                  *)
Deliver(r, resp) ==
    inbox' = IF Listening(r) THEN [inbox EXCEPT ![r.call] = resp] ELSE inbox

Process(r, resp, lands) ==
    /\ r \in wire
    /\ Honest(resp, lands)
    /\ wire' = wire \ {r}
    /\ applied' = IF lands THEN [applied EXCEPT ![r.call] = @ \cup {r.attempt}] ELSE applied
    /\ Deliver(r, resp)
    /\ UNCHANGED <<phase, attempt, slept, outcome>>

(* A proxy answers in the platform's stead and does not recall the request.*)
ProxyAnswer(r, resp) ==
    /\ r \in wire
    /\ Listening(r)
    /\ resp.status \in {502, 503, 504}
    /\ Deliver(r, resp)
    /\ UNCHANGED <<phase, attempt, slept, outcome, wire, applied>>

Lose(r) ==
    /\ r \in wire
    /\ wire' = wire \ {r}
    /\ UNCHANGED <<phase, attempt, slept, inbox, outcome, applied>>

Finished ==
    /\ \A c \in Calls : phase[c] = "done"
    /\ wire = {}
    /\ UNCHANGED vars

Next ==
    \/ \E c \in Calls : Invoke(c) \/ ClientStep(c)
    \/ \E r \in wire : \/ \E resp \in Responses : \/ \E lands \in BOOLEAN : Process(r, resp, lands)
                                                  \/ ProxyAnswer(r, resp)
                       \/ Lose(r)
    \/ Finished

Spec == Init /\ [][Next]_vars

(* httpx bounds every wait and asyncio every sleep, so a call that can     *)
(* take a step does; nothing is assumed of the platform or the network.    *)
FairSpec == Spec /\ \A c \in Calls : WF_vars(ClientStep(c))

-----------------------------------------------------------------------------
(* Properties.                                                             *)

\* Every variable has its type; in particular no delay, whatever a
\* Retry-After header says, makes the time slept negative (asyncio.sleep).
TypeOK ==
    /\ phase \in [Calls -> {"idle", "ready", "waiting", "backoff", "done"}]
    /\ attempt \in [Calls -> Nat]
    /\ slept \in [Calls -> Nat]
    /\ inbox \in [Calls -> Response \cup {NoReply}]
    /\ outcome \in [Calls -> Outcome]
    /\ wire \subseteq Request
    /\ applied \in [Calls -> SUBSET Nat]

Refused(c) == outcome[c].kind = "error" /\ Refusal(outcome[c].status)

OnWire(c) == {n \in 0..attempt[c] : Req(c, n) \in wire}

\* What _request hands back is about the request it was the answer to, not
\* about an earlier attempt: a JSON body means that the last attempt has taken
\* effect, a refusal that it has not and never will.
TruthfulOutcome ==
    \A c \in Calls : phase[c] = "done" =>
        /\ outcome[c].kind = "data" => attempt[c] \in applied[c]
        /\ Refused(c) => attempt[c] \notin applied[c] \cup OnWire(c)

\* However late requests land, a call changes the platform at most once more
\* than its retries argument allows, which for retries=0, the setting meant for
\* calls that are not idempotent, is once (api_client.py, the comment in post).
EffectsWithinBudget ==
    \A c \in Calls : \A n \in applied[c] \cup {r.attempt : r \in {q \in wire : q.call = c}} :
        n <= (IF RetriesArg[c] = Default THEN 3 ELSE RetriesArg[c])

\* No Retry-After header, however large, keeps a tool waiting for more than
\* 20 seconds per retry (_MAX_BACKOFF_SECONDS).
SleepBudget ==
    \A c \in Calls : phase[c] = "done" => slept[c] <= 20 * attempt[c]

\* A call reports a network error or a status that is worth a retry only when
\* it has used up all its retries.
NoEarlySurrender ==
    \A c \in Calls :
        outcome[c].kind = "error" /\ outcome[c].status \in {0, 429, 500, 502, 503, 504}
            => attempt[c] = (IF RetriesArg[c] = Default THEN 3 ELSE RetriesArg[c])

\* A call answered by the platform itself at the first try leaves nothing
\* behind that could change the platform after the tool has returned.  (After
\* a retry there may be: an earlier attempt that was given up is never recalled.)
CleanFirstAnswer ==
    \A c \in Calls :
        phase[c] = "done" /\ attempt[c] = 0 /\ outcome[c].status \notin {0, 502, 503, 504}
            => \A r \in wire : r.call # c

\* Every call a tool makes returns or raises.
EveryCallReturns ==
    \A c \in Calls : phase[c] = "ready" ~> phase[c] = "done"

\* A response whose status is an error comes out of _request as an AgentError,
\* so that the tool answers with an error envelope.
ErrorStatusIsError ==
    \A c \in Calls : outcome[c].status >= 400 => outcome[c].kind = "error"

-----------------------------------------------------------------------------
(* The inductive invariant behind the safety properties.                   *)

InRange(c, n) == n <= attempt[c] /\ (phase[c] \in {"idle", "ready"} => n < attempt[c])

(* How often call c has gone to sleep.                                     *)
Sleeps(c) == IF phase[c] = "backoff" THEN attempt[c] + 1 ELSE attempt[c]

\* The retries are counted, and each has cost at most one capped sleep.
Budgets ==
    \A c \in Calls :
        /\ attempt[c] <= MaxRetries(c)
        /\ phase[c] = "backoff" => attempt[c] < MaxRetries(c)
        /\ slept[c] <= 20 * Sleeps(c)

\* A request on the wire has been sent and has not taken effect yet.
WireSound ==
    \A r \in wire : InRange(r.call, r.attempt) /\ r.attempt \notin applied[r.call]

AppliedSound == \A c \in Calls : \A n \in applied[c] : InRange(c, n)

\* What a status received for the current attempt says about that attempt.
Settles(c, status) ==
    /\ status \notin {0, 502, 503, 504} => Req(c, attempt[c]) \notin wire
    /\ Refusal(status) => attempt[c] \notin applied[c]

InboxSound ==
    \A c \in Calls : HasReply(c) =>
        /\ Settles(c, inbox[c].status)
        /\ inbox[c].content = "data" /\ inbox[c].status < 300 => attempt[c] \in applied[c]

OutcomeSound ==
    \A c \in Calls :
        IF phase[c] = "done"
        THEN /\ Settles(c, outcome[c].status)
             /\ outcome[c].kind = "data" => attempt[c] \in applied[c]
             /\ outcome[c].kind = "error" /\ outcome[c].status \in RetryableStatus \cup {0}
                    => attempt[c] = MaxRetries(c)
        ELSE outcome[c] = Unset

IInv == TypeOK /\ Budgets /\ WireSound /\ AppliedSound /\ InboxSound /\ OutcomeSound

-----------------------------------------------------------------------------
(* The promise of RemoteCall and how this module keeps it.                 *)

Told(out) ==
    CASE out.kind = "data" -> "good"
      [] out.kind = "none" -> "blank"
      [] out.kind \in {"text", "failure"} -> "declined"
      [] out.kind = "error" /\ out.status = 0 -> "unreachable"
      [] out.kind = "error" /\ out.status = 429 -> "throttled"
      [] out.kind = "error" /\ Refusal(out.status) /\ out.status # 429 -> "refused"
      [] OTHER -> "failed"

AnswerOf(c) ==
    IF phase[c] = "idle" THEN "unasked"
    ELSE IF phase[c] = "done" THEN Told(outcome[c])
    ELSE "open"

IssuedBy(c) == IF phase[c] \in {"idle", "ready"} THEN attempt[c] ELSE attempt[c] + 1

Promise == INSTANCE RemoteCall WITH
               Limit   <- [c \in Calls |-> MaxRetries(c) + 1],
               answer  <- [c \in Calls |-> AnswerOf(c)],
               issued  <- [c \in Calls |-> IssuedBy(c)],
               pending <- wire,
               effects <- applied

\* The retry loop implements the promise the tools rely on: bounded issues,
\* one answer, and answers that are true of the last issue.
PromiseKept == Promise!RemoteSpec
=============================================================================
