-------------------------- MODULE ApiClientProofs ---------------------------
(***************************************************************************)
(* Proofs about the retry loop, for any number of calls, any retries       *)
(* arguments and any set of responses.                                     *)
(***************************************************************************)
EXTENDS ApiClient, TLAPS

USE RetriesAssumption, ResponsesAssumption DEF Response, Contents

-----------------------------------------------------------------------------
(* The operators of the loop.                                              *)

LEMMA MaxRetriesType == ASSUME NEW c \in Calls PROVE MaxRetries(c) \in Nat
BY DEF MaxRetries

LEMMA BackoffType == ASSUME NEW n \in Nat PROVE Backoff(n) \in 1..20
<1>1. CASE n > 4
  BY <1>1 DEF Backoff, MaxBackoff
<1>2. CASE n \in 0..4
  <2>1. n = 0 \/ n = 1 \/ n = 2 \/ n = 3 \/ n = 4
    BY <1>2
  <2>2. QED
    BY <2>1 DEF Backoff, MaxBackoff, Smaller
<1>3. QED
  BY <1>1, <1>2

LEMMA RetryDelayBound ==
    ASSUME NEW resp \in Response, NEW n \in Nat
    PROVE  SleepTime(RetryDelay(resp, n)) \in 0..20
<1>1. CASE resp.hinted
  BY <1>1 DEF RetryDelay, Smaller, MaxBackoff, SleepTime
<1>2. CASE ~resp.hinted
  BY <1>2, BackoffType DEF RetryDelay, SleepTime
<1>3. QED
  BY <1>1, <1>2

LEMMA HandleType == ASSUME NEW resp \in Response PROVE Handle(resp) \in Outcome
BY DEF Handle, Outcome, AgentError

LEMMA NoReplyIsNoResponse == NoReply \notin Response
BY DEF NoReply

-----------------------------------------------------------------------------
(* Type correctness.                                                       *)

LEMMA SleepType ==
    ASSUME TypeOK, NEW c \in Calls, NEW delay \in Int, Sleep(c, delay)
    PROVE  TypeOK'
BY DEF TypeOK, Sleep, SleepTime

LEMMA FinishType ==
    ASSUME TypeOK, NEW c \in Calls, NEW out \in Outcome, Finish(c, out)
    PROVE  TypeOK'
BY DEF TypeOK, Finish

LEMMA ReplyType ==
    ASSUME TypeOK, NEW c \in Calls, HasReply(c)
    PROVE  inbox[c] \in Response
BY DEF TypeOK, HasReply

LEMMA TypeStep == TypeOK /\ [Next]_vars => TypeOK'
<1> SUFFICES ASSUME TypeOK, [Next]_vars PROVE TypeOK'
  OBVIOUS
<1>1. ASSUME NEW c \in Calls, Invoke(c) PROVE TypeOK'
  BY <1>1 DEF TypeOK, Invoke
<1>2. ASSUME NEW c \in Calls, Send(c) PROVE TypeOK'
  BY <1>2 DEF TypeOK, Send, Request, Req
<1>3. ASSUME NEW c \in Calls, RetryAfterError(c) PROVE TypeOK'
  <2>1. attempt[c] \in Nat /\ Backoff(attempt[c]) \in Int
    BY BackoffType DEF TypeOK
  <2>2. QED
    BY <1>3, <2>1, SleepType DEF RetryAfterError
<1>4. ASSUME NEW c \in Calls, GiveUp(c) PROVE TypeOK'
  <2>1. AgentError(0) \in Outcome
    BY DEF AgentError, Outcome
  <2>2. QED
    BY <1>4, <2>1, FinishType DEF GiveUp
<1>5. ASSUME NEW c \in Calls, RetryAfterStatus(c) PROVE TypeOK'
  <2>1. inbox[c] \in Response
    BY <1>5, ReplyType DEF RetryAfterStatus
  <2>2. RetryDelay(inbox[c], attempt[c]) \in Int
    BY <2>1, BackoffType DEF TypeOK, RetryDelay, Smaller, MaxBackoff
  <2>3. QED
    BY <1>5, <2>2, SleepType DEF RetryAfterStatus
<1>6. ASSUME NEW c \in Calls, Return(c) PROVE TypeOK'
  BY <1>6, ReplyType, HandleType, FinishType DEF Return
<1>7. ASSUME NEW c \in Calls, Wake(c) PROVE TypeOK'
  BY <1>7 DEF TypeOK, Wake
<1>8. ASSUME NEW r \in wire, NEW resp \in Responses, NEW lands \in BOOLEAN, Process(r, resp, lands)
      PROVE  TypeOK'
  BY <1>8 DEF TypeOK, Process, Deliver, Request
<1>9. ASSUME NEW r \in wire, NEW resp \in Responses, ProxyAnswer(r, resp) PROVE TypeOK'
  BY <1>9 DEF TypeOK, ProxyAnswer, Deliver, Request
<1>10. ASSUME NEW r \in wire, Lose(r) PROVE TypeOK'
  BY <1>10 DEF TypeOK, Lose
<1>11. CASE UNCHANGED vars
  BY <1>11 DEF TypeOK, vars
<1>12. QED
  BY <1>1, <1>2, <1>3, <1>4, <1>5, <1>6, <1>7, <1>8, <1>9, <1>10, <1>11
     DEF Next, ClientStep, Finished

\* Every behaviour of the loop is well typed; in particular the time slept
\* never shrinks below zero, whatever the Retry-After headers say.
THEOREM TypeCorrect == Spec => []TypeOK
<1>1. Init => TypeOK
  BY DEF Init, TypeOK, Outcome, Unset
<1>2. QED
  BY <1>1, TypeStep, PTL DEF Spec

-----------------------------------------------------------------------------
(* The inductive invariant, one lemma per step of a call, of the platform  *)
(* and of the network.                                                     *)

LEMMA InitIInv == Init => IInv
<1> SUFFICES ASSUME Init PROVE IInv
  OBVIOUS
<1>1. TypeOK
  BY DEF Init, TypeOK, Outcome, Unset
<1>2. Budgets
  <2>1. ASSUME NEW c \in Calls
        PROVE  phase[c] = "idle" /\ attempt[c] = 0 /\ slept[c] = 0 /\ Sleeps(c) = 0
    BY DEF Init, Sleeps
  <2>2. ASSUME NEW c \in Calls PROVE 0 <= MaxRetries(c)
    BY MaxRetriesType
  <2>3. ASSUME NEW c \in Calls
        PROVE  attempt[c] <= MaxRetries(c) /\ phase[c] # "backoff" /\ slept[c] <= 20 * Sleeps(c)
    <3>1. slept[c] <= 20 * Sleeps(c)
      BY <2>1
    <3>2. QED
      BY <2>1, <2>2, <3>1
  <2>4. QED
    BY <2>3 DEF Budgets
<1>3. WireSound /\ AppliedSound /\ InboxSound /\ OutcomeSound
  BY DEF Init, WireSound, AppliedSound, InboxSound, HasReply, OutcomeSound
<1>4. QED
  BY <1>1, <1>2, <1>3 DEF IInv

LEMMA InvokeStep ==
    ASSUME IInv, NEW c \in Calls, Invoke(c)
    PROVE  IInv'
<1>1. TypeOK'
  BY TypeStep DEF IInv, Next, ClientStep
<1>2. Budgets'
  BY MaxRetriesType DEF IInv, TypeOK, Budgets, Sleeps, Invoke
<1>3. WireSound'
  BY DEF IInv, TypeOK, WireSound, InRange, Invoke
<1>4. AppliedSound'
  BY DEF IInv, TypeOK, AppliedSound, InRange, Invoke
<1>5. InboxSound'
  BY DEF IInv, TypeOK, InboxSound, HasReply, Settles, Invoke
<1>6. OutcomeSound'
  BY DEF IInv, TypeOK, OutcomeSound, Settles, Invoke
<1>7. QED
  BY <1>1, <1>2, <1>3, <1>4, <1>5, <1>6 DEF IInv

LEMMA SendStep ==
    ASSUME IInv, NEW c \in Calls, Send(c)
    PROVE  IInv'
<1>1. TypeOK'
  BY TypeStep DEF IInv, Next, ClientStep
<1>2. Budgets'
  BY MaxRetriesType DEF IInv, TypeOK, Budgets, Sleeps, Send
<1>3. WireSound'
  BY DEF IInv, TypeOK, WireSound, InRange, AppliedSound, Req, Request, Send
<1>4. AppliedSound'
  BY DEF IInv, TypeOK, AppliedSound, InRange, Send
<1>5. InboxSound'
  BY DEF IInv, TypeOK, InboxSound, HasReply, Settles, Req, Send
<1>6. OutcomeSound'
  BY DEF IInv, TypeOK, OutcomeSound, Settles, Req, Send
<1>7. QED
  BY <1>1, <1>2, <1>3, <1>4, <1>5, <1>6 DEF IInv

LEMMA RetryAfterErrorStep ==
    ASSUME IInv, NEW c \in Calls, RetryAfterError(c)
    PROVE  IInv'
<1>1. TypeOK'
  BY TypeStep DEF IInv, Next, ClientStep
<1>2. Budgets'
  BY MaxRetriesType, BackoffType
     DEF IInv, TypeOK, Budgets, Sleeps, RetryAfterError, Sleep, SleepTime, Interruptible
<1>3. WireSound'
  BY DEF IInv, TypeOK, WireSound, InRange, RetryAfterError, Sleep
<1>4. AppliedSound'
  BY DEF IInv, TypeOK, AppliedSound, InRange, RetryAfterError, Sleep
<1>5. InboxSound'
  BY DEF IInv, TypeOK, InboxSound, HasReply, Settles, RetryAfterError, Sleep
<1>6. OutcomeSound'
  BY DEF IInv, TypeOK, OutcomeSound, Settles, RetryAfterError, Sleep, Interruptible
<1>7. QED
  BY <1>1, <1>2, <1>3, <1>4, <1>5, <1>6 DEF IInv

LEMMA GiveUpStep ==
    ASSUME IInv, NEW c \in Calls, GiveUp(c)
    PROVE  IInv'
<1>1. TypeOK'
  BY TypeStep DEF IInv, Next, ClientStep
<1>2. Budgets'
  BY MaxRetriesType DEF IInv, TypeOK, Budgets, Sleeps, GiveUp, Finish
<1>3. WireSound'
  BY DEF IInv, TypeOK, WireSound, InRange, GiveUp, Finish
<1>4. AppliedSound'
  BY DEF IInv, TypeOK, AppliedSound, InRange, GiveUp, Finish
<1>5. InboxSound'
  BY DEF IInv, TypeOK, InboxSound, HasReply, Settles, GiveUp, Finish
<1>6. OutcomeSound'
  <2>1. attempt[c] = MaxRetries(c)
    BY MaxRetriesType DEF IInv, TypeOK, Budgets, Sleeps, GiveUp
  <2>2. QED
    BY <2>1 DEF IInv, TypeOK, OutcomeSound, Settles, GiveUp, Finish, AgentError, Refusal, Req
<1>7. QED
  BY <1>1, <1>2, <1>3, <1>4, <1>5, <1>6 DEF IInv

LEMMA RetryAfterStatusStep ==
    ASSUME IInv, NEW c \in Calls, RetryAfterStatus(c)
    PROVE  IInv'
<1>1. TypeOK'
  BY TypeStep DEF IInv, Next, ClientStep
<1>2. Budgets'
  BY MaxRetriesType, RetryDelayBound, ReplyType
     DEF IInv, TypeOK, Budgets, Sleeps, RetryAfterStatus, Sleep, ShouldRetry, HasReply
<1>3. WireSound'
  BY DEF IInv, TypeOK, WireSound, InRange, RetryAfterStatus, Sleep
<1>4. AppliedSound'
  BY DEF IInv, TypeOK, AppliedSound, InRange, RetryAfterStatus, Sleep
<1>5. InboxSound'
  BY DEF IInv, TypeOK, InboxSound, HasReply, Settles, RetryAfterStatus, Sleep
<1>6. OutcomeSound'
  BY DEF IInv, TypeOK, OutcomeSound, Settles, RetryAfterStatus, Sleep, HasReply
<1>7. QED
  BY <1>1, <1>2, <1>3, <1>4, <1>5, <1>6 DEF IInv

LEMMA ReturnStep ==
    ASSUME IInv, NEW c \in Calls, Return(c)
    PROVE  IInv'
<1>1. TypeOK'
  BY TypeStep DEF IInv, Next, ClientStep
<1>2. Budgets'
  BY MaxRetriesType DEF IInv, TypeOK, Budgets, Sleeps, Return, Finish, HasReply
<1>3. WireSound'
  BY DEF IInv, TypeOK, WireSound, InRange, Return, Finish
<1>4. AppliedSound'
  BY DEF IInv, TypeOK, AppliedSound, InRange, Return, Finish
<1>5. InboxSound'
  BY DEF IInv, TypeOK, InboxSound, HasReply, Settles, Return, Finish
<1>6. OutcomeSound'
  <2>1. inbox[c] \in Response /\ HasReply(c) /\ Settles(c, inbox[c].status)
    BY ReplyType DEF IInv, InboxSound, Return
  <2>2. inbox[c].content = "data" /\ inbox[c].status < 300 => attempt[c] \in applied[c]
    BY <2>1 DEF IInv, InboxSound
  <2>3. inbox[c].status \in RetryableStatus => attempt[c] = MaxRetries(c)
    <3>1. attempt[c] \in Nat /\ MaxRetries(c) \in Nat /\ attempt[c] <= MaxRetries(c)
      BY MaxRetriesType DEF IInv, TypeOK, Budgets, Sleeps
    <3>2. inbox[c].status \in RetryableStatus => ~(attempt[c] < MaxRetries(c))
      BY DEF Return, ShouldRetry
    <3>3. QED
      BY <3>1, <3>2
  <2>4. phase' = [phase EXCEPT ![c] = "done"] /\ outcome' = [outcome EXCEPT ![c] = Handle(inbox[c])]
    BY DEF Return, Finish
  <2>5. QED
    BY <2>1, <2>2, <2>3, <2>4
       DEF IInv, TypeOK, OutcomeSound, Settles, Return, Finish, Handle, AgentError, RetryableStatus
<1>7. QED
  BY <1>1, <1>2, <1>3, <1>4, <1>5, <1>6 DEF IInv

LEMMA WakeStep ==
    ASSUME IInv, NEW c \in Calls, Wake(c)
    PROVE  IInv'
<1>1. TypeOK'
  BY TypeStep DEF IInv, Next, ClientStep
<1>2. Budgets'
  BY MaxRetriesType DEF IInv, TypeOK, Budgets, Sleeps, Wake
<1>3. WireSound'
  BY DEF IInv, TypeOK, WireSound, InRange, Request, Wake
<1>4. AppliedSound'
  BY DEF IInv, TypeOK, AppliedSound, InRange, Wake
<1>5. InboxSound'
  BY DEF IInv, TypeOK, InboxSound, HasReply, Settles, Wake
<1>6. OutcomeSound'
  BY DEF IInv, TypeOK, OutcomeSound, Settles, Wake
<1>7. QED
  BY <1>1, <1>2, <1>3, <1>4, <1>5, <1>6 DEF IInv

LEMMA ProcessStep ==
    ASSUME IInv, NEW r \in wire, NEW resp \in Responses, NEW lands \in BOOLEAN, Process(r, resp, lands)
    PROVE  IInv'
<1>1. TypeOK'
  BY TypeStep DEF IInv, Next, ClientStep
<1>2. Budgets'
  BY MaxRetriesType DEF IInv, TypeOK, Budgets, Sleeps, Process
<1>3. WireSound'
  BY DEF IInv, TypeOK, WireSound, InRange, Request, Process, Deliver
<1>4. AppliedSound'
  BY DEF IInv, TypeOK, AppliedSound, InRange, WireSound, Process, Deliver
<1>5. InboxSound'
  BY DEF IInv, TypeOK, InboxSound, HasReply, Settles, WireSound, Request, Req, Listening,
         Honest, Refusal, Process, Deliver
<1>6. OutcomeSound'
  BY DEF IInv, TypeOK, OutcomeSound, Settles, WireSound, Request, Req, Refusal, Process, Deliver
<1>7. QED
  BY <1>1, <1>2, <1>3, <1>4, <1>5, <1>6 DEF IInv

LEMMA ProxyAnswerStep ==
    ASSUME IInv, NEW r \in wire, NEW resp \in Responses, ProxyAnswer(r, resp)
    PROVE  IInv'
<1>1. TypeOK'
  BY TypeStep DEF IInv, Next, ClientStep
<1>2. Budgets'
  BY MaxRetriesType DEF IInv, TypeOK, Budgets, Sleeps, ProxyAnswer
<1>3. WireSound'
  BY DEF IInv, TypeOK, WireSound, InRange, ProxyAnswer, Deliver
<1>4. AppliedSound'
  BY DEF IInv, TypeOK, AppliedSound, InRange, ProxyAnswer, Deliver
<1>5. InboxSound'
  BY DEF IInv, TypeOK, InboxSound, HasReply, Settles, Listening, Refusal, Req, ProxyAnswer,
         Deliver
<1>6. OutcomeSound'
  BY DEF IInv, TypeOK, OutcomeSound, Settles, ProxyAnswer, Deliver
<1>7. QED
  BY <1>1, <1>2, <1>3, <1>4, <1>5, <1>6 DEF IInv

LEMMA LoseStep ==
    ASSUME IInv, NEW r \in wire, Lose(r)
    PROVE  IInv'
<1>1. TypeOK'
  BY TypeStep DEF IInv, Next, ClientStep
<1>2. Budgets'
  BY MaxRetriesType DEF IInv, TypeOK, Budgets, Sleeps, Lose
<1>3. WireSound'
  BY DEF IInv, TypeOK, WireSound, InRange, Request, Lose
<1>4. AppliedSound'
  BY DEF IInv, TypeOK, AppliedSound, InRange, Lose
<1>5. InboxSound'
  BY DEF IInv, TypeOK, InboxSound, HasReply, Settles, Lose
<1>6. OutcomeSound'
  BY DEF IInv, TypeOK, OutcomeSound, Settles, Lose
<1>7. QED
  BY <1>1, <1>2, <1>3, <1>4, <1>5, <1>6 DEF IInv

LEMMA NextIInv ==
    ASSUME IInv, [Next]_vars
    PROVE  IInv'
<1>1. CASE UNCHANGED vars
  BY <1>1 DEF vars, IInv, TypeOK, Budgets, Sleeps, WireSound, AppliedSound, InboxSound,
     OutcomeSound, InRange, HasReply, Settles
<1>2. QED
  BY <1>1, InvokeStep, SendStep, RetryAfterErrorStep, GiveUpStep, RetryAfterStatusStep,
     ReturnStep, WakeStep, ProcessStep, ProxyAnswerStep, LoseStep DEF Next, ClientStep, Finished

\* The inductive invariant of ApiClient holds in every behaviour of the loop: the
\* retries are counted, and what is on the wire, applied, received and reported agree.
THEOREM Inductive == Spec => []IInv
<1>1. IInv /\ [Next]_vars => IInv'
  BY NextIInv
<1>2. QED
  BY InitIInv, <1>1, PTL DEF Spec

-----------------------------------------------------------------------------
(* What the runs check on small instances, for all instances.              *)

\* The answer a tool gets is true of the last attempt: data means done, a
\* refusal means not done and never to be done.
THEOREM Truthful == Spec => []TruthfulOutcome
<1>1. IInv => TruthfulOutcome
  <2> SUFFICES ASSUME IInv, NEW c \in Calls, phase[c] = "done"
               PROVE  /\ outcome[c].kind = "data" => attempt[c] \in applied[c]
                      /\ Refused(c) => attempt[c] \notin applied[c] \cup OnWire(c)
    BY DEF TruthfulOutcome
  <2>1. Settles(c, outcome[c].status) /\ (outcome[c].kind = "data" => attempt[c] \in applied[c])
    BY DEF IInv, OutcomeSound
  <2>2. Refused(c) => attempt[c] \notin applied[c] /\ Req(c, attempt[c]) \notin wire
    BY <2>1 DEF Refused, Refusal, Settles
  <2>3. QED
    BY <2>1, <2>2 DEF OnWire
<1>2. QED
  BY <1>1, Inductive, PTL

\* However late requests land, a call takes effect at most once more than its
\* retries argument says: with retries=0 at most once.
THEOREM WithinBudget == Spec => []EffectsWithinBudget
<1>1. IInv => EffectsWithinBudget
  <2> SUFFICES ASSUME IInv, NEW c \in Calls,
                      NEW n \in applied[c] \cup {r.attempt : r \in {q \in wire : q.call = c}}
               PROVE  n <= MaxRetries(c)
    BY DEF EffectsWithinBudget, MaxRetries
  <2>1. n \in Nat /\ n <= attempt[c]
    BY DEF IInv, TypeOK, Request, AppliedSound, WireSound, InRange
  <2>2. attempt[c] \in Nat /\ MaxRetries(c) \in Nat /\ attempt[c] <= MaxRetries(c)
    BY MaxRetriesType DEF IInv, TypeOK, Budgets
  <2>3. QED
    BY <2>1, <2>2
<1>2. QED
  BY <1>1, Inductive, PTL

\* A call sleeps at most 20 seconds per retry, whatever the platform asks for.
THEOREM SleepBounded == Spec => []SleepBudget
<1>1. IInv => SleepBudget
  BY DEF IInv, Budgets, Sleeps, SleepBudget
<1>2. QED
  BY <1>1, Inductive, PTL

\* A call reports a failure that is worth a retry only after its last retry.
THEOREM RetriesExhausted == Spec => []NoEarlySurrender
<1>1. IInv => NoEarlySurrender
  <2> SUFFICES ASSUME IInv, NEW c \in Calls, outcome[c].kind = "error",
                      outcome[c].status \in {0, 429, 500, 502, 503, 504}
               PROVE  attempt[c] = MaxRetries(c)
    BY DEF NoEarlySurrender, MaxRetries
  <2>1. phase[c] = "done"
    BY DEF IInv, OutcomeSound, Unset
  <2>2. QED
    BY <2>1 DEF IInv, OutcomeSound, RetryableStatus
<1>2. QED
  BY <1>1, Inductive, PTL

\* A call the platform itself answered at the first try leaves no request
\* behind that could still take effect.
THEOREM NothingLeftBehind == Spec => []CleanFirstAnswer
<1>1. IInv => CleanFirstAnswer
  <2> SUFFICES ASSUME IInv, NEW c \in Calls, phase[c] = "done", attempt[c] = 0,
                      outcome[c].status \notin {0, 502, 503, 504},
                      NEW r \in wire, r.call = c
               PROVE  FALSE
    BY DEF CleanFirstAnswer
  <2>1. Req(c, 0) \notin wire
    BY DEF IInv, OutcomeSound, Settles
  <2>2. r \in Request /\ r.attempt <= 0
    BY DEF IInv, TypeOK, WireSound, InRange
  <2>3. r = Req(c, 0)
    BY <2>2 DEF Request, Req
  <2>4. QED
    BY <2>1, <2>3
<1>2. QED
  BY <1>1, Inductive, PTL

-----------------------------------------------------------------------------
(* ApiClient implements RemoteCall.                                        *)

USE DEF Promise!Req, Req

LEMMA InvokeRefines ==
    ASSUME IInv, NEW c \in Calls, Invoke(c)
    PROVE  Promise!Ask(c)
BY DEF IInv, TypeOK, Invoke, Promise!Ask, AnswerOf, IssuedBy

LEMMA SendRefines ==
    ASSUME IInv, NEW c \in Calls, Send(c)
    PROVE  Promise!Issue(c)
<1>1. attempt[c] \in Nat /\ attempt[c] < MaxRetries(c) + 1
  BY MaxRetriesType DEF IInv, TypeOK, Budgets
<1>2. QED
  BY <1>1 DEF IInv, TypeOK, Send, Promise!Issue, AnswerOf, IssuedBy

LEMMA RetryAfterErrorRefines ==
    ASSUME IInv, NEW c \in Calls, RetryAfterError(c)
    PROVE  Promise!Skip(c) \/ UNCHANGED Promise!remoteVars
<1>1. attempt[c] \in Nat /\ attempt[c] < MaxRetries(c) + 1
  BY MaxRetriesType DEF IInv, TypeOK, Budgets
<1>2. CASE phase[c] = "ready"
  BY <1>1, <1>2 DEF IInv, TypeOK, RetryAfterError, Sleep, Promise!Skip, AnswerOf, IssuedBy
<1>3. CASE phase[c] = "waiting"
  BY <1>3 DEF IInv, TypeOK, RetryAfterError, Sleep, Promise!remoteVars, AnswerOf, IssuedBy
<1>4. QED
  BY <1>2, <1>3 DEF RetryAfterError, Interruptible

LEMMA GiveUpRefines ==
    ASSUME IInv, NEW c \in Calls, GiveUp(c)
    PROVE  Promise!GiveUp(c) \/ Promise!Return(c, "unreachable")
<1>1. attempt[c] \in Nat /\ attempt[c] < MaxRetries(c) + 1
  BY MaxRetriesType DEF IInv, TypeOK, Budgets
<1>2. Told(AgentError(0)) = "unreachable"
  BY DEF Told, AgentError, Refusal
<1>3. phase' = [phase EXCEPT ![c] = "done"] /\ outcome' = [outcome EXCEPT ![c] = AgentError(0)]
      /\ UNCHANGED <<attempt, wire, applied>>
  BY DEF GiveUp, Finish
<1>4. [d \in Calls |-> AnswerOf(d)]' = [[d \in Calls |-> AnswerOf(d)] EXCEPT ![c] = "unreachable"]
  BY <1>2, <1>3 DEF IInv, TypeOK, AnswerOf
<1>5. CASE phase[c] = "ready"
  BY <1>1, <1>3, <1>4, <1>5 DEF IInv, TypeOK, Promise!GiveUp, AnswerOf, IssuedBy
<1>6. CASE phase[c] = "waiting"
  BY <1>1, <1>3, <1>4, <1>6 DEF IInv, TypeOK, Promise!Return, Promise!Truthful, AnswerOf, IssuedBy
<1>7. QED
  BY <1>5, <1>6 DEF GiveUp, Interruptible

LEMMA RetryAfterStatusRefines ==
    ASSUME IInv, NEW c \in Calls, RetryAfterStatus(c)
    PROVE  UNCHANGED Promise!remoteVars
BY DEF IInv, TypeOK, RetryAfterStatus, HasReply, Sleep, Promise!remoteVars, AnswerOf, IssuedBy

LEMMA ReturnRefines ==
    ASSUME IInv, NEW c \in Calls, Return(c)
    PROVE  \E a \in Promise!Answers : Promise!Return(c, a)
<1>1. IInv'
  BY ReturnStep
<1> DEFINE a == AnswerOf(c)'
<1>2. phase[c] = "waiting" /\ phase' = [phase EXCEPT ![c] = "done"]
      /\ outcome' = [outcome EXCEPT ![c] = Handle(inbox[c])]
      /\ UNCHANGED <<attempt, wire, applied>>
  BY DEF Return, HasReply, Finish
<1>3. a \in Promise!Answers
  BY <1>2 DEF IInv, TypeOK, AnswerOf, Told, Promise!Answers, Promise!Errors
<1>4. [d \in Calls |-> AnswerOf(d)]' = [[d \in Calls |-> AnswerOf(d)] EXCEPT ![c] = a]
  BY <1>2 DEF IInv, TypeOK, AnswerOf
<1>5. [d \in Calls |-> IssuedBy(d)]' = [d \in Calls |-> IssuedBy(d)] /\ IssuedBy(c) = attempt[c] + 1
  BY <1>2 DEF IInv, TypeOK, IssuedBy
<1>6. AnswerOf(c) = "open" /\ attempt[c] \in Nat
  BY <1>2 DEF AnswerOf, IInv, TypeOK
<1>7. /\ a = "good" => attempt[c] \in applied[c]
      /\ a \in {"refused", "throttled"} => attempt[c] \notin applied[c] /\ Req(c, attempt[c]) \notin wire
  BY <1>1, <1>2 DEF IInv, TypeOK, OutcomeSound, Settles, AnswerOf, Told, Refusal
<1>8. Promise!Return(c, a)
  BY <1>2, <1>4, <1>5, <1>6, <1>7 DEF Promise!Return, Promise!Truthful, Promise!Last
<1>9. QED
  BY <1>3, <1>8

LEMMA WakeRefines ==
    ASSUME IInv, NEW c \in Calls, Wake(c)
    PROVE  UNCHANGED Promise!remoteVars
BY DEF IInv, TypeOK, Wake, Promise!remoteVars, AnswerOf, IssuedBy

LEMMA ProcessRefines ==
    ASSUME IInv, NEW r \in wire, NEW resp \in Responses, NEW lands \in BOOLEAN,
           Process(r, resp, lands)
    PROVE  Promise!Land(r) \/ Promise!Lose(r)
BY DEF Process, Promise!Land, Promise!Lose, AnswerOf, IssuedBy

LEMMA ProxyAnswerRefines ==
    ASSUME IInv, NEW r \in wire, NEW resp \in Responses, ProxyAnswer(r, resp)
    PROVE  UNCHANGED Promise!remoteVars
BY DEF ProxyAnswer, Promise!remoteVars, AnswerOf, IssuedBy

LEMMA LoseRefines ==
    ASSUME IInv, NEW r \in wire, Lose(r)
    PROVE  Promise!Lose(r)
BY DEF Lose, Promise!Lose, AnswerOf, IssuedBy

\* The retry loop implements the abstract promise, for any calls, retries
\* arguments and responses: the tools may be reasoned about over RemoteCall.
THEOREM Implements == Spec => PromiseKept
<1>1. Init => Promise!RemoteInit
  BY DEF Init, Promise!RemoteInit, AnswerOf, IssuedBy
<1>2. ASSUME IInv, [Next]_vars PROVE [Promise!RemoteNext]_(Promise!remoteVars)
  <2>1. ASSUME NEW c \in Calls, Invoke(c) \/ ClientStep(c)
        PROVE  Promise!RemoteNext \/ UNCHANGED Promise!remoteVars
    BY <1>2, <2>1, InvokeRefines, SendRefines, RetryAfterErrorRefines, GiveUpRefines,
       RetryAfterStatusRefines, ReturnRefines, WakeRefines
       DEF ClientStep, Promise!RemoteNext, Promise!Answers, Promise!Errors
  <2>2. ASSUME NEW r \in wire, NEW resp \in Responses, NEW lands \in BOOLEAN,
               Process(r, resp, lands) \/ ProxyAnswer(r, resp)
        PROVE  Promise!RemoteNext \/ UNCHANGED Promise!remoteVars
    BY <1>2, <2>2, ProcessRefines, ProxyAnswerRefines DEF Promise!RemoteNext
  <2>3. ASSUME NEW r \in wire, Lose(r) PROVE Promise!RemoteNext
    BY <1>2, <2>3, LoseRefines DEF Promise!RemoteNext
  <2>4. CASE UNCHANGED vars
    BY <2>4 DEF vars, Promise!remoteVars, AnswerOf, IssuedBy
  <2>5. QED
    BY <1>2, <2>1, <2>2, <2>3, <2>4 DEF Next, Finished
<1>3. QED
  BY <1>1, <1>2, Inductive, PTL DEF Spec, PromiseKept, Promise!RemoteSpec
-----------------------------------------------------------------------------
(* What proofs about RemoteCall say of the loop.  The mapping is that of   *)
(* Promise, now with the theorems.                                         *)
Promised == INSTANCE RemoteCallProofs WITH
                Limit   <- [c \in Calls |-> MaxRetries(c) + 1],
                answer  <- [c \in Calls |-> AnswerOf(c)],
                issued  <- [c \in Calls |-> IssuedBy(c)],
                pending <- wire,
                effects <- applied

LEMMA SamePromise ==
    /\ Promise!RemoteInit => Promised!RemoteInit
    /\ [Promise!RemoteNext]_(Promise!remoteVars) => [Promised!RemoteNext]_(Promised!remoteVars)
<1>1. Promise!RemoteInit => Promised!RemoteInit
  BY DEF Promise!RemoteInit, Promised!RemoteInit
<1>2. Promise!remoteVars' = Promise!remoteVars <=> Promised!remoteVars' = Promised!remoteVars
  BY DEF Promise!remoteVars, Promised!remoteVars
<1>3. Promise!RemoteNext => Promised!RemoteNext
  BY DEF Promise!RemoteNext, Promised!RemoteNext, Promise!Ask, Promised!Ask, Promise!Issue, Promised!Issue,
     Promise!Skip, Promised!Skip, Promise!GiveUp, Promised!GiveUp, Promise!Return, Promised!Return,
     Promise!Land, Promised!Land, Promise!Lose, Promised!Lose, Promise!Answers, Promised!Answers,
     Promise!Errors, Promised!Errors, Promise!Truthful, Promised!Truthful, Promise!Last, Promised!Last,
     Promise!Req, Promised!Req
<1>4. QED
  BY <1>1, <1>2, <1>3

\* What RemoteCall's own invariant says of any client holds of the retry loop as
\* its mapping shows it: what is under way was sent, what took effect was asked
\* for, and an answer agrees with both.  The limit RemoteCall assumes is here
\* the retries argument plus one.
THEOREM PromisedInv == Spec => []Promised!RemoteInv
<1>1. [c \in Calls |-> MaxRetries(c) + 1] \in [Calls -> Nat \ {0}]
  BY MaxRetriesType
<1>2. Promised!RemoteSpec => []Promised!RemoteInv
  BY <1>1, Promised!RemoteInductive
<1>3. QED
  BY <1>2, Implements, SamePromise, PTL DEF PromiseKept, Promise!RemoteSpec, Promised!RemoteSpec

-----------------------------------------------------------------------------
(* How far a call has come.  Fairness of ClientStep takes it on; that it    *)
(* can be taken on only so often needs no fairness.                        *)
Rank(c) ==
    4 * attempt[c] + CASE phase[c] = "idle"    -> 0
                       [] phase[c] = "ready"   -> 1
                       [] phase[c] = "waiting" -> 2
                       [] phase[c] = "backoff" -> 3
                       [] phase[c] = "done"    -> 4

LEMMA RankBound ==
    ASSUME IInv, NEW c \in Calls
    PROVE  Rank(c) \in 0..(4 * (MaxRetries(c) + 1))
<1>1. attempt[c] \in Nat /\ MaxRetries(c) \in Nat /\ attempt[c] <= MaxRetries(c)
  BY MaxRetriesType DEF IInv, TypeOK, Budgets
<1>2. phase[c] \in {"idle", "ready", "waiting", "backoff", "done"}
  BY DEF IInv, TypeOK
<1>3. QED
  BY <1>1, <1>2 DEF Rank

LEMMA OwnStepAdvances ==
    ASSUME IInv, NEW c \in Calls, Invoke(c) \/ ClientStep(c)
    PROVE  /\ Rank(c)' > Rank(c)
           /\ \A d \in Calls \ {c} : Rank(d)' = Rank(d)
<1>1. attempt[c] \in Nat /\ attempt[c]' \in Nat
  BY DEF IInv, TypeOK, Invoke, ClientStep, Send, RetryAfterError, GiveUp, RetryAfterStatus, Return,
     Wake, Sleep, Finish
<1>2. \A d \in Calls \ {c} : attempt[d]' = attempt[d] /\ phase[d]' = phase[d]
  BY DEF IInv, TypeOK, Invoke, ClientStep, Send, RetryAfterError, GiveUp, RetryAfterStatus, Return,
     Wake, Sleep, Finish
<1>3. \A d \in Calls \ {c} : Rank(d)' = Rank(d)
  BY <1>2 DEF Rank
<1>4. CASE Wake(c)
  <2>1. phase[c] = "backoff" /\ phase[c]' = "ready" /\ attempt[c]' = attempt[c] + 1
    BY <1>4 DEF IInv, TypeOK, Wake
  <2>2. Rank(c) = 4 * attempt[c] + 3 /\ Rank(c)' = 4 * (attempt[c] + 1) + 1
    BY <2>1 DEF Rank
  <2>3. Rank(c)' > Rank(c)
    BY <1>1, <2>2
  <2>4. QED
    BY <1>3, <2>3
<1>5. CASE ~Wake(c)
  <2>1. attempt[c]' = attempt[c]
    BY <1>5 DEF IInv, TypeOK, Invoke, ClientStep, Send, RetryAfterError, GiveUp, RetryAfterStatus,
       Return, Sleep, Finish
  <2>2. \/ phase[c] = "idle" /\ phase[c]' = "ready"
        \/ phase[c] = "ready" /\ phase[c]' \in {"waiting", "backoff", "done"}
        \/ phase[c] = "waiting" /\ phase[c]' \in {"backoff", "done"}
    BY <1>5 DEF IInv, TypeOK, Invoke, ClientStep, Send, RetryAfterError, GiveUp, RetryAfterStatus,
       Return, Interruptible, HasReply, Sleep, Finish
  <2>3. Rank(c)' > Rank(c)
    BY <1>1, <2>1, <2>2 DEF Rank
  <2>4. QED
    BY <1>3, <2>3
<1>6. QED
  BY <1>4, <1>5

\* Every step a call takes brings it nearer to its return and no step of the
\* platform, the network or another call throws it back: a call is over after at
\* most 4 * (retries + 1) steps of its own, so under fairness it returns
\* (EveryCallReturns), however the answers and the network errors fall.
StepsBounded ==
    /\ [](\A c \in Calls : Rank(c) \in 0..(4 * (MaxRetries(c) + 1)))
    /\ [][\A c \in Calls : /\ Rank(c)' >= Rank(c)
                           /\ Invoke(c) \/ ClientStep(c) => Rank(c)' > Rank(c)]_vars

\* The measure behind the return of every call, for any retries arguments.
THEOREM Progress == Spec => StepsBounded
<1>1. IInv => \A c \in Calls : Rank(c) \in 0..(4 * (MaxRetries(c) + 1))
  BY RankBound
<1>2. ASSUME IInv, [Next]_vars
      PROVE  [\A c \in Calls : /\ Rank(c)' >= Rank(c)
                               /\ Invoke(c) \/ ClientStep(c) => Rank(c)' > Rank(c)]_vars
  <2>1. IInv'
    BY <1>2, NextIInv
  <2>2. SUFFICES ASSUME NEW c \in Calls
                 PROVE  /\ Rank(c)' >= Rank(c)
                        /\ Invoke(c) \/ ClientStep(c) => Rank(c)' > Rank(c)
    OBVIOUS
  <2>3. CASE Invoke(c) \/ ClientStep(c)
    <3>1. Rank(c)' > Rank(c)
      BY <1>2, <2>3, OwnStepAdvances
    <3>2. Rank(c) \in Int /\ Rank(c)' \in Int
      BY <1>2, <2>1 DEF IInv, TypeOK, Rank
    <3>3. QED
      BY <3>1, <3>2
  <2>4. ASSUME NEW d \in Calls, d # c, Invoke(d) \/ ClientStep(d)
        PROVE  Rank(c)' = Rank(c)
    BY <1>2, <2>4, OwnStepAdvances
  <2>5. ASSUME UNCHANGED <<phase, attempt>>
        PROVE  Rank(c)' = Rank(c)
    BY <2>5 DEF Rank
  <2>6. Rank(c) \in Int
    BY <1>2 DEF IInv, TypeOK, Rank
  <2>7. QED
    BY <1>2, <2>3, <2>4, <2>5, <2>6 DEF Next, Finished, vars, Process, ProxyAnswer, Lose
<1>3. QED
  BY <1>1, <1>2, Inductive, PTL DEF Spec, StepsBounded
=============================================================================
