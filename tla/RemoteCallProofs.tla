-------------------------- MODULE RemoteCallProofs --------------------------
(***************************************************************************)
(* What holds of the calls of AgentClient at all times, for the models of  *)
(* the tools to build on: a request in flight or applied was issued, never *)
(* both, and the answer is still true of the last one.                     *)
(***************************************************************************)
EXTENDS RemoteCall, TLAPS

PendingSound == \A r \in pending : r.attempt < issued[r.call] /\ r.attempt \notin effects[r.call]

EffectsSound == \A c \in Calls : \A n \in effects[c] : n < issued[c]

IssuedSound ==
    \A c \in Calls :
        /\ issued[c] <= Limit[c]
        /\ answer[c] = "unasked" => issued[c] = 0
        /\ Answered(c) => issued[c] > 0

AnswerSound == \A c \in Calls : Answered(c) => Truthful(c, answer[c])

RemoteInv == RemoteTypeOK /\ PendingSound /\ EffectsSound /\ IssuedSound /\ AnswerSound

-----------------------------------------------------------------------------
LEMMA RemoteStart == RemoteInit => RemoteInv
  BY LimitAssumption, SMT DEF RemoteInit, RemoteInv, RemoteTypeOK, PendingSound, EffectsSound,
     IssuedSound, AnswerSound, Answered, Answers, Errors

LEMMA AskKeeps ==
    ASSUME RemoteInv, NEW c \in Calls, Ask(c)
    PROVE  RemoteInv'
  BY LimitAssumption, SMT DEF Ask, RemoteInv, RemoteTypeOK, PendingSound, EffectsSound,
     IssuedSound, AnswerSound, Answered, Answers, Errors, Truthful, Last, Req

LEMMA IssueKeeps ==
    ASSUME RemoteInv, NEW c \in Calls, Issue(c)
    PROVE  RemoteInv'
  <1> USE DEF RemoteInv
  <1>0. issued[c] \in Nat /\ Limit[c] \in Nat
    BY LimitAssumption DEF RemoteTypeOK
  <1>1. Req(c, issued[c]) \in Request
    BY <1>0 DEF Request, Req
  <1>2. RemoteTypeOK'
    BY <1>0, <1>1 DEF Issue, RemoteTypeOK
  <1>3. PendingSound'
    BY <1>0, <1>1, SMT DEF Issue, PendingSound, EffectsSound, RemoteTypeOK, Req, Request
  <1>4. EffectsSound'
    BY <1>0, SMT DEF Issue, EffectsSound, RemoteTypeOK
  <1>5. IssuedSound'
    BY <1>0, SMT DEF Issue, IssuedSound, RemoteTypeOK, Answered, Answers, Errors
  <1>6. AnswerSound'
    <2> SUFFICES ASSUME NEW d \in Calls, Answered(d)'
                 PROVE  Truthful(d, answer[d])'
      BY DEF AnswerSound
    <2>1. d # c /\ answer'[d] = answer[d] /\ issued'[d] = issued[d] /\ effects' = effects
      BY SMT DEF Issue, Answered, Answers, Errors, RemoteTypeOK
    <2>2. Truthful(d, answer[d])
      BY <2>1 DEF AnswerSound, Answered
    <2>3. Req(d, Last(d)) \in pending' => Req(d, Last(d)) \in pending
      BY <2>1, SMT DEF Issue, Req
    <2>4. QED
      BY <2>1, <2>2, <2>3, SMT DEF Truthful, Last, Req
  <1>7. QED
    BY <1>2, <1>3, <1>4, <1>5, <1>6

(* A skipped try moves the count and nothing else.                         *)
LEMMA SkipKeeps ==
    ASSUME RemoteInv, NEW c \in Calls, Skip(c)
    PROVE  RemoteInv'
  <1> USE DEF RemoteInv
  <1>0. issued[c] \in Nat /\ Limit[c] \in Nat
    BY LimitAssumption DEF RemoteTypeOK
  <1>1. RemoteTypeOK'
    BY <1>0 DEF Skip, RemoteTypeOK
  <1>2. PendingSound' /\ EffectsSound'
    BY <1>0 DEF Skip, PendingSound, EffectsSound, RemoteTypeOK, Request
  <1>3. IssuedSound'
    BY <1>0, SMT DEF Skip, IssuedSound, RemoteTypeOK, Answered, Answers, Errors
  <1>4. AnswerSound'
    <2> SUFFICES ASSUME NEW d \in Calls, Answered(d)'
                 PROVE  Truthful(d, answer[d])'
      BY DEF AnswerSound
    <2>1. d # c /\ answer'[d] = answer[d] /\ issued'[d] = issued[d] /\ effects' = effects /\ pending' = pending
      BY SMT DEF Skip, Answered, Answers, Errors, RemoteTypeOK
    <2>2. QED
      BY <2>1, SMT DEF Truthful, Last, AnswerSound, Answered
  <1>5. QED
    BY <1>1, <1>2, <1>3, <1>4

LEMMA GiveUpKeeps ==
    ASSUME RemoteInv, NEW c \in Calls, GiveUp(c)
    PROVE  RemoteInv'
  <1> USE DEF RemoteInv
  <1>0. issued[c] \in Nat /\ Limit[c] \in Nat
    BY LimitAssumption DEF RemoteTypeOK
  <1>1. RemoteTypeOK'
    BY <1>0 DEF GiveUp, RemoteTypeOK, Answers, Errors
  <1>2. PendingSound' /\ EffectsSound'
    BY <1>0 DEF GiveUp, PendingSound, EffectsSound, RemoteTypeOK, Request
  <1>3. IssuedSound'
    BY <1>0, SMT DEF GiveUp, IssuedSound, RemoteTypeOK, Answered, Answers, Errors
  <1>4. AnswerSound'
    <2> SUFFICES ASSUME NEW d \in Calls, Answered(d)'
                 PROVE  Truthful(d, answer[d])'
      BY DEF AnswerSound
    <2>1. CASE d = c
      BY <2>1 DEF GiveUp, Truthful, RemoteTypeOK
    <2>2. CASE d # c
      <3>1. answer'[d] = answer[d] /\ issued'[d] = issued[d] /\ effects' = effects /\ pending' = pending
        BY <2>2, SMT DEF GiveUp, RemoteTypeOK
      <3>2. QED
        BY <3>1, SMT DEF Truthful, Last, AnswerSound, Answered
    <2>3. QED
      BY <2>1, <2>2
  <1>5. QED
    BY <1>1, <1>2, <1>3, <1>4

LEMMA ReturnKeeps ==
    ASSUME RemoteInv, NEW c \in Calls, NEW a \in Answers, Return(c, a)
    PROVE  RemoteInv'
  BY LimitAssumption, SMT DEF Return, RemoteInv, RemoteTypeOK, PendingSound, EffectsSound,
     IssuedSound, AnswerSound, Answered, Answers, Errors, Truthful, Last, Req, Request

(* The landed request was pending, so its call was not refused.            *)
LEMMA LandKeeps ==
    ASSUME RemoteInv, NEW r \in pending, Land(r)
    PROVE  RemoteInv'
  <1> USE DEF RemoteInv
  <1>0. r \in Request /\ r.call \in Calls /\ r.attempt \in Nat
    BY DEF RemoteTypeOK, Request
  <1>1. RemoteTypeOK'
    BY <1>0 DEF Land, RemoteTypeOK
  <1>2. PendingSound'
    <2> SUFFICES ASSUME NEW q \in pending'
                 PROVE  q.attempt < issued'[q.call] /\ q.attempt \notin effects'[q.call]
      BY DEF PendingSound
    <2>1. q \in pending /\ q # r /\ q \in Request
      BY DEF Land, RemoteTypeOK
    <2>2. ~(q.call = r.call /\ q.attempt = r.attempt)
      BY <1>0, <2>1 DEF Request
    <2>3. QED
      BY <1>0, <2>1, <2>2, SMT DEF Land, PendingSound, RemoteTypeOK, Request
  <1>3. EffectsSound'
    BY <1>0, SMT DEF Land, EffectsSound, PendingSound, RemoteTypeOK
  <1>4. IssuedSound'
    BY DEF Land, IssuedSound, Answered
  <1>5. AnswerSound'
    <2> SUFFICES ASSUME NEW d \in Calls, Answered(d)'
                 PROVE  Truthful(d, answer[d])'
      BY DEF AnswerSound
    <2>1. Truthful(d, answer[d]) /\ answer' = answer /\ issued' = issued
      BY DEF Land, AnswerSound, Answered
    <2>2. d = r.call /\ r.attempt = Last(d) => r = Req(d, Last(d))
      BY <1>0, SMT DEF Request, Req
    <2>3. QED
      BY <1>0, <2>1, <2>2, SMT DEF Land, Truthful, Last, Req, RemoteTypeOK
  <1>6. QED
    BY <1>1, <1>2, <1>3, <1>4, <1>5

LEMMA LoseKeeps ==
    ASSUME RemoteInv, NEW r \in pending, Lose(r)
    PROVE  RemoteInv'
  BY LimitAssumption, SMT DEF Lose, RemoteInv, RemoteTypeOK, PendingSound, EffectsSound,
     IssuedSound, AnswerSound, Answered, Answers, Errors, Truthful, Last, Req, Request

LEMMA RemoteStep == RemoteInv /\ [RemoteNext]_remoteVars => RemoteInv'
  <1> SUFFICES ASSUME RemoteInv, [RemoteNext]_remoteVars
               PROVE  RemoteInv'
    OBVIOUS
  <1>1. CASE UNCHANGED remoteVars
    BY <1>1 DEF remoteVars, RemoteInv, RemoteTypeOK, PendingSound, EffectsSound, IssuedSound,
       AnswerSound, Answered, Truthful, Last
  <1>2. CASE RemoteNext
    BY <1>2, AskKeeps, IssueKeeps, SkipKeeps, GiveUpKeeps, ReturnKeeps, LandKeeps, LoseKeeps
       DEF RemoteNext
  <1>3. QED
    BY <1>1, <1>2

\* Whatever the network does, what is in flight or applied was issued, within
\* the limit, and an answer stays true after it was given: a request that comes
\* late never makes a refusal of the last one a lie (_request, _handle).
THEOREM RemoteInductive == RemoteSpec => []RemoteInv
  BY RemoteStart, RemoteStep, PTL DEF RemoteSpec

-----------------------------------------------------------------------------
(* A call answered at its first issue leaves nothing on the wire.          *)
Quiet(c) == answer[c] = "good" /\ issued[c] = 1

LEMMA QuietSettled ==
    ASSUME RemoteInv, NEW c \in Calls, Quiet(c)
    PROVE  effects[c] = {0} /\ \A r \in pending : r.call # c
  <1>1. Last(c) = 0 /\ Truthful(c, "good")
    BY SMT DEF RemoteInv, AnswerSound, Quiet, Answered, Answers, Errors, Last
  <1>2. 0 \in effects[c] /\ effects[c] \subseteq Nat /\ \A n \in effects[c] : n < 1
    BY <1>1 DEF Truthful, RemoteInv, EffectsSound, RemoteTypeOK, Quiet
  <1>3. \A r \in pending : r.call = c => r.attempt = 0 /\ r.attempt \notin effects[c]
    BY SMT DEF RemoteInv, PendingSound, RemoteTypeOK, Request, Quiet
  <1>4. QED
    BY <1>2, <1>3, SMT

LEMMA QuietStays ==
    ASSUME RemoteInv, [RemoteNext]_remoteVars, NEW c \in Calls, Quiet(c)
    PROVE  Quiet(c)'
  BY SMT DEF RemoteInv, RemoteTypeOK, RemoteNext, remoteVars, Ask, Issue, Skip, Land, Lose, Return,
     GiveUp, Quiet

(* An answer, once given, is final, and so is the number of issues.        *)
LEMMA AnswerFinal ==
    ASSUME RemoteInv, [RemoteNext]_remoteVars, NEW c \in Calls, Answered(c)
    PROVE  answer'[c] = answer[c] /\ issued'[c] = issued[c]
  BY SMT DEF RemoteInv, RemoteTypeOK, RemoteNext, remoteVars, Ask, Issue, Skip, Land, Lose, Return,
     GiveUp, Answered, Answers, Errors

(* The client at work changes no answer but that of an open call.          *)
LEMMA WorkAnswers ==
    ASSUME RemoteInv, NEW c \in Calls,
           Issue(c) \/ Skip(c) \/ GiveUp(c) \/ \E a \in Answers : Return(c, a)
    PROVE  /\ \A d \in Calls : answer'[d] = answer[d] \/ (answer[d] = "open" /\ Answered(d)')
           /\ effects' = effects
  BY SMT DEF RemoteInv, RemoteTypeOK, Issue, Skip, GiveUp, Return, Answered, Answers, Errors

(* Before it is asked for, nothing of a call is under way.                 *)
LEMMA UnaskedNothing ==
    ASSUME RemoteInv, NEW c \in Calls, answer[c] = "unasked"
    PROVE  effects[c] = {} /\ \A r \in pending : r.call # c
  BY SMT DEF RemoteInv, RemoteTypeOK, IssuedSound, EffectsSound, PendingSound, Request

(* A request in flight is of a call that was asked for, and lands once.    *)
LEMMA LandingFacts ==
    ASSUME RemoteInv, NEW r \in pending, Land(r)
    PROVE  /\ r.call \in Calls /\ r.attempt \in Nat
           /\ answer[r.call] # "unasked"
           /\ r.attempt \notin effects[r.call]
           /\ effects' = [effects EXCEPT ![r.call] = @ \cup {r.attempt}]
           /\ answer' = answer
  BY UnaskedNothing DEF RemoteInv, RemoteTypeOK, PendingSound, Request, Land

=============================================================================
