--------------------------- MODULE SopChatProofs ----------------------------
(***************************************************************************)
(* A turn runs the agent at most once, and a caller that trusts retryable  *)
(* runs it again only after a 5xx, for any number of turns.                *)
(*                                                                         *)
(* EndTurn of SopChat chooses what a good run is read as.  AssistantReply  *)
(* is what makes that choice in the code: the second part shows that it    *)
(* chooses rightly, for any output a run may have, and never outside what  *)
(* SopChat allows for.                                                     *)
(***************************************************************************)
EXTENDS SopChat, AssistantReply, RemoteCallProofs

(* What the step and the reply of a turn say about its two calls.          *)
TurnSound ==
    \A t \in Turns :
        /\ step[t] = "idle" => answer[SopOf(t)] = "unasked"
        /\ step[t] \in {"idle", "looking"} => answer[RunOf(t)] = "unasked"
        /\ step[t] # "over" => reply[t] = "none"
        /\ reply[t] = "again" => answer[RunOf(t)] \in {"unasked", "throttled", "failed"}
        /\ reply[t] \in {"interrupted", "completed"} => answer[RunOf(t)] = "good"
        /\ reply[t] = "no_reply" => answer[RunOf(t)] \in {"good", "declined", "blank"}

(* A turn is begun only when all before it have invited to send again.     *)
ChainSound ==
    \A t, u \in Turns : t < u /\ step[u] # "idle" => step[t] = "over" /\ reply[t] = "again"

IInv == TypeOK /\ RemoteInv /\ TurnSound /\ ChainSound

-----------------------------------------------------------------------------
LEMMA CallFacts ==
    /\ \A t \in Turns : RunOf(t) \in Calls /\ SopOf(t) \in Calls
    /\ \A t, u \in Turns : RunOf(t) # SopOf(u)
    /\ \A t, u \in Turns : (RunOf(t) = RunOf(u) \/ SopOf(t) = SopOf(u)) => t = u
    /\ \A c \in Calls : c.of \in Turns
  BY ChatCallsAssumption, SMT DEF RunOf, SopOf

LEMMA RunOnce == \A t \in Turns : Limit[RunOf(t)] = 1
  BY ChatCallsAssumption, SMT DEF ChatRetries

LEMMA TurnNumbers == Turns \subseteq Nat /\ \A t \in Turns : t > 1 => t - 1 \in Turns
  BY MaxTurnsAssumption, SMT DEF Turns

LEMMA StepIsRemote == Next => [RemoteNext]_remoteVars
  BY CallFacts DEF Next, Begin, TurnStep, LookupFails, NoAgent, StartRun, EndTurn, Calling, Conclude,
     SopRead, AgentRuns, Lost, Provision, RemoteNext

LEMMA Start == Init => IInv
  <1> SUFFICES ASSUME Init PROVE IInv
    OBVIOUS
  <1>1. RemoteInv
    BY RemoteStart DEF Init
  <1>2. TypeOK
    BY <1>1 DEF Init, TypeOK, RemoteInv, Replies, Statuses
  <1>3. TurnSound /\ ChainSound
    BY CallFacts DEF Init, RemoteInit, TurnSound, ChainSound
  <1>4. QED
    BY <1>1, <1>2, <1>3 DEF IInv

-----------------------------------------------------------------------------
LEMMA BeginKeeps ==
    ASSUME IInv, NEW t \in Turns, Begin(t)
    PROVE  TypeOK' /\ TurnSound' /\ ChainSound'
  <1> USE DEF IInv
  <1>1. RemoteTypeOK'
    BY CallFacts, RemoteStep DEF Begin, RemoteNext, RemoteInv
  <1>2. TypeOK'
    BY <1>1 DEF TypeOK, Begin
  <1>3. \A u \in Turns : answer'[RunOf(u)] = answer[RunOf(u)]
                         /\ (u # t => answer'[SopOf(u)] = answer[SopOf(u)])
    BY CallFacts DEF Begin, Ask, RemoteInv, RemoteTypeOK
  <1>4. TurnSound'
    BY <1>3 DEF TurnSound, TypeOK, Begin
  <1>5. ChainSound'
    <2> SUFFICES ASSUME NEW v \in Turns, NEW u \in Turns, v < u, step'[u] # "idle"
                 PROVE  step'[v] = "over" /\ reply'[v] = "again"
      BY DEF ChainSound
    <2>1. step[v] = "over" /\ reply[v] = "again"
      <3>1. CASE u # t
        BY <3>1 DEF Begin, TypeOK, ChainSound
      <3>2. CASE u = t
        <4>1. t > 1 /\ step[t - 1] = "over" /\ reply[t - 1] = "again" /\ t - 1 \in Turns
          BY <3>2, TurnNumbers, SMT DEF Begin, MaySend, Over, Turns
        <4>2. v = t - 1 \/ v < t - 1
          BY <3>2, TurnNumbers, SMT
        <4>3. QED
          BY <4>1, <4>2 DEF ChainSound
      <3>3. QED
        BY <3>1, <3>2
    <2>2. v # t
      BY <2>1 DEF Begin
    <2>3. QED
      BY <2>1, <2>2 DEF Begin, TypeOK
  <1>6. QED
    BY <1>2, <1>4, <1>5

(* The turn is over, with a reply that its run bears out.                  *)
LEMMA AnswerKeeps ==
    ASSUME IInv, NEW t \in Turns, NEW r \in Replies, Answer(t, r), UNCHANGED remoteVars,
           step[t] \in {"looking", "running"},
           r = "again" => answer[RunOf(t)] \in {"unasked", "throttled", "failed"},
           r \in {"interrupted", "completed"} => answer[RunOf(t)] = "good",
           r = "no_reply" => answer[RunOf(t)] \in {"good", "declined", "blank"}
    PROVE  TypeOK' /\ TurnSound' /\ ChainSound'
  <1> USE DEF IInv, Answer, remoteVars
  <1>1. TypeOK'
    BY DEF TypeOK, RemoteTypeOK
  <1>2. TurnSound'
    BY DEF TurnSound, TypeOK
  <1>3. ChainSound'
    BY DEF ChainSound, TypeOK
  <1>4. QED
    BY <1>1, <1>2, <1>3

LEMMA TurnStepKeeps ==
    ASSUME IInv, NEW t \in Turns, TurnStep(t)
    PROVE  TypeOK' /\ TurnSound' /\ ChainSound'
  <1> USE DEF IInv
  <1>1. CASE LookupFails(t)
    <2>1. answer[RunOf(t)] = "unasked" /\ step[t] = "looking"
      BY <1>1 DEF LookupFails, LookedUp, TurnSound
    <2>2. PICK r \in {"again", "not_found"} : Answer(t, r)
      BY <1>1 DEF LookupFails
    <2>3. QED
      BY <1>1, <2>1, <2>2, AnswerKeeps DEF LookupFails, Replies
  <1>2. CASE NoAgent(t)
    BY <1>2, AnswerKeeps DEF NoAgent, LookedUp, Replies
  <1>3. CASE StartRun(t)
    <2>1. RemoteTypeOK'
      BY <1>3, CallFacts, RemoteStep DEF StartRun, RemoteNext, RemoteInv
    <2>2. TypeOK'
      BY <1>3, <2>1 DEF TypeOK, StartRun
    <2>3. \A u \in Turns : answer'[SopOf(u)] = answer[SopOf(u)]
                           /\ (u # t => answer'[RunOf(u)] = answer[RunOf(u)])
      BY <1>3, CallFacts DEF StartRun, Ask, RemoteInv, RemoteTypeOK
    <2>4. TurnSound'
      BY <1>3, <2>3 DEF TurnSound, TypeOK, StartRun, LookedUp
    <2>5. ChainSound'
      BY <1>3 DEF ChainSound, TypeOK, StartRun, LookedUp
    <2>6. QED
      BY <2>2, <2>4, <2>5
  <1>4. CASE EndTurn(t)
    <2>1. PICK r \in RunReplies(answer[RunOf(t)]) : Answer(t, r)
      BY <1>4 DEF EndTurn
    <2>2. answer[RunOf(t)] \in Answers
      BY <1>4 DEF EndTurn, Answered
    <2>3. /\ r \in Replies
          /\ r = "again" => answer[RunOf(t)] \in {"throttled", "failed"}
          /\ r \in {"interrupted", "completed"} => answer[RunOf(t)] = "good"
          /\ r = "no_reply" => answer[RunOf(t)] \in {"good", "declined", "blank"}
      BY <2>1, <2>2 DEF RunReplies, OutputReplies, ErrorReply, RetryableError, Replies, Statuses,
         Answers, Errors
    <2>4. QED
      BY <1>4, <2>1, <2>3, AnswerKeeps DEF EndTurn
  <1>5. QED
    BY <1>1, <1>2, <1>3, <1>4 DEF TurnStep

(* Neither the client nor the network touches what the turns remember.     *)
LEMMA WorkKeeps ==
    ASSUME IInv, RemoteTypeOK', UNCHANGED <<step, reply, hasAgent>>,
           sawAgent' \in [Turns -> BOOLEAN],
           \A d \in Calls : answer'[d] = answer[d] \/ (answer[d] = "open" /\ Answered(d)')
    PROVE  TypeOK' /\ TurnSound' /\ ChainSound'
  <1> USE DEF IInv
  <1>1. TypeOK'
    BY DEF TypeOK
  <1>2. \A t \in Turns :
            /\ answer'[RunOf(t)] = answer[RunOf(t)] \/ answer[RunOf(t)] = "open"
            /\ answer'[SopOf(t)] = answer[SopOf(t)] \/ answer[SopOf(t)] = "open"
    BY CallFacts
  <1>3. TurnSound'
    BY <1>2 DEF TurnSound
  <1>4. QED
    BY <1>1, <1>3 DEF ChainSound

LEMMA NextKeeps ==
    ASSUME IInv, [Next]_vars
    PROVE  IInv'
  <1> USE DEF IInv
  <1>1. RemoteInv'
    BY StepIsRemote, RemoteStep DEF vars, remoteVars
  <1>2. RemoteTypeOK'
    BY <1>1 DEF RemoteInv
  <1>3. TypeOK' /\ TurnSound' /\ ChainSound'
    <2>1. CASE UNCHANGED vars
      BY <2>1 DEF vars, remoteVars, chatVars, TypeOK, RemoteTypeOK, TurnSound, ChainSound
    <2>2. CASE \E t \in Turns : Begin(t) \/ TurnStep(t)
      BY <2>2, BeginKeeps, TurnStepKeeps
    <2>3. ASSUME NEW c \in Calls, Calling(c)
          PROVE  TypeOK' /\ TurnSound' /\ ChainSound'
      <3>1. \A d \in Calls : answer'[d] = answer[d] \/ (answer[d] = "open" /\ Answered(d)')
        BY <2>3, WorkAnswers DEF Calling, Conclude
      <3>2. sawAgent' \in [Turns -> BOOLEAN]
        BY <2>3 DEF Calling, chatVars, TypeOK
      <3>3. QED
        BY <1>2, <2>3, <3>1, <3>2, WorkKeeps DEF Calling, chatVars
    <2>4. ASSUME NEW r \in pending, SopRead(r) \/ AgentRuns(r) \/ Lost(r)
          PROVE  TypeOK' /\ TurnSound' /\ ChainSound'
      <3>1. answer' = answer
        BY <2>4 DEF SopRead, AgentRuns, Lost, Land, Lose
      <3>2. sawAgent' \in [Turns -> BOOLEAN]
        BY <2>4 DEF SopRead, AgentRuns, Lost, chatVars, TypeOK
      <3>3. QED
        BY <1>2, <2>4, <3>1, <3>2, WorkKeeps DEF SopRead, AgentRuns, Lost, chatVars
    <2>5. CASE Provision
      BY <1>2, <2>5 DEF Provision, remoteVars, TypeOK, TurnSound, ChainSound
    <2>6. QED
      BY <2>1, <2>2, <2>3, <2>4, <2>5 DEF Next
  <1>4. QED
    BY <1>1, <1>3

\* The inductive invariant of the turns.
THEOREM Inductive == Spec => []IInv
  BY Start, NextKeeps, PTL DEF Spec

\* Every turn and every call is well typed.
THEOREM TypeCorrect == Spec => []TypeOK
  BY Inductive, PTL DEF IInv

-----------------------------------------------------------------------------
(* The one request a turn's run is issued with.                            *)
LEMMA RunsAreFirst ==
    ASSUME IInv, NEW t \in Turns
    PROVE  /\ Runs(t) \subseteq {0}
           /\ Runs(t) # {} => answer[RunOf(t)] \notin {"unasked", "refused", "throttled"}
  <1> USE DEF IInv, RemoteInv
  <1>0. RunOf(t) \in Calls /\ issued[RunOf(t)] \in Nat /\ issued[RunOf(t)] <= 1
    BY CallFacts, RunOnce DEF IssuedSound, RemoteTypeOK
  <1>1. \A n \in Runs(t) : n \in Nat /\ n < issued[RunOf(t)]
    BY <1>0 DEF Runs, PendingSound, EffectsSound, RemoteTypeOK, Request
  <1>2. Runs(t) \subseteq {0}
    BY <1>0, <1>1, SMT
  <1>3. Runs(t) # {} => issued[RunOf(t)] = 1
    BY <1>0, <1>1, SMT
  <1>4. answer[RunOf(t)] = "unasked" => Runs(t) = {}
    BY <1>0, <1>3 DEF IssuedSound
  <1>5. answer[RunOf(t)] \in {"refused", "throttled"} => Runs(t) = {}
    <2> SUFFICES ASSUME answer[RunOf(t)] \in {"refused", "throttled"}, Runs(t) # {}
                 PROVE  FALSE
      OBVIOUS
    <2>1. 0 \notin effects[RunOf(t)] /\ Req(RunOf(t), 0) \notin pending
      BY <1>0, <1>3 DEF AnswerSound, Answered, Answers, Errors, Truthful, Last
    <2>2. \A q \in pending : q.call = RunOf(t) => q.attempt # 0
      BY <2>1 DEF RemoteTypeOK, Request, Req
    <2>3. 0 \notin Runs(t)
      BY <2>1, <2>2 DEF Runs
    <2>4. QED
      BY <1>2, <2>3
  <1>6. QED
    BY <1>2, <1>4, <1>5

\* However its request and its answer get lost, a turn runs the agent once.
THEOREM OneRun == Spec => []OneRunPerTurn
  <1>1. IInv => OneRunPerTurn
    BY RunsAreFirst DEF OneRunPerTurn
  <1>2. QED
    BY <1>1, Inductive, PTL

\* Any number of turns on one message: a second run only after a 5xx.
THEOREM SecondRun == Spec => []SecondRunExplained
  <1>1. IInv => SecondRunExplained
    <2> SUFFICES ASSUME IInv, NEW t \in Turns, NEW u \in Turns, t < u, Runs(t) # {}, Runs(u) # {}
                 PROVE  answer[RunOf(t)] = "failed"
      BY DEF SecondRunExplained
    <2>1. answer[RunOf(u)] # "unasked" /\ answer[RunOf(t)] \notin {"unasked", "throttled"}
      BY RunsAreFirst
    <2>2. step[u] # "idle"
      BY <2>1 DEF IInv, TurnSound
    <2>3. reply[t] = "again"
      BY <2>2 DEF IInv, ChainSound
    <2>4. QED
      BY <2>1, <2>3 DEF IInv, TurnSound
  <1>2. QED
    BY <1>1, Inductive, PTL

\* "completed" and "interrupted" are said of runs that took place, and so is
\* "no_reply" unless the answer to the run carried no output.
THEOREM StatusTrue == Spec => []StatusMeansRan
  <1>1. IInv => StatusMeansRan
    <2> SUFFICES ASSUME IInv, NEW t \in Turns
                 PROVE  /\ reply[t] \in {"interrupted", "completed"} => effects[RunOf(t)] # {}
                        /\ reply[t] = "no_reply" =>
                              effects[RunOf(t)] # {} \/ answer[RunOf(t)] \in {"blank", "declined"}
      BY DEF StatusMeansRan
    <2>1. answer[RunOf(t)] = "good" => effects[RunOf(t)] # {}
      BY CallFacts DEF IInv, RemoteInv, AnswerSound, Answered, Answers, Truthful
    <2>2. QED
      BY <2>1 DEF IInv, TurnSound
  <1>2. QED
    BY <1>1, Inductive, PTL

-----------------------------------------------------------------------------
(* The reading of one output.                                              *)

(* The scan has passed over nothing the assistant is shown to have said.   *)
ReadingLoop ==
    /\ scanning = "start" => status = "none"
    /\ scanning = "scan" =>
        /\ ~output.error
        /\ paused = PausedActions(output)
        /\ \A i \in Spoken : i <= at
    /\ scanning = "told" =>
        /\ status \in OutputReplies
        /\ ReplyIsLastSpoken
        /\ StatusTells

ReadingInv == ReadingTypeOK /\ ReadingLoop

-----------------------------------------------------------------------------
LEMMA ReadingTyped ==
    ASSUME output \in Outputs
    PROVE  /\ Len(output.messages) \in Nat
           /\ \A i \in 1..Len(output.messages) :
                 Visible(output.messages[i]) <=> i \in Spoken
           /\ PausedActions(output) \subseteq Nat
           /\ PausedActions(output) # {} <=> Waiting
  <1>1. /\ output.messages \in Seq(Message)
        /\ output.interrupts \in Seq(Seq({"dict", "other"}))
    BY OutputsAssumption DEF Output
  <1>2. Len(output.messages) \in Nat
    BY <1>1
  <1>3. ASSUME NEW i \in 1..Len(output.messages)
        PROVE  Visible(output.messages[i]) <=> i \in Spoken
    <2>1. output.messages[i] \in Message
      BY <1>1, <1>3
    <2>2. output.messages[i].from \in {"type_ai", "role_assistant", "other", "nobody"}
          /\ output.messages[i].hidden \in BOOLEAN
      BY <2>1 DEF Message
    <2>3. QED
      BY <1>3, <2>2 DEF Visible, HasText, Spoken
  <1>4. output.interrupts # <<>> => output.interrupts[1] \in Seq({"dict", "other"})
    BY <1>1
  <1>5. PausedActions(output) \subseteq Nat
    BY <1>4 DEF PausedActions
  <1>6. PausedActions(output) # {} <=> Waiting
    BY DEF PausedActions, Waiting
  <1>7. QED
    BY <1>2, <1>3, <1>5, <1>6

LEMMA ReadingStart ==
    ASSUME ReadingInit
    PROVE  ReadingInv
  <1>1. Len(output.messages) \in Nat
    BY ReadingTyped DEF ReadingInit
  <1>2. QED
    BY <1>1 DEF ReadingInit, ReadingInv, ReadingTypeOK, ReadingLoop

LEMMA ReadingKeeps ==
    ASSUME ReadingInv, [ReadingNext]_readingVars
    PROVE  ReadingInv'
  <1> USE DEF ReadingInv
  <1>0. /\ output \in Outputs /\ output' = output
        /\ Spoken' = Spoken /\ Waiting' = Waiting
        /\ Spoken \subseteq 1..Len(output.messages)
    BY DEF ReadingTypeOK, ReadingNext, readingVars, ReportError, ReadPause,
       PassOver, Tell, Told, Spoken, Waiting
  <1>1. CASE ReportError
    BY <1>0, <1>1 DEF ReportError, ReadingTypeOK, ReadingLoop, ReplyIsLastSpoken,
       StatusTells, OutputReplies
  <1>2. CASE ReadPause
    <2>1. at' = Len(output.messages) /\ Len(output.messages) \in Nat
      BY <1>0, <1>2, ReadingTyped DEF ReadPause, LastIndex
    <2>2. ReadingTypeOK'
      BY <1>0, <1>2, <2>1, ReadingTyped DEF ReadPause, ReadingTypeOK
    <2>3. ReadingLoop'
      BY <1>0, <1>2, <2>1 DEF ReadPause, ReadingLoop
    <2>4. QED
      BY <2>2, <2>3
  <1>3. CASE PassOver
    <2>1. at \in 1..Len(output.messages) /\ Len(output.messages) \in Nat
      BY <1>0, <1>3, ReadingTyped DEF PassOver, ReadingTypeOK
    <2>2. at \notin Spoken
      BY <1>0, <1>3, <2>1, ReadingTyped DEF PassOver
    <2>3. ReadingTypeOK'
      BY <1>3, <2>1 DEF PassOver, ReadingTypeOK
    <2>4. ReadingLoop'
      BY <1>0, <1>3, <2>1, <2>2 DEF PassOver, ReadingLoop
    <2>5. QED
      BY <2>3, <2>4
  <1>4. CASE Tell
    <2>1. /\ scanning' = "told" /\ chosen' = at /\ status' = StatusOf(paused, at)
          /\ ~output.error /\ at \in 0..Len(output.messages) /\ Len(output.messages) \in Nat
          /\ \A i \in Spoken : i <= at
          /\ paused # {} <=> Waiting
      BY <1>0, <1>4, ReadingTyped DEF Tell, ReadingTypeOK, ReadingLoop
    <2>2. at # 0 => at \in Spoken
      BY <1>0, <1>4, <2>1, ReadingTyped DEF Tell
    <2>3. at = 0 => Spoken = {}
      BY <1>0, <2>1
    <2>4. status' \in Statuses
      BY <2>1 DEF StatusOf, Statuses
    <2>5. ReadingTypeOK'
      BY <1>4, <2>1, <2>4 DEF Tell, ReadingTypeOK, Statuses
    <2>6. ReplyIsLastSpoken'
      BY <1>0, <2>1, <2>2, <2>3 DEF ReplyIsLastSpoken
    <2>7. StatusTells'
      BY <1>0, <2>1, <2>2, <2>3 DEF StatusTells, StatusOf
    <2>8. QED
      BY <2>1, <2>4, <2>5, <2>6, <2>7 DEF ReadingLoop, OutputReplies
  <1>5. CASE UNCHANGED readingVars
    BY <1>0, <1>5 DEF readingVars, ReadingTypeOK, ReadingLoop, ReplyIsLastSpoken,
       StatusTells
  <1>6. QED
    BY <1>1, <1>2, <1>3, <1>4, <1>5 DEF ReadingNext, Told

\* The inductive invariant of the reading.
THEOREM ReadingInductive == ReadingSpec => []ReadingInv
  BY ReadingStart, ReadingKeeps, PTL DEF ReadingSpec

\* The scan stays inside the list, however long it is.
THEOREM ReadingTypeCorrect == ReadingSpec => []ReadingTypeOK
  BY ReadingInductive, PTL DEF ReadingInv

\* The reply is the last thing the assistant is shown to have said, in any
\* list of messages.
THEOREM ReplyIsLast == ReadingSpec => []ReplyIsLastSpoken
  <1>1. ReadingInv => ReplyIsLastSpoken
    BY DEF ReadingInv, ReadingLoop, ReplyIsLastSpoken
  <1>2. QED
    BY <1>1, ReadingInductive, PTL

\* The status says which it is: a failure, a pause, a reply or none.
THEOREM StatusRight == ReadingSpec => []StatusTells
  <1>1. ReadingInv => StatusTells
    <2>1. CASE scanning = "told"
      BY <2>1 DEF ReadingInv, ReadingLoop
    <2>2. CASE scanning # "told"
      BY <2>2 DEF StatusTells
    <2>3. QED
      BY <2>1, <2>2
  <1>2. QED
    BY <1>1, ReadingInductive, PTL

\* Whatever the output, it is read as something EndTurn may choose of a good
\* run: the turn SopChat makes in one step is the whole of the reading.
THEOREM ReadingIsAChoice == ReadingSpec => [](scanning = "told" => status \in RunReplies("good"))
  <1>1. ReadingInv => (scanning = "told" => status \in RunReplies("good"))
    BY DEF ReadingInv, ReadingLoop, RunReplies
  <1>2. QED
    BY <1>1, ReadingInductive, PTL
=============================================================================
