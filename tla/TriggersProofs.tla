--------------------------- MODULE TriggersProofs ---------------------------
(***************************************************************************)
(* What the trigger tools create can fire, is created twice only by a      *)
(* retry, and a not_found has its reason, for any number of calls.         *)
(***************************************************************************)
EXTENDS Triggers, RemoteCallProofs, FiniteSetTheorems

(* Nothing was asked for that the argument checks turn away.               *)
ArgsSound == \A c \in Calls : answer[c] # "unasked" => ~Rejected(args[c])

(* An agent was run once for every arrival of a create that says so.       *)
RunsSound ==
    \A c \in Calls :
        /\ IsFiniteSet(effects[c])
        /\ runs[c] = IF Creates(args[c]) /\ "run" \in args[c].given THEN Cardinality(effects[c]) ELSE 0

(* The trigger went with a DELETE that arrived.                            *)
DeletedSound ==
    deletedBy # Nobody =>
        deletedBy \in Calls /\ args[deletedBy].tool = "delete" /\ effects[deletedBy] # {}

RefusedSound == \A c \in Calls : answer[c] = "refused" => deletedBy # Nobody

ToolTypeOK ==
    /\ args \in [Calls -> TriggerArguments]
    /\ reply \in [Calls -> {"none", "rejected", "envelope", "result"}]
    /\ deletedBy \in Calls \cup {Nobody}
    /\ runs \in [Calls -> Nat]

ToolInv == ToolTypeOK /\ ArgsSound /\ RunsSound /\ DeletedSound /\ RefusedSound

IInv == RemoteInv /\ ToolInv

-----------------------------------------------------------------------------
LEMMA StepIsRemote == Next => [RemoteNext]_remoteVars
  BY DEF Next, Reject, Submit, Report, Calling, Conclude, Arrives, Lost, AllReported, RemoteNext,
     vars

LEMMA Start == Init => IInv
  <1> SUFFICES ASSUME Init PROVE IInv
    OBVIOUS
  <1>1. RemoteInv
    BY RemoteStart DEF Init
  <1>2. NoArguments \in TriggerArguments
    BY DEF NoArguments, TriggerArguments, Types, Fields
  <1>3. ToolTypeOK /\ ArgsSound /\ DeletedSound /\ RefusedSound
    BY <1>2 DEF Init, RemoteInit, ToolTypeOK, ArgsSound, DeletedSound, RefusedSound
  <1>4. RunsSound
    BY FS_EmptySet DEF Init, RemoteInit, RunsSound, Creates, NoArguments
  <1>5. QED
    BY <1>1, <1>3, <1>4 DEF IInv, ToolInv

(* The arguments of a call are set before anything of it is under way.     *)
LEMMA BeginKeeps ==
    ASSUME IInv, NEW c \in Calls, NEW a \in Arguments, Reject(c, a) \/ Submit(c, a)
    PROVE  ToolInv'
  <1> USE DEF IInv, ToolInv
  <1>0. answer[c] = "unasked" /\ effects[c] = {} /\ effects' = effects
    BY UnaskedNothing DEF Reject, Submit, Fresh, Ask, remoteVars
  <1>1. args' = [args EXCEPT ![c] = a] /\ UNCHANGED platformVars
    BY DEF Reject, Submit
  <1>2. ToolTypeOK'
    BY <1>1, TriggerAssumption DEF ToolTypeOK, Reject, Submit, platformVars
  <1>3. ArgsSound'
    <2>1. \A d \in Calls : d # c => answer'[d] = answer[d] /\ args'[d] = args[d]
      BY <1>1 DEF Reject, Submit, Ask, remoteVars, RemoteInv, RemoteTypeOK, ToolTypeOK
    <2>2. answer'[c] # "unasked" => ~Rejected(a) /\ args'[c] = a
      BY <1>0, <1>1 DEF Reject, Submit, remoteVars, ToolTypeOK
    <2>3. QED
      BY <2>1, <2>2 DEF ArgsSound
  <1>4. RunsSound'
    <2>1. runs[c] = 0
      BY <1>0, FS_EmptySet DEF RunsSound
    <2>2. \A d \in Calls : d # c => args'[d] = args[d]
      BY <1>1 DEF ToolTypeOK
    <2>3. QED
      BY <1>0, <1>1, <2>1, <2>2, FS_EmptySet DEF RunsSound, platformVars
  <1>5. DeletedSound'
    BY <1>0, <1>1 DEF DeletedSound, platformVars, ToolTypeOK
  <1>6. RefusedSound'
    BY <1>0, <1>1 DEF RefusedSound, platformVars, Reject, Submit, Ask, remoteVars, RemoteInv, RemoteTypeOK
  <1>7. QED
    BY <1>2, <1>3, <1>4, <1>5, <1>6

LEMMA ReportKeeps ==
    ASSUME IInv, NEW c \in Calls, Report(c)
    PROVE  ToolInv'
  BY DEF Report, remoteVars, platformVars, IInv, ToolInv, ToolTypeOK, ArgsSound, RunsSound,
     DeletedSound, RefusedSound

(* A refusal is given only when the trigger is gone.                       *)
LEMMA CallingKeeps ==
    ASSUME IInv, NEW c \in Calls, Calling(c)
    PROVE  ToolInv'
  <1> USE DEF IInv, ToolInv
  <1>1. /\ \A d \in Calls : answer'[d] = answer[d] \/ (answer[d] = "open" /\ Answered(d)')
        /\ effects' = effects
    BY WorkAnswers DEF Calling, Conclude
  <1>2. UNCHANGED <<args, reply, deletedBy, runs>>
    BY DEF Calling, toolVars, platformVars
  <1>3. \A d \in Calls : answer'[d] = "refused" => answer[d] = "refused" \/ deletedBy # Nobody
    BY SMT DEF Calling, Conclude, Issue, Skip, GiveUp, Return, NotFound, Exists, RemoteInv, RemoteTypeOK
  <1>4. QED
    BY <1>1, <1>2, <1>3 DEF ToolTypeOK, ArgsSound, RunsSound, DeletedSound, RefusedSound

LEMMA ArrivesKeeps ==
    ASSUME IInv, NEW r \in pending, Arrives(r)
    PROVE  ToolInv'
  <1> USE DEF IInv, ToolInv
  <1> DEFINE c == r.call
  <1>0. /\ c \in Calls /\ r.attempt \in Nat /\ r.attempt \notin effects[c]
        /\ effects' = [effects EXCEPT ![c] = @ \cup {r.attempt}] /\ answer' = answer
    BY LandingFacts DEF Arrives
  <1>1. UNCHANGED <<args, reply>>
    BY DEF Arrives, toolVars
  <1>2. deletedBy' = IF args[c].tool = "delete" THEN c ELSE deletedBy
    BY DEF Arrives
  <1>3. runs' = IF Creates(args[c]) /\ "run" \in args[c].given THEN [runs EXCEPT ![c] = @ + 1] ELSE runs
    BY DEF Arrives
  <1>4. effects \in [Calls -> SUBSET Nat]
    BY DEF RemoteInv, RemoteTypeOK
  <1> HIDE DEF c
  <1>5. ToolTypeOK'
    BY <1>0, <1>1, <1>2, <1>3 DEF ToolTypeOK
  <1>6. ArgsSound'
    BY <1>0, <1>1 DEF ArgsSound
  <1>7. RunsSound'
    <2>1. /\ IsFiniteSet(effects[c])
          /\ IsFiniteSet(effects[c] \cup {r.attempt})
          /\ Cardinality(effects[c] \cup {r.attempt}) = Cardinality(effects[c]) + 1
      BY <1>0, FS_AddElement DEF RunsSound
    <2>2. effects'[c] = effects[c] \cup {r.attempt} /\ \A d \in Calls : d # c => effects'[d] = effects[d]
      BY <1>0, <1>4
    <2>3. \A d \in Calls : d # c => runs'[d] = runs[d]
      BY <1>3 DEF ToolTypeOK
    <2>4. runs'[c] = IF Creates(args[c]) /\ "run" \in args[c].given THEN runs[c] + 1 ELSE runs[c]
      BY <1>0, <1>3 DEF ToolTypeOK
    <2>5. QED
      BY <1>0, <1>1, <2>1, <2>2, <2>3, <2>4 DEF RunsSound
  <1>8. DeletedSound'
    BY <1>0, <1>1, <1>2, <1>4 DEF DeletedSound
  <1>9. RefusedSound'
    BY <1>0, <1>2, NobodyAssumption DEF RefusedSound
  <1>10. QED
    BY <1>5, <1>6, <1>7, <1>8, <1>9

LEMMA NextKeeps == IInv /\ [Next]_vars => IInv'
  <1> SUFFICES ASSUME IInv, [Next]_vars
               PROVE  IInv'
    OBVIOUS
  <1>1. RemoteInv'
    BY StepIsRemote, RemoteStep DEF vars, remoteVars, IInv
  <1>2. ToolInv'
    <2>1. CASE UNCHANGED vars
      BY <2>1 DEF vars, remoteVars, toolVars, platformVars, IInv, ToolInv, ToolTypeOK, ArgsSound,
         RunsSound, DeletedSound, RefusedSound
    <2>2. ASSUME NEW r \in pending, Lost(r)
          PROVE  ToolInv'
      BY <2>2 DEF Lost, Lose, toolVars, platformVars, IInv, ToolInv, ToolTypeOK, ArgsSound,
         RunsSound, DeletedSound, RefusedSound
    <2>3. QED
      BY <2>1, <2>2, BeginKeeps, ReportKeeps, CallingKeeps, ArrivesKeeps DEF Next, AllReported
  <1>3. QED
    BY <1>1, <1>2 DEF IInv

\* The inductive invariant of the trigger tools.
THEOREM Inductive == Spec => []IInv
  BY Start, NextKeeps, PTL DEF Spec

-----------------------------------------------------------------------------
LEMMA IntervalSize ==
    ASSUME NEW n \in Nat
    PROVE  IsFiniteSet(0..(n - 1)) /\ Cardinality(0..(n - 1)) = n
  <1>1. 0 \in Int /\ n - 1 \in Int
    OBVIOUS
  <1>2. /\ IsFiniteSet(0..(n - 1))
        /\ Cardinality(0..(n - 1)) = IF 0 > n - 1 THEN 0 ELSE n - 1 - 0 + 1
    BY <1>1, FS_Interval
  <1>3. QED
    BY <1>2, SMT

\* Types, and no agent run more often than requests were issued.
THEOREM TypeCorrect == Spec => []TypeOK
  <1>1. IInv => TypeOK
    <2> SUFFICES ASSUME IInv, NEW c \in Calls
                 PROVE  runs[c] \in 0..issued[c]
      BY DEF IInv, ToolInv, TypeOK, ToolTypeOK, RemoteInv
    <2> USE DEF IInv, ToolInv, RemoteInv
    <2>1. issued[c] \in Nat /\ runs[c] \in Nat
      BY DEF RemoteTypeOK, ToolTypeOK
    <2>2. effects[c] \subseteq 0..(issued[c] - 1)
      <3>1. effects[c] \subseteq Nat /\ \A n \in effects[c] : n < issued[c]
        BY DEF EffectsSound, RemoteTypeOK
      <3>2. QED
        BY <2>1, <3>1, SMT
    <2>3. IsFiniteSet(0..(issued[c] - 1)) /\ Cardinality(0..(issued[c] - 1)) = issued[c]
      BY <2>1, IntervalSize
    <2>4. Cardinality(effects[c]) <= issued[c]
      BY <2>2, <2>3, FS_Subset
    <2>5. QED
      BY <2>1, <2>4, SMT DEF RunsSound
  <1>2. QED
    BY <1>1, Inductive, PTL

\* Nothing that cannot fire is ever created, for any arguments.
THEOREM CanFire == Spec => []CreatedCanFire
  <1>1. IInv => CreatedCanFire
    <2> SUFFICES ASSUME IInv, NEW c \in Calls, Created(c) # {}
                 PROVE  /\ "agentId" \in args[c].given
                        /\ \/ args[c].type = "recurring" /\ "schedule" \in args[c].given
                           \/ args[c].type = "event" /\ "trigger" \in args[c].given
                           \/ args[c].type = "manual"
      BY DEF CreatedCanFire
    <2>1. Creates(args[c])
      BY DEF Created
    <2>2. answer[c] # "unasked"
      BY <2>1, UnaskedNothing DEF IInv, Created
    <2>3. ~Rejected(args[c])
      BY <2>2 DEF IInv, ToolInv, ArgsSound
    <2>4. QED
      BY <2>1, <2>3 DEF Rejected, Creates, Incomplete, Types
  <1>2. QED
    BY <1>1, Inductive, PTL

\* A create answered at its first issue has created exactly one trigger.
THEOREM CreatedOnce == Spec => []CreatedOnceAtFirstIssue
  <1>1. IInv => CreatedOnceAtFirstIssue
    <2> SUFFICES ASSUME IInv, NEW c \in Calls, Creates(args[c]), answer[c] = "good", issued[c] = 1
                 PROVE  Created(c) = {0} /\ runs[c] = IF "run" \in args[c].given THEN 1 ELSE 0
      BY DEF CreatedOnceAtFirstIssue
    <2>1. effects[c] = {0} /\ \A r \in pending : r.call # c
      BY QuietSettled DEF IInv, Quiet
    <2>2. Created(c) = {0}
      BY <2>1 DEF Created
    <2>3. Cardinality({0}) = 1
      BY FS_Singleton
    <2>4. QED
      BY <2>1, <2>2, <2>3 DEF IInv, ToolInv, RunsSound
  <1>2. QED
    BY <1>1, Inductive, PTL

\* A not_found is of another's delete or of a delete's own retry.
THEOREM NotFoundHasReason == Spec => []NotFoundExplained
  <1>1. IInv => NotFoundExplained
    <2> SUFFICES ASSUME IInv, NEW c \in Calls, answer[c] = "refused"
                 PROVE  /\ deletedBy # Nobody
                        /\ deletedBy = c => args[c].tool = "delete" /\ issued[c] > 1
      BY DEF NotFoundExplained
    <2> USE DEF IInv, ToolInv, RemoteInv
    <2>1. deletedBy # Nobody
      BY DEF RefusedSound
    <2>2. Last(c) \notin effects[c] /\ issued[c] \in Nat /\ issued[c] > 0
      BY DEF AnswerSound, IssuedSound, Answered, Answers, Errors, Truthful, RemoteTypeOK
    <2>3. ASSUME NEW n \in effects[c]
          PROVE  issued[c] > 1
      BY <2>2, SMT DEF EffectsSound, RemoteTypeOK, Last
    <2>4. QED
      BY <2>1, <2>3 DEF DeletedSound
  <1>2. QED
    BY <1>1, Inductive, PTL

-----------------------------------------------------------------------------
\* How many triggers a create may leave behind, now and whatever arrives later:
\* never more than it issued requests, whatever was lost, late or told to the
\* tool, and at least one when it was told that it succeeded.
CreatedBound ==
    \A c \in Calls :
        /\ IsFiniteSet(Created(c))
        /\ Cardinality(Created(c)) <= issued[c]
        /\ issued[c] <= Limit[c]
        /\ Creates(args[c]) /\ answer[c] = "good" => Cardinality(Created(c)) > 0

LEMMA CreatedRange ==
    ASSUME IInv, NEW c \in Calls
    PROVE  Created(c) \subseteq 0..(issued[c] - 1)
  <1> USE DEF IInv, RemoteInv
  <1>1. issued[c] \in Nat
    BY DEF RemoteTypeOK
  <1>2. \A n \in effects[c] : n \in Nat /\ n < issued[c]
    BY DEF EffectsSound, RemoteTypeOK
  <1>3. \A r \in pending : r.call = c => r.attempt \in Nat /\ r.attempt < issued[c]
    BY DEF PendingSound, RemoteTypeOK, Request
  <1>4. QED
    BY <1>1, <1>2, <1>3, SMT DEF Created

\* A create leaves at most Limit[c] triggers behind and, told good, at least one.
THEOREM CreatedBounded == Spec => []CreatedBound
  <1>1. IInv => CreatedBound
    <2> SUFFICES ASSUME IInv, NEW c \in Calls
                 PROVE  /\ IsFiniteSet(Created(c))
                        /\ Cardinality(Created(c)) <= issued[c]
                        /\ issued[c] <= Limit[c]
                        /\ Creates(args[c]) /\ answer[c] = "good" => Cardinality(Created(c)) > 0
      BY DEF CreatedBound
    <2> USE DEF IInv, RemoteInv
    <2>1. issued[c] \in Nat
      BY DEF RemoteTypeOK
    <2>2. IsFiniteSet(0..(issued[c] - 1)) /\ Cardinality(0..(issued[c] - 1)) = issued[c]
      BY <2>1, IntervalSize
    <2>3. IsFiniteSet(Created(c)) /\ Cardinality(Created(c)) <= issued[c]
      BY <2>2, CreatedRange, FS_Subset
    <2>4. issued[c] <= Limit[c]
      BY DEF IssuedSound, RemoteTypeOK
    <2>5. ASSUME Creates(args[c]), answer[c] = "good"
          PROVE  Cardinality(Created(c)) > 0
      <3>1. Created(c) # {}
        BY <2>5 DEF AnswerSound, Answered, Answers, Truthful, Created
      <3>2. QED
        BY <2>3, <3>1, FS_EmptySet, FS_CardinalityType
    <2>6. QED
      BY <2>3, <2>4, <2>5
  <1>2. QED
    BY <1>1, Inductive, PTL
=============================================================================
