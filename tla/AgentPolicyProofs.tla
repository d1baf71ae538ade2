------------------------- MODULE AgentPolicyProofs --------------------------
(***************************************************************************)
(* The guard holds where it can, owners are never blocked, and tool calls  *)
(* made one after the other see and keep each other's writes, for any      *)
(* number of tool calls, arguments and retries.                            *)
(***************************************************************************)
EXTENDS AgentPolicy, RemoteCallProofs

ToolTypeOK ==
    /\ step \in [ToolCalls -> {"idle", "reading", "writing", "over"}]
    /\ args \in [ToolCalls -> ToolArguments]
    /\ reply \in [ToolCalls -> {"none", "rejected", "blocked", "shown", "written", "envelope"}]
    /\ record \in [Keys -> ToolCalls \cup {Stored}]
    /\ policyError \in BOOLEAN
    /\ steady \in [ToolCalls -> BOOLEAN]
    /\ earlier \in [ToolCalls -> SUBSET ToolCalls]
    /\ snapshot = [t \in ToolCalls |-> snapshot[t]]
    /\ shown = [t \in ToolCalls |-> shown[t]]

(* What a tool has asked for, and that it ends with no call left open.     *)
StepSound ==
    \A t \in ToolCalls :
        /\ step[t] = "idle" => answer[GetOf(t)] = "unasked" /\ earlier[t] = {}
        /\ step[t] \in {"idle", "reading"} => answer[PutOf(t)] = "unasked"
        /\ step[t] # "reading" => answer[GetOf(t)] # "open"
        /\ step[t] # "writing" => answer[PutOf(t)] # "open"
        /\ step[t] # "over" => reply[t] = "none"

(* Who reads; and who writes what the guard protects has passed it.        *)
GuardSound ==
    \A t \in ToolCalls :
        /\ step[t] = "reading" => args[t].tool \in Getters \/ Guarded(args[t])
        /\ step[t] = "writing" =>
              args[t].tool \in Upserts /\ (Guarded(args[t]) => Answered(GetOf(t)) /\ ~Blocked(t))
        /\ reply[t] = "blocked" => Guarded(args[t])
        /\ answer[PutOf(t)] # "unasked" =>
              args[t].tool \in Upserts /\ (Guarded(args[t]) => Answered(GetOf(t)) /\ ~Blocked(t))

EarlierSound ==
    \A t, u \in ToolCalls : t \in earlier[u] => step[t] = "over" /\ t # u

(* A write that landed has replaced what was there to begin with ...       *)
LandedSound ==
    \A u \in ToolCalls :
        effects[PutOf(u)] # {} =>
            args[u].tool \in Upserts /\ \A k \in Body(args[u]) \cap Keys : record[k] # Stored

(* ... and what an earlier, quiet call had set or erased.                  *)
LaterSound ==
    \A t, u \in ToolCalls :
        t \in earlier[u] /\ Quiet(PutOf(t)) /\ effects[PutOf(u)] # {}
            => \A k \in Body(args[u]) \cap Keys : record[k] # t

(* What the platform answered to a read shows the writes reported before   *)
(* it, and the flag as it is, if it has not changed since.                 *)
SnapshotSound ==
    \A t \in ToolCalls : \A n \in effects[GetOf(t)] :
        /\ n + 1 \in DOMAIN snapshot[t]
        /\ step[t] \in {"reading", "writing"} /\ steady[t] => snapshot[t][n + 1].policyError = policyError
        /\ \A u \in earlier[t] :
               Wrote(u) => \A k \in Body(args[u]) \cap Keys : snapshot[t][n + 1].record[k] # Stored

(* Whoever last set or erased a key could, and its write landed.           *)
Source(v, k) == v # Stored => v \in ToolCalls /\ k \in Replaceable(args[v]) /\ effects[PutOf(v)] # {}

WriterSound == \A k \in Keys : Source(record[k], k)

(* So it is with what a read took along, which is nothing that an earlier  *)
(* write, reported before the read, had replaced.                          *)
TakenSound ==
    \A t \in ToolCalls : \A n \in effects[GetOf(t)] :
        /\ \A k \in Keys : Source(snapshot[t][n + 1].record[k], k)
        /\ \A u \in earlier[t] : \A v \in earlier[u] :
               Wrote(u) /\ Quiet(PutOf(v)) =>
                   \A k \in Body(args[u]) \cap Keys : snapshot[t][n + 1].record[k] # v

(* A getter shows what the last issue of its read was answered.            *)
ShownSound ==
    \A t \in ToolCalls :
        reply[t] = "shown" /\ answer[GetOf(t)] = "good" =>
            shown[t] = [k \in Projection(args[t].tool) |-> snapshot[t][issued[GetOf(t)]].record[k]]

ToolInv ==
    /\ ToolTypeOK /\ StepSound /\ GuardSound /\ EarlierSound
    /\ LandedSound /\ LaterSound /\ SnapshotSound /\ ShownSound /\ WriterSound /\ TakenSound

IInv == RemoteInv /\ ToolInv

-----------------------------------------------------------------------------
LEMMA CallFacts ==
    /\ \A t \in ToolCalls : GetOf(t) \in Calls /\ PutOf(t) \in Calls
    /\ \A t, u \in ToolCalls : GetOf(t) # PutOf(u)
    /\ \A t, u \in ToolCalls : (GetOf(t) = GetOf(u) \/ PutOf(t) = PutOf(u)) => t = u
    /\ \A c \in Calls : /\ c.of \in ToolCalls
                        /\ c.part = "get" => c = GetOf(c.of)
                        /\ c.part = "put" => c = PutOf(c.of)
  BY CallsAssumption, SMT DEF GetOf, PutOf

LEMMA StepIsRemote == Next => [RemoteNext]_remoteVars
  BY CallFacts DEF Next, Reject, BeginRead, BeginWrite, ToolStep, Show, Block, Proceed, Report,
     Calling, Try, Conclude, ReadLands, WriteLands, Lost, PolicyFlips, AllOver, RemoteNext, vars

LEMMA BodyKeys ==
    ASSUME NEW a \in ToolArguments, a.tool \in Upserts
    PROVE  Body(a) \subseteq Keys
  BY DEF ToolArguments, Upserts, Body, Keys, PermissionKeys

LEMMA BodyReplaceable ==
    ASSUME NEW a \in ToolArguments, a.tool \in Upserts
    PROVE  Body(a) \subseteq Replaceable(a)
  BY DEF ToolArguments, Upserts, Body, Replaceable

LEMMA ProtectedGuarded ==
    ASSUME NEW a \in ToolArguments, a.tool \in Upserts, Body(a) \cap ProtectedKeys # {}
    PROVE  Guarded(a)
  <1>1. CASE a.tool = "upsert_permissions"
    BY <1>1 DEF Body, Guarded, ProtectedKeys, ToolArguments, PermissionKeys
  <1>2. QED
    BY <1>1 DEF Guarded, Upserts

LEMMA Start == Init => IInv
  <1> SUFFICES ASSUME Init PROVE IInv
    OBVIOUS
  <1>1. RemoteInv
    BY RemoteStart DEF Init
  <1>2. NoArguments \in ToolArguments
    BY DEF NoArguments, ToolArguments, Getters
  <1>3. ToolTypeOK
    BY <1>2 DEF Init, ToolTypeOK
  <1>4. StepSound /\ GuardSound /\ EarlierSound
    BY CallFacts DEF Init, RemoteInit, StepSound, GuardSound, EarlierSound
  <1>5. LandedSound /\ LaterSound /\ SnapshotSound /\ ShownSound /\ WriterSound /\ TakenSound
    BY CallFacts DEF Init, RemoteInit, LandedSound, LaterSound, SnapshotSound, ShownSound, WriterSound,
       Source, TakenSound
  <1>6. QED
    BY <1>1, <1>3, <1>4, <1>5 DEF IInv, ToolInv

(* A write reported as done has landed.                                    *)
LEMMA WroteLanded ==
    ASSUME IInv, NEW u \in ToolCalls, Wrote(u)
    PROVE  effects[PutOf(u)] # {}
  BY CallFacts DEF IInv, RemoteInv, AnswerSound, Answered, Answers, Truthful, Wrote

(* Whether an answer is quiet or good is settled once the tool is over.    *)
LEMMA OverSettled ==
    ASSUME IInv, [RemoteNext]_remoteVars, NEW t \in ToolCalls, step[t] = "over",
           \A u \in ToolCalls : answer[PutOf(u)] = "unasked" /\ answer'[PutOf(u)] # "unasked" => u # t
    PROVE  /\ answer'[PutOf(t)] = answer[PutOf(t)]
           /\ Quiet(PutOf(t))' => Quiet(PutOf(t))
  <1>1. PutOf(t) \in Calls /\ answer[PutOf(t)] # "open"
    BY CallFacts DEF IInv, ToolInv, StepSound
  <1>2. CASE answer[PutOf(t)] = "unasked"
    BY <1>1, <1>2 DEF Quiet
  <1>3. CASE Answered(PutOf(t))
    BY <1>1, <1>3, AnswerFinal DEF Quiet, IInv
  <1>4. QED
    BY <1>1, <1>2, <1>3 DEF IInv, RemoteInv, RemoteTypeOK, Answered

(* A step that lands no read, and changes nothing a begun tool saw.        *)
LEMMA SnapshotStays ==
    ASSUME IInv, UNCHANGED <<snapshot, policyError>>,
           \A t \in ToolCalls : effects'[GetOf(t)] = effects[GetOf(t)],
           \A t \in ToolCalls : effects[GetOf(t)] # {} =>
               /\ earlier'[t] = earlier[t] /\ steady'[t] = steady[t]
               /\ step'[t] \in {"reading", "writing"} => step[t] \in {"reading", "writing"},
           \A u \in ToolCalls : step[u] = "over" => (Wrote(u)' => Wrote(u)) /\ args'[u] = args[u]
    PROVE  SnapshotSound'
  <1> SUFFICES ASSUME NEW t \in ToolCalls, NEW n \in effects[GetOf(t)]
               PROVE  /\ n + 1 \in DOMAIN snapshot[t]
                      /\ step'[t] \in {"reading", "writing"} /\ steady'[t]
                            => snapshot[t][n + 1].policyError = policyError
                      /\ \A u \in earlier'[t] : Wrote(u)' =>
                            \A k \in Body(args'[u]) \cap Keys : snapshot[t][n + 1].record[k] # Stored
    BY DEF SnapshotSound
  <1>1. \A u \in earlier[t] : step[u] = "over" /\ u \in ToolCalls
    BY DEF IInv, ToolInv, ToolTypeOK, EarlierSound
  <1>2. QED
    BY <1>1 DEF IInv, ToolInv, SnapshotSound

(* A step that lands nothing, and changes nothing of a call that is over.  *)
LEMMA HistoryStays ==
    ASSUME IInv, UNCHANGED <<record, snapshot, effects>>,
           \A t \in ToolCalls : effects[GetOf(t)] # {} => earlier'[t] = earlier[t],
           \A u \in ToolCalls : effects[PutOf(u)] # {} => args'[u] = args[u],
           \A u \in ToolCalls : step[u] = "over" =>
               /\ Wrote(u)' => Wrote(u)
               /\ Quiet(PutOf(u))' => Quiet(PutOf(u))
               /\ args'[u] = args[u] /\ earlier'[u] = earlier[u]
    PROVE  WriterSound' /\ TakenSound'
  <1> USE DEF IInv, ToolInv
  <1>1. WriterSound'
    BY DEF WriterSound, Source
  <1>2. ASSUME NEW t \in ToolCalls, NEW n \in effects[GetOf(t)]
        PROVE  /\ \A k \in Keys : Source(snapshot[t][n + 1].record[k], k)'
               /\ \A u \in earlier'[t] : \A v \in earlier'[u] :
                      Wrote(u)' /\ Quiet(PutOf(v))' =>
                          \A k \in Body(args'[u]) \cap Keys : snapshot[t][n + 1].record[k] # v
    <2>1. \A k \in Keys : Source(snapshot[t][n + 1].record[k], k)'
      BY <1>2 DEF TakenSound, Source
    <2>2. earlier'[t] = earlier[t]
      BY <1>2
    <2>3. \A u \in earlier[t] : u \in ToolCalls /\ step[u] = "over"
      BY DEF ToolTypeOK, EarlierSound
    <2>4. \A u \in earlier[t] : \A v \in earlier[u] : v \in ToolCalls /\ step[v] = "over"
      BY <2>3 DEF ToolTypeOK, EarlierSound
    <2>5. QED
      BY <1>2, <2>1, <2>2, <2>3, <2>4 DEF TakenSound
  <1>3. QED
    BY <1>1, <1>2 DEF TakenSound

-----------------------------------------------------------------------------
(* Beginning a tool call: nothing of it has landed and nobody has seen it. *)
LEMMA BeginKeeps ==
    ASSUME IInv, NEW t \in ToolCalls, NEW a \in Arguments,
           Reject(t, a) \/ BeginRead(t, a) \/ BeginWrite(t, a)
    PROVE  ToolInv'
  <1> USE DEF IInv, ToolInv
  <1>0. /\ step[t] = "idle" /\ step'[t] # "idle"
        /\ answer[GetOf(t)] = "unasked" /\ answer[PutOf(t)] = "unasked"
        /\ effects[GetOf(t)] = {} /\ effects[PutOf(t)] = {}
    BY CallFacts, UnaskedNothing DEF Reject, BeginRead, BeginWrite, Begin, Answer, StepSound, ToolTypeOK
  <1>1. /\ args' = [args EXCEPT ![t] = a]
        /\ steady' = [steady EXCEPT ![t] = TRUE]
        /\ earlier' = [earlier EXCEPT ![t] = {u \in ToolCalls : Over(u)}]
        /\ UNCHANGED <<shown, record, policyError, snapshot, issued, pending, effects>>
    BY DEF Reject, BeginRead, BeginWrite, Begin, agentVars, remoteVars, Ask
  <1>2. /\ \A u \in ToolCalls : u # t => step'[u] = step[u] /\ reply'[u] = reply[u] /\ args'[u] = args[u]
                                         /\ steady'[u] = steady[u] /\ earlier'[u] = earlier[u]
        /\ \A u \in ToolCalls : u # t => answer'[GetOf(u)] = answer[GetOf(u)]
                                         /\ answer'[PutOf(u)] = answer[PutOf(u)]
    BY <1>1, CallFacts DEF Reject, BeginRead, BeginWrite, Begin, Answer, Ask, remoteVars, ToolTypeOK,
       RemoteInv, RemoteTypeOK
  <1>3. /\ args'[t] = a /\ earlier'[t] = {u \in ToolCalls : step[u] = "over"} /\ steady'[t] = TRUE
        /\ \/ /\ step'[t] = "over" /\ reply'[t] = "rejected"
              /\ answer'[GetOf(t)] = "unasked" /\ answer'[PutOf(t)] = "unasked"
           \/ /\ step'[t] = "reading" /\ reply'[t] = "none" /\ (a.tool \in Getters \/ Guarded(a))
              /\ answer'[GetOf(t)] = "open" /\ answer'[PutOf(t)] = "unasked"
           \/ /\ step'[t] = "writing" /\ reply'[t] = "none" /\ a.tool \in Upserts /\ ~Guarded(a)
              /\ answer'[GetOf(t)] = "unasked" /\ answer'[PutOf(t)] = "open"
    BY <1>0, <1>1, CallFacts DEF Reject, BeginRead, BeginWrite, Begin, Answer, Ask, remoteVars, ToolTypeOK,
       RemoteInv, RemoteTypeOK, Over, StepSound
  <1>4. ToolTypeOK'
    BY <1>1, ArgumentsAssumption DEF ToolTypeOK, Reject, BeginRead, BeginWrite, Begin, Answer
  <1>5. StepSound'
    BY <1>2, <1>3 DEF StepSound
  <1>6. GuardSound'
    <2>1. \A u \in ToolCalls : u # t => Answered(GetOf(u))' = Answered(GetOf(u)) /\ Blocked(u)' = Blocked(u)
      BY <1>1, <1>2 DEF Answered, Blocked, ReadFailed, Fetched
    <2>2. QED
      BY <1>2, <1>3, <2>1 DEF GuardSound
  <1>7. EarlierSound'
    BY <1>0, <1>2, <1>3 DEF EarlierSound
  <1>8. LandedSound'
    BY <1>0, <1>1, <1>2 DEF LandedSound
  <1>9. LaterSound'
    BY <1>0, <1>1, <1>2, <1>3 DEF LaterSound, EarlierSound, Quiet
  <1>10. SnapshotSound'
    <2>1. \A u \in ToolCalls : step[u] = "over" => (Wrote(u)' => Wrote(u)) /\ args'[u] = args[u]
      BY <1>0, <1>2 DEF Wrote
    <2>2. \A u \in ToolCalls : effects[GetOf(u)] # {} => u # t
      BY <1>0
    <2>3. QED
      BY <1>1, <1>2, <2>1, <2>2, SnapshotStays
  <1>11. ShownSound'
    BY <1>0, <1>1, <1>2, <1>3 DEF ShownSound
  <1>12. WriterSound' /\ TakenSound'
    <2>1. \A u \in ToolCalls : step[u] = "over" =>
              /\ Wrote(u)' => Wrote(u)
              /\ Quiet(PutOf(u))' => Quiet(PutOf(u))
              /\ args'[u] = args[u] /\ earlier'[u] = earlier[u]
      BY <1>0, <1>1, <1>2 DEF Wrote, Quiet
    <2>2. \A u \in ToolCalls : effects[GetOf(u)] # {} \/ effects[PutOf(u)] # {} => u # t
      BY <1>0
    <2>3. QED
      BY <1>1, <1>2, <2>1, <2>2, HistoryStays
  <1>13. QED
    BY <1>4, <1>5, <1>6, <1>7, <1>8, <1>9, <1>10, <1>11, <1>12

(* A tool call that ends without another call to the client.               *)
LEMMA EndKeeps ==
    ASSUME IInv, NEW t \in ToolCalls, NEW kind \in {"blocked", "shown", "written", "envelope"},
           step[t] \in {"reading", "writing"}, Answer(t, kind),
           answer[GetOf(t)] # "open", answer[PutOf(t)] # "open",
           kind = "blocked" => Guarded(args[t]),
           UNCHANGED <<remoteVars, args, steady, earlier, agentVars>>,
           shown' = [u \in ToolCalls |-> shown'[u]], \A u \in ToolCalls : u # t => shown'[u] = shown[u],
           kind = "shown" /\ answer[GetOf(t)] = "good" =>
               shown'[t] = [k \in Projection(args[t].tool) |-> snapshot[t][issued[GetOf(t)]].record[k]]
    PROVE  ToolInv'
  <1> USE DEF IInv, ToolInv, remoteVars, agentVars
  <1>1. /\ step'[t] = "over" /\ reply'[t] = kind
        /\ \A u \in ToolCalls : u # t => step'[u] = step[u] /\ reply'[u] = reply[u]
    BY DEF Answer, ToolTypeOK
  <1>2. ToolTypeOK'
    BY DEF ToolTypeOK, Answer
  <1>3. StepSound'
    BY <1>1 DEF StepSound
  <1>4. GuardSound'
    <2>1. \A u \in ToolCalls : Answered(GetOf(u))' = Answered(GetOf(u)) /\ Blocked(u)' = Blocked(u)
      BY DEF Answered, Blocked, ReadFailed, Fetched
    <2>2. QED
      BY <1>1, <2>1 DEF GuardSound
  <1>5. EarlierSound' /\ LandedSound' /\ LaterSound'
    BY <1>1 DEF EarlierSound, LandedSound, LaterSound, Quiet
  <1>6. SnapshotSound'
    BY <1>1 DEF SnapshotSound, Wrote
  <1>7. ShownSound'
    BY <1>1 DEF ShownSound
  <1>8. WriterSound' /\ TakenSound'
    BY HistoryStays DEF Wrote, Quiet
  <1>9. QED
    BY <1>2, <1>3, <1>4, <1>5, <1>6, <1>7, <1>8

LEMMA ToolStepKeeps ==
    ASSUME IInv, NEW t \in ToolCalls, ToolStep(t)
    PROVE  ToolInv'
  <1> USE DEF IInv, ToolInv
  <1>1. CASE Show(t)
    <2>1. answer[GetOf(t)] # "open" /\ answer[PutOf(t)] # "open" /\ step[t] = "reading"
      BY <1>1 DEF Show, AfterRead, Answered, Answers, Errors, StepSound
    <2>2. CASE ReadFailed(t)
      BY <1>1, <2>1, <2>2, EndKeeps DEF Show, ReadFailed, Errors, ToolTypeOK
    <2>3. CASE ~ReadFailed(t)
      <3>1. shown' = [shown EXCEPT ![t] = [k \in Projection(args[t].tool) |-> Fetched(t).record[k]]]
        BY <1>1, <2>3 DEF Show
      <3>2. answer[GetOf(t)] = "good" => Fetched(t) = snapshot[t][issued[GetOf(t)]]
        BY DEF Fetched
      <3>3. /\ shown' = [u \in ToolCalls |-> shown'[u]] /\ \A u \in ToolCalls : u # t => shown'[u] = shown[u]
            /\ shown'[t] = [k \in Projection(args[t].tool) |-> Fetched(t).record[k]]
        BY <3>1 DEF ToolTypeOK
      <3>4. QED
        BY <1>1, <2>1, <2>3, <3>2, <3>3, EndKeeps DEF Show
    <2>4. QED
      BY <2>2, <2>3
  <1>2. CASE Block(t)
    <2>1. answer[GetOf(t)] # "open" /\ answer[PutOf(t)] # "open" /\ step[t] = "reading"
      BY <1>2 DEF Block, AfterRead, Answered, Answers, Errors, StepSound
    <2>2. Guarded(args[t])
      BY <1>2, <2>1 DEF Block, GuardSound, Getters, Upserts
    <2>3. QED
      BY <1>2, <2>1, <2>2, EndKeeps DEF Block, ToolTypeOK
  <1>3. CASE Proceed(t)
    <2>0. /\ step[t] = "reading" /\ Answered(GetOf(t)) /\ ~Blocked(t) /\ args[t].tool \in Upserts
          /\ step'[t] = "writing" /\ answer'[PutOf(t)] = "open" /\ answer'[GetOf(t)] = answer[GetOf(t)]
          /\ answer[PutOf(t)] = "unasked"
      BY <1>3, CallFacts DEF Proceed, AfterRead, Ask, ToolTypeOK, RemoteInv, RemoteTypeOK
    <2>1. /\ UNCHANGED <<args, reply, shown, steady, earlier, agentVars, issued, pending, effects>>
          /\ \A u \in ToolCalls : /\ answer'[GetOf(u)] = answer[GetOf(u)]
                                  /\ u # t => step'[u] = step[u] /\ answer'[PutOf(u)] = answer[PutOf(u)]
      BY <1>3, CallFacts DEF Proceed, Ask, ToolTypeOK, RemoteInv, RemoteTypeOK
    <2>2. ToolTypeOK'
      BY <1>3 DEF Proceed, ToolTypeOK, agentVars
    <2>3. StepSound'
      BY <2>0, <2>1 DEF StepSound, Answered, Answers, Errors
    <2>4. GuardSound'
      <3>1. \A u \in ToolCalls : Answered(GetOf(u))' = Answered(GetOf(u)) /\ Blocked(u)' = Blocked(u)
        BY <2>1 DEF Answered, Blocked, ReadFailed, Fetched, agentVars
      <3>2. QED
        BY <2>0, <2>1, <3>1 DEF GuardSound
    <2>5. EarlierSound' /\ LandedSound' /\ LaterSound'
      BY <2>0, <2>1 DEF EarlierSound, LandedSound, LaterSound, Quiet, agentVars
    <2>6. SnapshotSound'
      <3>1. \A u \in ToolCalls : step[u] = "over" => (Wrote(u)' => Wrote(u)) /\ args'[u] = args[u]
        BY <2>0, <2>1 DEF Wrote
      <3>2. QED
        BY <2>0, <2>1, <3>1, SnapshotStays DEF agentVars
    <2>7. ShownSound'
      BY <2>1 DEF ShownSound, agentVars
    <2>8. WriterSound' /\ TakenSound'
      BY <2>0, <2>1, HistoryStays DEF Wrote, Quiet, agentVars
    <2>9. QED
      BY <2>2, <2>3, <2>4, <2>5, <2>6, <2>7, <2>8
  <1>4. CASE Report(t)
    <2>1. answer[GetOf(t)] # "open" /\ answer[PutOf(t)] # "open" /\ step[t] = "writing"
      BY <1>4 DEF Report, Answered, Answers, Errors, StepSound
    <2>2. QED
      BY <1>4, <2>1, EndKeeps DEF Report, ToolTypeOK
  <1>5. QED
    BY <1>1, <1>2, <1>3, <1>4 DEF ToolStep

(* The client at work: an answer comes only to a tool that waits for it.   *)
LEMMA CallingKeeps ==
    ASSUME IInv, NEW c \in Calls, Calling(c)
    PROVE  ToolInv'
  <1> USE DEF IInv, ToolInv
  <1>0. UNCHANGED <<step, args, reply, shown, steady, earlier, record, policyError, snapshot>>
    BY DEF Calling, toolVars, agentVars
  <1>1. /\ \A d \in Calls : answer'[d] = answer[d] \/ (answer[d] = "open" /\ Answered(d)')
        /\ effects' = effects
    BY WorkAnswers DEF Calling, Try, Conclude
  <1>2. \A d \in Calls : answer[d] # "open" => answer'[d] = answer[d] /\ issued'[d] = issued[d]
    BY SMT DEF Calling, Try, Conclude, Issue, Skip, GiveUp, Return, RemoteInv, RemoteTypeOK
  <1>3. ToolTypeOK'
    BY <1>0 DEF ToolTypeOK
  <1>4. StepSound'
    <2>1. \A d \in Calls : (answer[d] = "unasked" <=> answer'[d] = "unasked") /\ (answer'[d] = "open" => answer[d] = "open")
      BY <1>1 DEF Answered, Answers, Errors
    <2>2. QED
      BY <1>0, <2>1, CallFacts DEF StepSound
  <1>5. GuardSound'
    <2>1. \A t \in ToolCalls : Answered(GetOf(t)) =>
              Answered(GetOf(t))' /\ Blocked(t)' = Blocked(t)
      BY <1>0, <1>2, CallFacts DEF Answered, Answers, Errors, Blocked, ReadFailed, Fetched
    <2>2. \A t \in ToolCalls : answer'[PutOf(t)] # "unasked" => answer[PutOf(t)] # "unasked"
      BY <1>1, CallFacts
    <2>3. QED
      BY <1>0, <2>1, <2>2 DEF GuardSound
  <1>6. EarlierSound' /\ LandedSound'
    BY <1>0, <1>1 DEF EarlierSound, LandedSound
  <1>7. \A t \in ToolCalls : step[t] = "over" =>
            answer'[PutOf(t)] = answer[PutOf(t)] /\ issued'[PutOf(t)] = issued[PutOf(t)]
            /\ answer'[GetOf(t)] = answer[GetOf(t)] /\ issued'[GetOf(t)] = issued[GetOf(t)]
    BY <1>2, CallFacts DEF StepSound
  <1>8. LaterSound'
    BY <1>0, <1>1, <1>7 DEF LaterSound, EarlierSound, Quiet
  <1>9. SnapshotSound'
    <2>1. \A u \in ToolCalls : step[u] = "over" => (Wrote(u)' => Wrote(u)) /\ args'[u] = args[u]
      BY <1>0, <1>7 DEF Wrote
    <2>2. QED
      BY <1>0, <1>1, <2>1, SnapshotStays
  <1>10. ShownSound'
    BY <1>0, <1>7 DEF ShownSound, StepSound
  <1>11. WriterSound' /\ TakenSound'
    BY <1>0, <1>1, <1>7, HistoryStays DEF Wrote, Quiet
  <1>12. QED
    BY <1>3, <1>4, <1>5, <1>6, <1>8, <1>9, <1>10, <1>11

-----------------------------------------------------------------------------
(* A read lands: what it takes along is the record of this moment.         *)
LEMMA ReadLandsKeeps ==
    ASSUME IInv, NEW r \in pending, ReadLands(r)
    PROVE  ToolInv'
  <1> USE DEF IInv, ToolInv
  <1> DEFINE t == r.call.of
             taken == [record |-> record, policyError |-> policyError]
  <1>0. /\ t \in ToolCalls /\ r.call = GetOf(t) /\ r.attempt \in Nat
        /\ r.attempt \notin effects[GetOf(t)]
        /\ effects' = [effects EXCEPT ![GetOf(t)] = @ \cup {r.attempt}]
        /\ answer' = answer /\ issued' = issued
    BY LandingFacts, CallFacts DEF ReadLands, Land
  <1>1. UNCHANGED <<step, args, reply, shown, steady, earlier, record, policyError>>
    BY DEF ReadLands, toolVars
  <1>2. snapshot' = [snapshot EXCEPT ![t] =
            [n \in DOMAIN @ \cup {r.attempt + 1} |-> IF n = r.attempt + 1 THEN taken ELSE @[n]]]
    BY DEF ReadLands
  <1> HIDE DEF t
  <1>3. /\ \A u \in ToolCalls : u # t => snapshot'[u] = snapshot[u] /\ effects'[GetOf(u)] = effects[GetOf(u)]
        /\ \A u \in ToolCalls : effects'[PutOf(u)] = effects[PutOf(u)]
        /\ effects'[GetOf(t)] = effects[GetOf(t)] \cup {r.attempt}
        /\ snapshot' = [u \in ToolCalls |-> snapshot'[u]]
        /\ snapshot'[t] = [n \in DOMAIN snapshot[t] \cup {r.attempt + 1} |->
                              IF n = r.attempt + 1 THEN taken ELSE snapshot[t][n]]
    BY <1>0, <1>2, CallFacts DEF ToolTypeOK, RemoteInv, RemoteTypeOK
  <1>4. \A n \in effects[GetOf(t)] : n + 1 \in DOMAIN snapshot'[t] /\ snapshot'[t][n + 1] = snapshot[t][n + 1]
    <2> SUFFICES ASSUME NEW n \in effects[GetOf(t)]
                 PROVE  n + 1 \in DOMAIN snapshot'[t] /\ snapshot'[t][n + 1] = snapshot[t][n + 1]
      OBVIOUS
    <2>1. n \in Nat /\ n # r.attempt /\ n + 1 \in DOMAIN snapshot[t]
      BY <1>0, CallFacts DEF SnapshotSound, RemoteInv, RemoteTypeOK
    <2>2. n + 1 # r.attempt + 1
      BY <1>0, <2>1, SMT
    <2>3. QED
      BY <1>3, <2>1, <2>2
  <1>5. r.attempt + 1 \in DOMAIN snapshot'[t] /\ snapshot'[t][r.attempt + 1] = taken
    BY <1>3
  <1>6. \A u \in ToolCalls : answer[GetOf(u)] = "good" =>
            snapshot'[u][issued[GetOf(u)]] = snapshot[u][issued[GetOf(u)]]
    <2> SUFFICES ASSUME answer[GetOf(t)] = "good"
                 PROVE  snapshot'[t][issued[GetOf(t)]] = snapshot[t][issued[GetOf(t)]]
      BY <1>3
    <2>1. Last(GetOf(t)) \in effects[GetOf(t)] /\ Last(GetOf(t)) + 1 = issued[GetOf(t)]
      BY <1>0, CallFacts, SMT DEF RemoteInv, AnswerSound, Answered, Answers, Truthful, Last, RemoteTypeOK
    <2>2. QED
      BY <1>4, <2>1
  <1>7. ToolTypeOK'
    BY <1>1, <1>3 DEF ToolTypeOK
  <1>8. StepSound'
    BY <1>0, <1>1 DEF StepSound
  <1>9. GuardSound'
    <2>1. \A u \in ToolCalls : Answered(GetOf(u))' = Answered(GetOf(u)) /\ Blocked(u)' = Blocked(u)
      BY <1>0, <1>6 DEF Answered, Blocked, ReadFailed, Fetched
    <2>2. QED
      BY <1>0, <1>1, <2>1 DEF GuardSound
  <1>10. EarlierSound' /\ LandedSound' /\ LaterSound'
    BY <1>0, <1>1, <1>3 DEF EarlierSound, LandedSound, LaterSound, Quiet
  <1>11. SnapshotSound'
    <2>1. \A u \in earlier[t] : Wrote(u) => \A k \in Body(args[u]) \cap Keys : record[k] # Stored
      BY <1>0, WroteLanded DEF LandedSound, ToolTypeOK
    <2>2. \A u \in ToolCalls : Wrote(u)' = Wrote(u)
      BY <1>0, <1>1 DEF Wrote
    <2> SUFFICES ASSUME NEW s \in ToolCalls, NEW n \in effects'[GetOf(s)]
                 PROVE  /\ n + 1 \in DOMAIN snapshot'[s]
                        /\ step[s] \in {"reading", "writing"} /\ steady[s]
                              => snapshot'[s][n + 1].policyError = policyError
                        /\ \A u \in earlier[s] :
                              Wrote(u) => \A k \in Body(args[u]) \cap Keys : snapshot'[s][n + 1].record[k] # Stored
      BY <1>1, <2>2 DEF SnapshotSound, ToolTypeOK
    <2>3. CASE s # t
      BY <1>3, <2>3 DEF SnapshotSound
    <2>4. CASE s = t /\ n = r.attempt
      BY <1>5, <2>1, <2>4
    <2>5. CASE s = t /\ n # r.attempt
      <3>1. n \in effects[GetOf(t)]
        BY <1>3, <2>5
      <3>2. n + 1 \in DOMAIN snapshot'[s] /\ snapshot'[s][n + 1] = snapshot[s][n + 1]
        BY <1>4, <2>5, <3>1
      <3>3. QED
        BY <2>5, <3>1, <3>2 DEF SnapshotSound
    <2>6. QED
      BY <2>3, <2>4, <2>5
  <1>12. ShownSound'
    BY <1>0, <1>1, <1>6 DEF ShownSound
  <1>13. WriterSound'
    BY <1>1, <1>3 DEF WriterSound, Source
  <1>14. TakenSound'
    <2> SUFFICES ASSUME NEW s \in ToolCalls, NEW n \in effects'[GetOf(s)]
                 PROVE  /\ \A k \in Keys : Source(snapshot'[s][n + 1].record[k], k)
                        /\ \A u \in earlier[s] : \A v \in earlier[u] :
                              Wrote(u) /\ Quiet(PutOf(v)) =>
                                  \A k \in Body(args[u]) \cap Keys : snapshot'[s][n + 1].record[k] # v
      BY <1>0, <1>1, <1>3 DEF TakenSound, Source, Wrote, Quiet, ToolTypeOK
    <2>1. CASE s # t
      BY <1>3, <2>1 DEF TakenSound
    <2>2. CASE s = t /\ n = r.attempt
      <3>1. snapshot'[s][n + 1].record = record
        BY <1>5, <2>2
      <3>2. \A u \in earlier[t] : u \in ToolCalls /\ (Wrote(u) => effects[PutOf(u)] # {})
        BY <1>0, WroteLanded DEF ToolTypeOK
      <3>3. \A u \in earlier[t] : earlier[u] \subseteq ToolCalls
        BY <3>2 DEF ToolTypeOK
      <3>4. QED
        BY <2>2, <3>1, <3>2, <3>3 DEF WriterSound, LaterSound
    <2>3. CASE s = t /\ n # r.attempt
      <3>1. n \in effects[GetOf(t)]
        BY <1>3, <2>3
      <3>2. snapshot'[s][n + 1] = snapshot[s][n + 1]
        BY <1>4, <2>3, <3>1
      <3>3. QED
        BY <2>3, <3>1, <3>2 DEF TakenSound
    <2>4. QED
      BY <2>1, <2>2, <2>3
  <1>15. QED
    BY <1>7, <1>8, <1>9, <1>10, <1>11, <1>12, <1>13, <1>14

(* A write lands: it is of a call that is not quiet.                       *)
LEMMA WriteLandsKeeps ==
    ASSUME IInv, NEW r \in pending, WriteLands(r)
    PROVE  ToolInv'
  <1> USE DEF IInv, ToolInv
  <1> DEFINE w == r.call.of
  <1>0. /\ w \in ToolCalls /\ r.call = PutOf(w) /\ r.call \in Calls
        /\ effects' = [effects EXCEPT ![PutOf(w)] = @ \cup {r.attempt}]
        /\ answer' = answer /\ issued' = issued
        /\ answer[PutOf(w)] # "unasked"
    BY LandingFacts, CallFacts DEF WriteLands, Land
  <1>1. UNCHANGED <<step, args, reply, shown, steady, earlier, policyError, snapshot>>
    BY DEF WriteLands, toolVars
  <1>2. PICK keys \in {Body(args[w]), Replaceable(args[w])} :
            record' = [k \in Keys |-> IF k \in keys THEN w ELSE record[k]]
    BY DEF WriteLands, Replaced
  <1>3. ~Quiet(PutOf(w))
    BY <1>0, QuietSettled
  <1>4. args[w].tool \in Upserts
    BY <1>0 DEF GuardSound
  <1> HIDE DEF w
  <1>17. Body(args[w]) \cap Keys \subseteq keys /\ keys \subseteq Replaceable(args[w])
    BY <1>0, <1>4, BodyReplaceable DEF ToolTypeOK
  <1>5. /\ \A u \in ToolCalls : effects'[GetOf(u)] = effects[GetOf(u)]
        /\ \A u \in ToolCalls : u # w => effects'[PutOf(u)] = effects[PutOf(u)]
    BY <1>0, CallFacts DEF RemoteInv, RemoteTypeOK
  <1>6. ToolTypeOK'
    BY <1>0, <1>1, <1>2 DEF ToolTypeOK
  <1>7. StepSound' /\ EarlierSound'
    BY <1>0, <1>1 DEF StepSound, EarlierSound
  <1>8. GuardSound'
    <2>1. \A u \in ToolCalls : Answered(GetOf(u))' = Answered(GetOf(u)) /\ Blocked(u)' = Blocked(u)
      BY <1>0, <1>1 DEF Answered, Blocked, ReadFailed, Fetched
    <2>2. QED
      BY <1>0, <1>1, <2>1 DEF GuardSound
  <1>9. LandedSound'
    BY <1>0, <1>1, <1>2, <1>4, <1>5, <1>17, StoredAssumption DEF LandedSound
  <1>10. LaterSound'
    BY <1>0, <1>1, <1>2, <1>3, <1>5, <1>17 DEF LaterSound, EarlierSound, Quiet
  <1>11. SnapshotSound'
    BY <1>0, <1>1, <1>5 DEF SnapshotSound, Wrote
  <1>12. ShownSound'
    BY <1>0, <1>1 DEF ShownSound
  <1>13. \A v \in ToolCalls : effects[PutOf(v)] # {} \/ v = w => effects'[PutOf(v)] # {}
    BY <1>0, <1>5, CallFacts DEF RemoteInv, RemoteTypeOK
  <1>14. WriterSound'
    BY <1>0, <1>1, <1>2, <1>13, <1>17 DEF WriterSound, Source
  <1>15. TakenSound'
    BY <1>0, <1>1, <1>5, <1>13 DEF TakenSound, Source, Wrote, Quiet
  <1>16. QED
    BY <1>6, <1>7, <1>8, <1>9, <1>10, <1>11, <1>12, <1>14, <1>15

(* The flag flips: whoever is under way is no longer steady.               *)
LEMMA FlipKeeps ==
    ASSUME IInv, PolicyFlips
    PROVE  ToolInv'
  <1> USE DEF IInv, ToolInv
  <1>1. UNCHANGED <<answer, issued, pending, effects, step, args, reply, shown, earlier, record, snapshot>>
    BY DEF PolicyFlips, remoteVars
  <1>2. \A t \in ToolCalls : step[t] \in {"reading", "writing"} => ~steady'[t]
    BY DEF PolicyFlips, Over
  <1>3. ToolTypeOK'
    BY <1>1 DEF ToolTypeOK, PolicyFlips
  <1>4. StepSound' /\ EarlierSound' /\ LandedSound' /\ LaterSound' /\ ShownSound'
    BY <1>1 DEF StepSound, EarlierSound, LandedSound, LaterSound, ShownSound, Quiet
  <1>5. GuardSound'
    BY <1>1 DEF GuardSound, Answered, Blocked, ReadFailed, Fetched
  <1>6. SnapshotSound'
    BY <1>1, <1>2 DEF SnapshotSound, Wrote
  <1>7. WriterSound' /\ TakenSound'
    BY <1>1, HistoryStays DEF Wrote, Quiet
  <1>8. QED
    BY <1>3, <1>4, <1>5, <1>6, <1>7

LEMMA StutterKeeps ==
    ASSUME IInv, UNCHANGED <<toolVars, agentVars, answer, issued, effects>>
    PROVE  ToolInv'
  BY DEF IInv, ToolInv, toolVars, agentVars, ToolTypeOK, StepSound, GuardSound, EarlierSound, LandedSound,
     LaterSound, SnapshotSound, ShownSound, WriterSound, Source, TakenSound, Quiet, Wrote, Answered, Blocked,
     ReadFailed, Fetched

LEMMA NextKeeps == IInv /\ [Next]_vars => IInv'
  <1> SUFFICES ASSUME IInv, [Next]_vars
               PROVE  IInv'
    OBVIOUS
  <1>1. RemoteInv'
    BY StepIsRemote, RemoteStep DEF vars, remoteVars, IInv
  <1>2. ToolInv'
    <2>1. CASE UNCHANGED vars
      BY <2>1, StutterKeeps DEF vars, remoteVars
    <2>2. ASSUME NEW r \in pending, Lost(r)
          PROVE  ToolInv'
      BY <2>2, StutterKeeps DEF Lost, Lose, toolVars, agentVars
    <2>3. QED
      BY <2>1, <2>2, BeginKeeps, ToolStepKeeps, CallingKeeps, ReadLandsKeeps, WriteLandsKeeps, FlipKeeps
         DEF Next, AllOver
  <1>3. QED
    BY <1>1, <1>2 DEF IInv

\* The inductive invariant of the policy tools.
THEOREM Inductive == Spec => []IInv
  BY Start, NextKeeps, PTL DEF Spec

-----------------------------------------------------------------------------
\* The policy tools are well typed: what is raised to them never gets out raw.
THEOREM TypeCorrect == Spec => []TypeOK
  <1>1. IInv => TypeOK
    BY DEF IInv, ToolInv, RemoteInv, TypeOK, ToolTypeOK
  <1>2. QED
    BY <1>1, Inductive, PTL

\* No upsert gets past a guard whose read failed or showed the flag, for any
\* arguments and any number of upserts at a time.
THEOREM Guard == Spec => []GuardHolds
  <1>1. IInv => GuardHolds
    <2> SUFFICES ASSUME IInv, NEW t \in ToolCalls, step[t] = "writing", Touches(t), KnownBroken(t)
                 PROVE  answer[GetOf(t)] \in {"blank", "declined"}
      BY DEF GuardHolds
    <2> USE DEF IInv, ToolInv
    <2>1. Guarded(args[t])
      BY ProtectedGuarded DEF GuardSound, Touches, ToolTypeOK
    <2>2. Answered(GetOf(t)) /\ ~Blocked(t)
      BY <2>1 DEF GuardSound
    <2>3. answer[GetOf(t)] \in {"good", "blank", "declined"}
      BY <2>2 DEF Answered, Answers, Blocked, ReadFailed
    <2>4. answer[GetOf(t)] # "good"
      <3> SUFFICES ASSUME answer[GetOf(t)] = "good" PROVE FALSE
        OBVIOUS
      <3>1. Last(GetOf(t)) \in effects[GetOf(t)] /\ Last(GetOf(t)) + 1 = issued[GetOf(t)]
        BY CallFacts, SMT DEF RemoteInv, AnswerSound, Answered, Answers, Truthful, Last, RemoteTypeOK
      <3>2. snapshot[t][issued[GetOf(t)]].policyError
        BY <3>1 DEF SnapshotSound, KnownBroken
      <3>3. QED
        BY <2>2, <3>2 DEF Blocked, Fetched
    <2>5. QED
      BY <2>3, <2>4
  <1>2. QED
    BY <1>1, Inductive, PTL

\* Owners alone are never blocked.
THEOREM Owners == Spec => []OwnersUnaffected
  <1>1. IInv => OwnersUnaffected
    BY DEF IInv, ToolInv, GuardSound, OwnersUnaffected, Guarded
  <1>2. QED
    BY <1>1, Inductive, PTL

\* What a reported write has set is replaced only by one that came since, for
\* any number of writers and retries, whether or not the platform erases what a
\* write does not name.
THEOREM LaterStays == Spec => []LaterWriteStays
  <1>1. IInv => LaterWriteStays
    <2> SUFFICES ASSUME IInv, NEW u \in ToolCalls, Wrote(u), NEW k \in Body(args[u])
                 PROVE  CameSince(record[k], k, u)
      BY DEF LaterWriteStays
    <2> USE DEF IInv, ToolInv
    <2> DEFINE v == record[k]
    <2>1. effects[PutOf(u)] # {}
      BY WroteLanded
    <2>2. k \in Keys
      BY BodyKeys DEF Wrote, ToolTypeOK
    <2>3. v # Stored
      BY <2>1, <2>2 DEF LandedSound
    <2>4. v \in ToolCalls /\ k \in Replaceable(args[v]) /\ effects[PutOf(v)] # {}
      BY <2>2, <2>3 DEF WriterSound, Source
    <2>5. ~Behind(v, u)
      BY <2>1, <2>2, <2>4 DEF LaterSound, Behind, Wrote, Quiet
    <2>6. QED
      BY <2>4, <2>5 DEF CameSince
  <1>2. QED
    BY <1>1, Inductive, PTL

\* A getter shows of a write reported before it was called that write or one
\* that came after, however many writers and retries there are.
THEOREM ReadsSeeWrites == Spec => []ReadYourWrites
  <1>1. IInv => ReadYourWrites
    <2> SUFFICES ASSUME IInv, NEW t \in ToolCalls, NEW u \in ToolCalls, u \in earlier[t], Wrote(u),
                        reply[t] = "shown", answer[GetOf(t)] = "good",
                        NEW k \in DOMAIN shown[t] \cap Body(args[u])
                 PROVE  CameSince(shown[t][k], k, u)
      BY DEF ReadYourWrites
    <2> USE DEF IInv, ToolInv
    <2> DEFINE v == shown[t][k]
    <2>1. Last(GetOf(t)) \in effects[GetOf(t)] /\ Last(GetOf(t)) + 1 = issued[GetOf(t)]
      BY CallFacts, SMT DEF RemoteInv, AnswerSound, Answered, Answers, Truthful, Last, RemoteTypeOK
    <2>2. k \in Keys
      BY BodyKeys DEF Wrote, ToolTypeOK
    <2>3. v = snapshot[t][Last(GetOf(t)) + 1].record[k]
      <3>1. v = snapshot[t][issued[GetOf(t)]].record[k]
        BY DEF ShownSound
      <3>2. QED
        BY <2>1, <3>1
    <2>4. v # Stored
      BY <2>1, <2>2, <2>3 DEF SnapshotSound
    <2>5. v \in ToolCalls /\ k \in Replaceable(args[v]) /\ effects[PutOf(v)] # {}
      BY <2>1, <2>2, <2>3, <2>4 DEF TakenSound, Source
    <2>6. ~Behind(v, u)
      BY <2>1, <2>2, <2>3, <2>5 DEF TakenSound, Behind, Wrote, Quiet
    <2>7. QED
      BY <2>5, <2>6 DEF CameSince
  <1>2. QED
    BY <1>1, Inductive, PTL

\* No value gets under a key of the policy but past the guard of the one who
\* wrote it, for any number of upserts and retries.
THEOREM WrittenPastGuard == Spec => []PolicyWrittenPastGuard
  <1>1. IInv => PolicyWrittenPastGuard
    <2> SUFFICES ASSUME IInv, NEW k \in ProtectedKeys, record[k] # Stored, k \in Body(args[record[k]])
                 PROVE  Answered(GetOf(record[k])) /\ ~Blocked(record[k])
      BY DEF PolicyWrittenPastGuard, Blocked
    <2> USE DEF IInv, ToolInv
    <2>1. k \in Keys
      BY DEF ProtectedKeys, Keys, PermissionKeys
    <2>2. record[k] \in ToolCalls /\ effects[PutOf(record[k])] # {}
      BY <2>1 DEF WriterSound, Source
    <2>3. answer[PutOf(record[k])] # "unasked"
      BY <2>2, CallFacts, UnaskedNothing
    <2>4. args[record[k]].tool \in Upserts
      BY <2>2, <2>3 DEF GuardSound
    <2>5. Guarded(args[record[k]])
      BY <2>2, <2>4, ProtectedGuarded DEF ToolTypeOK
    <2>6. QED
      BY <2>2, <2>3, <2>5 DEF GuardSound
  <1>2. QED
    BY <1>1, Inductive, PTL
=============================================================================
