------------------------ MODULE AgentSettingsProofs -------------------------
(***************************************************************************)
(* What is configured and cleared by calls made one after the other stays  *)
(* as the last one left it, nothing is written that was not named, and the *)
(* two voices stay together: for any number of calls of any of the tools,  *)
(* any arguments and any number of retries.                                *)
(***************************************************************************)
EXTENDS AgentSettings, RemoteCallProofs

ToolTypeOK ==
    /\ args \in [Calls -> SettingArguments]
    /\ reply \in [Calls -> {"none", "rejected", "envelope", "result"}]
    /\ earlier \in [Calls -> SUBSET Calls]
    /\ filled \subseteq Cells
    /\ writer \in [Cells -> Calls \cup {Stored}]
    /\ view = [c \in Calls |-> view[c]]

ReplySound ==
    \A c \in Calls :
        /\ reply[c] # "none" => answer[c] # "open"
        /\ answer[c] = "unasked" /\ reply[c] = "none" => earlier[c] = {}

EarlierSound == \A t, u \in Calls : t \in earlier[u] => reply[t] # "none" /\ t # u

(* Who wrote a cell was asked to, and a call that was asked for does not   *)
(* change its mind.                                                        *)
WriterSound ==
    \A k \in Cells :
        writer[k] # Stored =>
            /\ writer[k] \in Calls /\ answer[writer[k]] # "unasked"
            /\ LET a == args[writer[k]] IN
                  /\ ~a.reads
                  /\ \/ k \in UNION {Wiped(j) : j \in Named(a)}
                     \/ a.place = "twilio" /\ k = TwilioRecord

(* A call that landed has replaced what an earlier, quiet one had written. *)
LaterSound ==
    \A t, u \in Calls :
        t \in earlier[u] /\ Quiet(t) /\ effects[u] # {}
            => \A k \in Touches(args[t]) \cap Touches(args[u]) : writer[k] # t

VoicesSound ==
    (\A c \in Calls : answer[c] # "unasked" => Paired(args[c]))
        => \A j, k \in Voices : writer[j] = writer[k]

OnlyWriter(u) == \A d \in Calls \ {u} : answer[d] # "unasked" => args[d].reads

(* If nobody else writes, the settings are as asked for ...                *)
FilledSound ==
    \A u \in Calls :
        ~args[u].reads /\ effects[u] # {} /\ OnlyWriter(u)
            => On(args[u]) \subseteq filled /\ Off(args[u]) \cap filled = {}

SeenIn(seen, t, u) ==
    On(args[u]) \cap CellsOf(args[t].place) \subseteq seen /\ Off(args[u]) \cap seen = {}

(* ... and so are those that a later reader, or the call itself, is told.  *)
ViewSound ==
    \A t \in Calls : \A n \in effects[t] :
        /\ n + 1 \in DOMAIN view[t]
        /\ ~args[t].reads => SeenIn(view[t][n + 1], t, t)
        /\ \A u \in earlier[t] :
              args[t].reads /\ ~args[u].reads /\ Done(u) /\ OnlyWriter(u) => SeenIn(view[t][n + 1], t, u)

ToolInv ==
    /\ ToolTypeOK /\ ReplySound /\ EarlierSound /\ WriterSound /\ LaterSound
    /\ VoicesSound /\ FilledSound /\ ViewSound

IInv == RemoteInv /\ ToolInv

-----------------------------------------------------------------------------
(* The cells, and what arguments do to them.                               *)

LEMMA CellFacts ==
    /\ \A p \in Places : CellsOf(p) \subseteq Cells
    /\ \A p \in Places : \A k \in CellsOf(p) : k[1] = p
    /\ TwilioRecord \in Cells /\ TwilioRecord[1] = "data"
    /\ Voices \subseteq CellsOf("twilio")
    /\ \A p \in Places : TwilioRecord \in CellsOf(p) => p = "data"
  <1>1. \A p \in Places : CellsOf(p) \subseteq Cells
    BY DEF Cells
  <1>2. \A p \in Places : \A k \in CellsOf(p) : k[1] = p
    BY DEF CellsOf
  <1>3. TwilioRecord \in CellsOf("data") /\ TwilioRecord[1] = "data"
    BY DEF CellsOf, TwilioRecord, KeysOf, Sections
  <1>4. Voices \subseteq CellsOf("twilio")
    BY TwilioAssumption DEF CellsOf, Voices, KeysOf
  <1>5. QED
    BY <1>1, <1>2, <1>3, <1>4 DEF Places

LEMMA ArgumentFacts ==
    ASSUME NEW a \in SettingArguments
    PROVE  /\ a.place \in Places /\ a.reads \in BOOLEAN
           /\ a.given \in [CellsOf(a.place) -> Given]
           /\ On(a) \subseteq CellsOf(a.place) /\ Off(a) \subseteq CellsOf(a.place)
           /\ Named(a) = On(a) \cup Off(a) /\ On(a) \cap Off(a) = {}
           /\ DOMAIN Body(a) = Named(a) /\ \A k \in Named(a) : Body(a)[k] = a.given[k]
  <1>1. PICK p \in Places :
            a \in [place : {p}, reads : BOOLEAN, given : [CellsOf(p) -> Given], fits : BOOLEAN]
    BY DEF SettingArguments
  <1>2. a.place = p /\ a.reads \in BOOLEAN /\ a.given \in [CellsOf(p) -> Given]
    BY <1>1
  <1>3. DOMAIN a.given = CellsOf(p) /\ \A k \in CellsOf(p) : a.given[k] \in {"omitted", "on", "off"}
    BY <1>2 DEF Given
  <1>4. QED
    BY <1>2, <1>3 DEF On, Off, Named, Body

LEMMA WipedFacts ==
    ASSUME NEW k \in Cells
    PROVE  k \in Wiped(k) /\ Wiped(k) \subseteq Cells
  BY CellFacts DEF Wiped, Places

LEMMA TouchFacts ==
    ASSUME NEW a \in SettingArguments
    PROVE  /\ Fills(a) = IF a.reads THEN {} ELSE On(a)
           /\ Empties(a) = IF a.reads THEN {} ELSE UNION {Wiped(k) : k \in Off(a)}
           /\ Fills(a) \subseteq Cells /\ Empties(a) \subseteq Cells /\ Seeds(a) \subseteq Cells
           /\ Touches(a) \subseteq Cells
           /\ \A k \in Touches(a) : k \in UNION {Wiped(j) : j \in Named(a)} /\ ~a.reads
           /\ ~a.reads => Off(a) \subseteq Empties(a)
  <1>1. Fills(a) = IF a.reads THEN {} ELSE On(a)
    BY ArgumentFacts DEF Fills, On
  <1>2. {j \in DOMAIN Body(a) : Body(a)[j] = "off"} = Off(a)
    BY ArgumentFacts DEF Off
  <1>3. Empties(a) = IF a.reads THEN {} ELSE UNION {Wiped(k) : k \in Off(a)}
    BY <1>2 DEF Empties
  <1>4. On(a) \subseteq Cells /\ Off(a) \subseteq Cells
    BY ArgumentFacts, CellFacts
  <1>5. QED
    BY <1>1, <1>3, <1>4, WipedFacts, CellFacts, ArgumentFacts DEF Touches, Seeds

(* A paired call writes both voices or neither, and so does a clear.       *)
LEMMA VoicesTogether ==
    ASSUME NEW a \in SettingArguments, Paired(a), NEW j \in Voices, NEW k \in Voices, j \in Touches(a)
    PROVE  k \in Touches(a)
  <1>1. j[1] = "twilio" /\ k[1] = "twilio" /\ j \in CellsOf("twilio") /\ k \in CellsOf("twilio")
    BY CellFacts DEF Places
  <1>2. ~a.reads /\ (j \in On(a) \/ \E i \in Off(a) : j \in Wiped(i))
    BY TouchFacts DEF Touches
  <1>3. CASE j \in Named(a)
    <2>1. a.place = "twilio"
      BY <1>1, <1>3, ArgumentFacts, CellFacts
    <2>2. k \in Named(a)
      BY <1>2, <1>3, <2>1 DEF Paired
    <2>3. k \in Cells
      BY <1>1, CellFacts DEF Places
    <2>4. QED
      BY <1>2, <2>2, <2>3, TouchFacts, ArgumentFacts DEF Touches
  <1>4. CASE j \notin Named(a)
    <2>1. PICK i \in Off(a) : j \in Wiped(i)
      BY <1>2, <1>4, ArgumentFacts
    <2>2. i # j
      BY <1>4, ArgumentFacts
    <2>3. i[1] = "data"
      BY <2>1, <2>2 DEF Wiped
    <2>4. j \notin CellsOf("shown")
      BY <1>1, CellFacts DEF Places
    <2>5. i = TwilioRecord
      BY <2>1, <2>2, <2>3, <2>4 DEF Wiped
    <2>6. k \in Wiped(i)
      BY <1>1, <2>3, <2>5 DEF Wiped
    <2>7. QED
      BY <1>2, <2>1, <2>6, TouchFacts DEF Touches
  <1>5. QED
    BY <1>3, <1>4

-----------------------------------------------------------------------------
LEMMA StepIsRemote == Next => [RemoteNext]_remoteVars
  BY DEF Next, Reject, Submit, Report, Say, Calling, Conclude, Lands, Lost, AllReported, RemoteNext, vars

LEMMA Start == Init => IInv
  <1> SUFFICES ASSUME Init PROVE IInv
    OBVIOUS
  <1>1. RemoteInv
    BY RemoteStart DEF Init
  <1>2. NoArguments \in SettingArguments
    <2>1. NoArguments \in [place : {"shown"}, reads : BOOLEAN, given : [CellsOf("shown") -> Given], fits : BOOLEAN]
      BY DEF NoArguments, Given
    <2>2. QED
      BY <2>1 DEF SettingArguments, Places
  <1>3. ToolTypeOK
    BY <1>2 DEF Init, ToolTypeOK
  <1>4. ReplySound /\ EarlierSound /\ WriterSound
    BY DEF Init, RemoteInit, ReplySound, EarlierSound, WriterSound
  <1>5. LaterSound /\ FilledSound /\ ViewSound
    BY DEF Init, RemoteInit, LaterSound, FilledSound, ViewSound
  <1>6. VoicesSound
    BY CellFacts DEF Init, VoicesSound, Places
  <1>7. QED
    BY <1>1, <1>3, <1>4, <1>5, <1>6 DEF IInv, ToolInv

(* A call that has landed was asked for, and what was asked for is typed.  *)
LEMMA LandedAsked ==
    ASSUME IInv, NEW c \in Calls
    PROVE  /\ effects[c] # {} => answer[c] # "unasked"
           /\ Done(c) => effects[c] # {}
           /\ args[c] \in SettingArguments
  BY UnaskedNothing DEF IInv, ToolInv, ToolTypeOK, RemoteInv, AnswerSound, Answered, Answers, Truthful, Done

(* Beginning a call, or rejecting it: nothing of it has landed or is seen. *)
LEMMA BeginKeeps ==
    ASSUME IInv, NEW c \in Calls, NEW a \in Arguments, Reject(c, a) \/ Submit(c, a)
    PROVE  ToolInv'
  <1> USE DEF IInv, ToolInv
  <1>0. /\ answer[c] = "unasked" /\ reply[c] = "none" /\ effects[c] = {} /\ a \in SettingArguments
        /\ args' = [args EXCEPT ![c] = a]
        /\ earlier' = [earlier EXCEPT ![c] = {d \in Calls : reply[d] # "none"}]
        /\ UNCHANGED <<filled, writer, view, issued, pending, effects>>
    BY UnaskedNothing, SettingAssumption DEF Reject, Submit, Begin, Fresh, agentVars, remoteVars, Ask
  <1>1. /\ args'[c] = a /\ earlier'[c] = {d \in Calls : reply[d] # "none"}
        /\ \A d \in Calls : d # c => args'[d] = args[d] /\ earlier'[d] = earlier[d]
                                     /\ answer'[d] = answer[d] /\ reply'[d] = reply[d]
        /\ \/ answer'[c] = "unasked" /\ reply'[c] = "rejected"
           \/ answer'[c] = "open" /\ reply'[c] = "none"
    BY <1>0 DEF Reject, Submit, Ask, remoteVars, ToolTypeOK, RemoteInv, RemoteTypeOK
  <1>2. ToolTypeOK'
    BY <1>0 DEF ToolTypeOK, Reject, Submit
  <1>3. ReplySound' /\ EarlierSound'
    BY <1>0, <1>1 DEF ReplySound, EarlierSound
  <1>4. \A d \in Calls : effects[d] # {} => d # c
    BY <1>0
  <1>5. \A d \in Calls : OnlyWriter(d)' /\ d # c => OnlyWriter(d)
    BY <1>0, <1>1 DEF OnlyWriter
  <1>6. WriterSound'
    <2> SUFFICES ASSUME NEW k \in Cells, writer[k] # Stored
                 PROVE  /\ writer[k] \in Calls /\ answer'[writer[k]] # "unasked"
                        /\ LET b == args'[writer[k]] IN
                              /\ ~b.reads
                              /\ \/ k \in UNION {Wiped(j) : j \in Named(b)}
                                 \/ b.place = "twilio" /\ k = TwilioRecord
      BY <1>0 DEF WriterSound
    <2>1. writer[k] \in Calls /\ writer[k] # c
      BY <1>0 DEF WriterSound
    <2>2. args'[writer[k]] = args[writer[k]] /\ answer'[writer[k]] = answer[writer[k]]
      BY <1>1, <2>1
    <2>3. QED
      BY <2>1, <2>2 DEF WriterSound
  <1>7. LaterSound'
    BY <1>0, <1>1, <1>4 DEF LaterSound, EarlierSound, Quiet
  <1>8. VoicesSound'
    BY <1>0, <1>1 DEF VoicesSound
  <1>9. FilledSound'
    BY <1>0, <1>1, <1>4, <1>5 DEF FilledSound
  <1>10. ViewSound'
    <2> SUFFICES ASSUME NEW t \in Calls, NEW n \in effects[t]
                 PROVE  /\ n + 1 \in DOMAIN view[t]
                        /\ ~args'[t].reads => SeenIn(view[t][n + 1], t, t)'
                        /\ \A u \in earlier'[t] :
                              args'[t].reads /\ ~args'[u].reads /\ Done(u)' /\ OnlyWriter(u)'
                                  => SeenIn(view[t][n + 1], t, u)'
      BY <1>0 DEF ViewSound
    <2>1. t # c /\ args'[t] = args[t] /\ earlier'[t] = earlier[t]
      BY <1>1, <1>4
    <2>2. \A u \in earlier[t] : u \in Calls /\ u # c
      BY <1>0 DEF EarlierSound, ToolTypeOK
    <2>3. \A u \in earlier[t] : args'[u] = args[u] /\ (Done(u)' => Done(u)) /\ (OnlyWriter(u)' => OnlyWriter(u))
      BY <1>1, <1>5, <2>2 DEF Done
    <2>4. QED
      BY <1>0, <2>1, <2>3 DEF ViewSound, SeenIn
  <1>11. QED
    BY <1>2, <1>3, <1>6, <1>7, <1>8, <1>9, <1>10

(* A step that lands nothing and begins nothing: answers come, and tools   *)
(* say what they say.                                                      *)
LEMMA QuietStepKeeps ==
    ASSUME IInv, UNCHANGED <<args, earlier, agentVars, effects>>,
           \A c \in Calls : answer'[c] = answer[c] \/ (answer[c] = "open" /\ Answered(c)'),
           \A c \in Calls : answer[c] # "open" => issued'[c] = issued[c],
           reply' \in [Calls -> {"none", "rejected", "envelope", "result"}],
           \A c \in Calls : reply[c] # "none" => reply'[c] = reply[c],
           \A c \in Calls : reply[c] = "none" /\ reply'[c] # "none" => Answered(c) /\ answer'[c] = answer[c]
    PROVE  ToolInv'
  <1> USE DEF IInv, ToolInv, agentVars
  <1>1. \A c \in Calls : (answer'[c] = "unasked" <=> answer[c] = "unasked") /\ (answer'[c] = "open" => answer[c] = "open")
    BY DEF Answered, Answers, Errors
  <1>2. ToolTypeOK'
    BY DEF ToolTypeOK
  <1>3. ReplySound' /\ EarlierSound'
    BY <1>1 DEF ReplySound, EarlierSound, Answered, Answers, Errors
  <1>4. WriterSound' /\ VoicesSound'
    BY <1>1 DEF WriterSound, VoicesSound
  <1>5. \A t \in Calls : reply[t] # "none" => (Quiet(t)' => Quiet(t)) /\ (Done(t)' => Done(t))
    BY DEF ReplySound, Quiet, Done
  <1>6. LaterSound'
    BY <1>5 DEF LaterSound, EarlierSound
  <1>7. \A u \in Calls : OnlyWriter(u)' => OnlyWriter(u)
    BY <1>1 DEF OnlyWriter
  <1>8. FilledSound'
    BY <1>7 DEF FilledSound
  <1>9. \A t \in Calls : \A u \in earlier[t] : u \in Calls /\ reply[u] # "none"
    BY DEF EarlierSound, ToolTypeOK
  <1>10. ViewSound'
    BY <1>5, <1>7, <1>9 DEF ViewSound, SeenIn
  <1>11. QED
    BY <1>2, <1>3, <1>4, <1>6, <1>8, <1>10

LEMMA SayKeeps ==
    ASSUME IInv, NEW c \in Calls, Report(c)
    PROVE  ToolInv'
  <1>1. PICK kind \in {"envelope", "result"} : Say(c, kind) /\ Answered(c)
    BY DEF Report
  <1>2. QED
    BY <1>1, QuietStepKeeps DEF Say, remoteVars, IInv, ToolInv, ToolTypeOK

LEMMA CallingKeeps ==
    ASSUME IInv, NEW c \in Calls, Calling(c)
    PROVE  ToolInv'
  <1>1. /\ \A d \in Calls : answer'[d] = answer[d] \/ (answer[d] = "open" /\ Answered(d)')
        /\ effects' = effects
    BY WorkAnswers DEF Calling, Conclude, IInv
  <1>2. \A d \in Calls : answer[d] # "open" => issued'[d] = issued[d]
    BY SMT DEF Calling, Conclude, Issue, Skip, GiveUp, Return, IInv, RemoteInv, RemoteTypeOK
  <1>3. UNCHANGED <<args, earlier, reply, agentVars>>
    BY DEF Calling, toolVars
  <1>4. QED
    BY <1>1, <1>2, <1>3, QuietStepKeeps DEF IInv, ToolInv, ToolTypeOK

-----------------------------------------------------------------------------
(* A request lands: it is of a call that is not quiet, and does to the     *)
(* cells what that call named, whoever wrote them last.                    *)
LEMMA LandsKeeps ==
    ASSUME IInv, NEW r \in pending, Lands(r)
    PROVE  ToolInv'
  <1> USE DEF IInv, ToolInv
  <1> DEFINE c == r.call
             a == args[c]
  <1>0. /\ c \in Calls /\ r.attempt \in Nat /\ r.attempt \notin effects[c] /\ answer[c] # "unasked"
        /\ effects' = [effects EXCEPT ![c] = @ \cup {r.attempt}]
        /\ answer' = answer /\ issued' = issued /\ UNCHANGED <<args, reply, earlier>>
        /\ a \in SettingArguments
    BY LandingFacts, LandedAsked DEF Lands, Land, toolVars
  <1>1. /\ filled' = (filled \ Empties(a)) \cup Fills(a) \cup Seeds(a)
        /\ writer' = [k \in Cells |-> IF k \in Touches(a) \cup Seeds(a) THEN c ELSE writer[k]]
        /\ view' = [view EXCEPT ![c] =
               [n \in DOMAIN @ \cup {r.attempt + 1} |->
                   IF n = r.attempt + 1 THEN filled' \cap CellsOf(a.place) ELSE @[n]]]
    BY DEF Lands
  <1>2. ~Quiet(c)
    BY <1>0, QuietSettled
  <1> HIDE DEF c, a
  <1>3. a = args[c] /\ effects \in [Calls -> SUBSET Nat]
    BY DEF a, RemoteInv, RemoteTypeOK
  <1>4. /\ effects'[c] = effects[c] \cup {r.attempt}
        /\ \A d \in Calls : d # c => effects'[d] = effects[d] /\ view'[d] = view[d]
        /\ view'[c] = [n \in DOMAIN view[c] \cup {r.attempt + 1} |->
                          IF n = r.attempt + 1 THEN filled' \cap CellsOf(a.place) ELSE view[c][n]]
    BY <1>0, <1>1, <1>3 DEF ToolTypeOK
  <1>5. ToolTypeOK'
    BY <1>0, <1>1, TouchFacts DEF ToolTypeOK
  <1>6. ReplySound' /\ EarlierSound'
    BY <1>0 DEF ReplySound, EarlierSound
  <1>7. WriterSound'
    <2> SUFFICES ASSUME NEW k \in Cells, writer'[k] # Stored
                 PROVE  /\ writer'[k] \in Calls /\ answer[writer'[k]] # "unasked"
                        /\ ~args[writer'[k]].reads
                        /\ \/ k \in UNION {Wiped(j) : j \in Named(args[writer'[k]])}
                           \/ args[writer'[k]].place = "twilio" /\ k = TwilioRecord
      BY <1>0 DEF WriterSound
    <2>1. CASE k \in Touches(a)
      BY <1>0, <1>1, <1>3, <2>1, TouchFacts
    <2>2. CASE k \in Seeds(a)
      BY <1>0, <1>1, <1>3, <2>2 DEF Seeds
    <2>3. CASE k \notin Touches(a) \cup Seeds(a)
      BY <1>1, <2>3 DEF WriterSound
    <2>4. QED
      BY <2>1, <2>2, <2>3
  <1>8. LaterSound'
    <2> SUFFICES ASSUME NEW t \in Calls, NEW u \in Calls, t \in earlier[u], Quiet(t), effects'[u] # {},
                        NEW k \in Touches(args[t]) \cap Touches(args[u])
                 PROVE  writer'[k] # t
      BY <1>0 DEF LaterSound, Quiet, Touches, Fills, Empties, Wiped
    <2>1. k \in Cells /\ t # u /\ t # c
      BY <1>2, LandedAsked, TouchFacts DEF EarlierSound
    <2>2. CASE u = c
      BY <1>1, <1>3, <2>1, <2>2
    <2>3. CASE u # c
      BY <1>1, <1>4, <2>1, <2>3 DEF LaterSound
    <2>4. QED
      BY <2>2, <2>3
  <1>9. VoicesSound'
    <2> SUFFICES ASSUME \A d \in Calls : answer[d] # "unasked" => Paired(args[d]),
                        NEW j \in Voices, NEW k \in Voices
                 PROVE  writer'[j] = writer'[k]
      BY <1>0 DEF VoicesSound
    <2>1. j \in Cells /\ k \in Cells /\ j # TwilioRecord /\ k # TwilioRecord
      BY CellFacts DEF Places
    <2>2. j \in Touches(a) <=> k \in Touches(a)
      BY <1>0, <1>3, VoicesTogether
    <2>3. writer[j] = writer[k]
      BY DEF VoicesSound
    <2>4. j \notin Seeds(a) /\ k \notin Seeds(a)
      BY <2>1 DEF Seeds
    <2>5. QED
      BY <1>1, <2>1, <2>2, <2>3, <2>4
  <1>10. a.reads => filled' = filled
    BY <1>0, <1>1, TouchFacts DEF Seeds
  <1>11. ~a.reads => On(a) \subseteq filled' /\ Off(a) \cap filled' = {}
    <2> SUFFICES ASSUME ~a.reads PROVE On(a) \subseteq filled' /\ Off(a) \cap filled' = {}
      OBVIOUS
    <2>1. Off(a) \cap Seeds(a) = {}
      BY <1>0, ArgumentFacts, CellFacts DEF Seeds, Places
    <2>2. Fills(a) = On(a) /\ Off(a) \subseteq Empties(a) /\ On(a) \cap Off(a) = {}
      BY <1>0, TouchFacts, ArgumentFacts
    <2>3. QED
      BY <1>1, <2>1, <2>2
  <1>12. FilledSound'
    <2> SUFFICES ASSUME NEW u \in Calls, ~args[u].reads, effects'[u] # {}, OnlyWriter(u)
                 PROVE  On(args[u]) \subseteq filled' /\ Off(args[u]) \cap filled' = {}
      BY <1>0 DEF FilledSound, OnlyWriter
    <2>1. CASE u = c
      BY <1>3, <1>11, <2>1
    <2>2. CASE u # c
      <3>1. a.reads
        BY <1>0, <1>3, <2>2 DEF OnlyWriter
      <3>2. QED
        BY <1>4, <1>10, <2>2, <3>1 DEF FilledSound
    <2>3. QED
      BY <2>1, <2>2
  <1>13. ViewSound'
    <2> SUFFICES ASSUME NEW t \in Calls, NEW n \in effects'[t]
                 PROVE  /\ n + 1 \in DOMAIN view'[t]
                        /\ ~args[t].reads => SeenIn(view'[t][n + 1], t, t)
                        /\ \A u \in earlier[t] :
                              args[t].reads /\ ~args[u].reads /\ Done(u) /\ OnlyWriter(u)
                                  => SeenIn(view'[t][n + 1], t, u)
      BY <1>0 DEF ViewSound, SeenIn, Done, OnlyWriter
    <2>1. CASE t # c
      BY <1>4, <2>1 DEF ViewSound
    <2>2. CASE t = c /\ n = r.attempt
      <3>1. n + 1 \in DOMAIN view'[t] /\ view'[t][n + 1] = filled' \cap CellsOf(args[t].place)
        BY <1>3, <1>4, <2>2
      <3>2. ~args[t].reads => SeenIn(view'[t][n + 1], t, t)
        BY <1>3, <1>11, <2>2, <3>1 DEF SeenIn
      <3>3. ASSUME NEW u \in earlier[t], args[t].reads, ~args[u].reads, Done(u), OnlyWriter(u)
            PROVE  SeenIn(view'[t][n + 1], t, u)
        <4>1. u \in Calls /\ effects[u] # {}
          BY <3>3, LandedAsked DEF ToolTypeOK
        <4>2. On(args[u]) \subseteq filled /\ Off(args[u]) \cap filled = {} /\ filled' = filled
          BY <1>3, <1>10, <2>2, <3>3, <4>1 DEF FilledSound
        <4>3. QED
          BY <3>1, <4>2 DEF SeenIn
      <3>4. QED
        BY <3>1, <3>2, <3>3
    <2>3. CASE t = c /\ n # r.attempt
      <3>1. n \in effects[t] /\ n \in Nat
        BY <1>0, <1>3, <1>4, <2>3
      <3>2. n + 1 # r.attempt + 1 /\ n + 1 \in DOMAIN view[t]
        BY <1>0, <2>3, <3>1, SMT DEF ViewSound
      <3>3. n + 1 \in DOMAIN view'[t] /\ view'[t][n + 1] = view[t][n + 1]
        BY <1>4, <2>3, <3>2
      <3>4. QED
        BY <3>1, <3>3 DEF ViewSound
    <2>4. QED
      BY <2>1, <2>2, <2>3
  <1>14. QED
    BY <1>5, <1>6, <1>7, <1>8, <1>9, <1>12, <1>13

LEMMA StutterKeeps ==
    ASSUME IInv, UNCHANGED <<toolVars, agentVars, answer, issued, effects>>
    PROVE  ToolInv'
  BY QuietStepKeeps DEF toolVars, IInv, ToolInv, ToolTypeOK

LEMMA NextKeeps == IInv /\ [Next]_vars => IInv'
  <1> SUFFICES ASSUME IInv, [Next]_vars
               PROVE  IInv'
    OBVIOUS
  <1>1. RemoteInv'
    BY StepIsRemote, RemoteStep DEF vars, remoteVars, IInv
  <1>2. ToolInv'
    <2>1. CASE UNCHANGED vars
      BY <2>1, StutterKeeps DEF vars, remoteVars
    <2>2. ASSUME NEW r \in pending, Lost(r)
          PROVE  ToolInv'
      BY <2>2, StutterKeeps DEF Lost, Lose, toolVars, agentVars
    <2>3. QED
      BY <2>1, <2>2, BeginKeeps, SayKeeps, CallingKeeps, LandsKeeps DEF Next, AllReported
  <1>3. QED
    BY <1>1, <1>2 DEF IInv

\* The inductive invariant of the tools that write with a single call.
THEOREM Inductive == Spec => []IInv
  BY Start, NextKeeps, PTL DEF Spec

-----------------------------------------------------------------------------
\* Types, for any arguments.
THEOREM TypeCorrect == Spec => []TypeOK
  <1>1. IInv => TypeOK
    BY DEF IInv, ToolInv, RemoteInv, TypeOK, ToolTypeOK
  <1>2. QED
    BY <1>1, Inductive, PTL

\* Of two successive calls the second stands, be it a clear or a write, if the
\* first was not retried.
THEOREM LaterStands == Spec => []LaterCallStands
  <1>1. IInv => LaterCallStands
    BY LandedAsked DEF IInv, ToolInv, LaterSound, LaterCallStands, Quiet, Done
  <1>2. QED
    BY <1>1, Inductive, PTL

\* Calls that give voice and say_voice together keep them together, however
\* many calls there are, late or repeated.
THEOREM VoicesStayPaired == Spec => []VoicesPaired
  <1>1. IInv => VoicesPaired
    BY DEF IInv, ToolInv, VoicesSound, VoicesPaired
  <1>2. QED
    BY <1>1, Inductive, PTL

\* Nothing is written that no call named.
THEOREM OmittedStays == Spec => []OmittedKept
  <1>1. IInv => OmittedKept
    BY DEF IInv, ToolInv, WriterSound, OmittedKept
  <1>2. QED
    BY <1>1, Inductive, PTL

\* The answer of a write, and that of a getter after it, show what was written,
\* if no other call interferes.
THEOREM AnswersShow == Spec => []AnswerShowsChange
  <1>1. IInv => AnswerShowsChange
    <2> SUFFICES ASSUME IInv, NEW t \in Calls, NEW u \in Calls, Done(t), Done(u), ~args[u].reads,
                        t = u \/ (args[t].reads /\ u \in earlier[t] /\ Alone(u, t))
                 PROVE  Shows(t, u)
      BY DEF AnswerShowsChange
    <2> USE DEF IInv, ToolInv
    <2>1. Last(t) \in effects[t] /\ Last(t) + 1 = issued[t]
      BY SMT DEF RemoteInv, AnswerSound, Answered, Answers, Truthful, Last, RemoteTypeOK, Done
    <2>2. t # u => OnlyWriter(u)
      BY DEF OnlyWriter, Alone
    <2>3. SeenIn(view[t][issued[t]], t, u)
      BY <2>1, <2>2 DEF ViewSound
    <2>4. QED
      BY <2>3 DEF SeenIn, Shows
  <1>2. QED
    BY <1>1, Inductive, PTL
=============================================================================
