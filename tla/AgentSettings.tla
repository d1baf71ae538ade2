--------------------------- MODULE AgentSettings ----------------------------
(***************************************************************************)
(* The tools that write settings of one agent with a single call each:     *)
(* sop_author.py, twilio_tenant_config.py, the switches of connectors.py   *)
(* and, of skills.py, all but the creation of a skill.                     *)
(*                                                                         *)
(* Each has its own endpoint and its own idea of a partial write, but they *)
(* meet on the same settings: clear_sop_section destroys what the switches *)
(* and the Twilio tool have written, and a PATCH after it creates the      *)
(* Twilio record anew.  All leave the retries at their default, so every   *)
(* request may arrive again, or late: see RemoteCall.                      *)
(***************************************************************************)
EXTENDS RemoteCall

CONSTANTS TwilioKeys,     \* the keys of the tenant configuration (nineteen)
          ConnectorTools, \* the tools of a connector
          Arguments,      \* what the tools may be invoked with
          Stored          \* the writer of what is there to begin with

ASSUME TwilioAssumption == {"voice", "say_voice"} \subseteq TwilioKeys

(***************************************************************************)
(* The settings of the agent, as pairs of a place and a key:               *)
(* draft      the fields of the SOP draft; there is a text or there is none*)
(* shown      the section switches                                         *)
(* data       the record behind a section                                  *)
(* twilio     a key of the configuration; unset is the channel's default   *)
(* connector  a tool; off is an entry in the list of exceptions            *)
(* skill      the files of a private skill, and whether it is on           *)
(***************************************************************************)
Draft == {"name", "source", "purpose", "dataSources", "procedure"}

Switches == {"permissions", "teams", "twilio", "orgChart"}

Sections == {"evaluation", "humanInLoop", "teams", "twilio", "orgChart"}

Places == {"draft", "shown", "data", "twilio", "connector", "skill"}

KeysOf(place) ==
    CASE place = "draft" -> Draft
      [] place = "shown" -> Switches
      [] place = "data" -> Sections
      [] place = "twilio" -> TwilioKeys
      [] place = "connector" -> ConnectorTools
      [] place = "skill" -> {"files", "enabled"}

CellsOf(place) == {place} \X KeysOf(place)

Cells == UNION {CellsOf(place) : place \in Places}

(***************************************************************************)
(* place  the endpoint the tool talks to                                   *)
(* reads  whether it is the getter                                         *)
(* given  the cells named: "on" is a value, a text or true, "off" null, an *)
(*        empty list, false or a deletion; the others are omitted          *)
(* fits   whether the rest of the arguments is acceptable: ids and files   *)
(*        not empty, a name of at most sixty characters once stripped      *)
(***************************************************************************)
Given == {"omitted", "on", "off"}

SettingArguments ==
    UNION {[place : {place}, reads : BOOLEAN, given : [CellsOf(place) -> Given], fits : BOOLEAN] :
           place \in Places}

ASSUME SettingAssumption == Arguments \subseteq SettingArguments

Named(a) == {k \in DOMAIN a.given : a.given[k] # "omitted"}

On(a) == {k \in DOMAIN a.given : a.given[k] = "on"}

Off(a) == {k \in DOMAIN a.given : a.given[k] = "off"}

VARIABLES args,    \* args[c]: what tool call c was invoked with
          reply,   \* reply[c]: the kind of answer it gave
          earlier, \* earlier[c]: the tool calls that were over when c began
          filled,  \* the cells that hold something, are shown or are on
          writer,  \* writer[k]: the tool call that last wrote cell k
          view     \* view[c][n]: filled, as the platform answers issue n of c

toolVars == <<args, reply, earlier>>
agentVars == <<filled, writer, view>>
vars == <<remoteVars, toolVars, agentVars>>

NoArguments ==
    [place |-> "shown", reads |-> TRUE, given |-> [k \in CellsOf("shown") |-> "omitted"], fits |-> TRUE]

TwilioRecord == <<"data", "twilio">>

Init ==
    /\ RemoteInit
    /\ args = [c \in Calls |-> NoArguments]
    /\ reply = [c \in Calls |-> "none"]
    /\ earlier = [c \in Calls |-> {}]
    /\ filled \in {Cells, Cells \ (CellsOf("shown") \cup CellsOf("twilio") \cup CellsOf("data"))}
    /\ writer = [k \in Cells |-> Stored]
    /\ view = [c \in Calls |-> <<>>]

-----------------------------------------------------------------------------
(* What the tools make of their arguments.                                 *)

(* Twilio wants a key to change and the switches of a connector a tool;    *)
(* the section switches are sent even if none is given.  Of the getters    *)
(* only that of the connector tools checks what it is given.               *)
Rejected(a) ==
    \/ ~a.fits /\ (a.reads => a.place = "connector")
    \/ ~a.reads /\ a.place \in {"twilio", "connector"} /\ Named(a) = {}

(* Forms a mistake could take stand before the operator they would replace;*)
(* nothing else uses them.  Here what is null or false is left out ...     *)
BodyTruthy(a) == [k \in On(a) |-> "on"]

(* ... and here None is the default, so that omitted is null.              *)
BodyNoneDefault(a) == [k \in DOMAIN a.given |-> IF a.given[k] = "on" THEN "on" ELSE "off"]

(* The body has the keys that were given and no others.                    *)
Body(a) == [k \in Named(a) |-> a.given[k]]

Fresh(c) == answer[c] = "unasked" /\ reply[c] = "none"

Begin(c, a) ==
    /\ Fresh(c)
    /\ args' = [args EXCEPT ![c] = a]
    /\ earlier' = [earlier EXCEPT ![c] = {d \in Calls : reply[d] # "none"}]

Reject(c, a) ==
    /\ Rejected(a)
    /\ Begin(c, a)
    /\ reply' = [reply EXCEPT ![c] = "rejected"]
    /\ UNCHANGED <<remoteVars, agentVars>>

Submit(c, a) ==
    /\ ~Rejected(a)
    /\ Begin(c, a)
    /\ Ask(c)
    /\ UNCHANGED <<reply, agentVars>>

IsSwitch(a) == ~a.reads /\ (a.place = "connector" \/ <<"skill", "enabled">> \in Named(a))

(* success:false is looked for by the switches of connectors and skills    *)
(* and handed on as a result by all others; so is None, and a page of text.*)
MayBeEnvelope(c) ==
    \/ answer[c] \in Errors
    \/ answer[c] = "declined" /\ IsSwitch(args[c])

MayBeResult(c) == answer[c] \notin Errors

Say(c, kind) ==
    /\ reply[c] = "none"
    /\ reply' = [reply EXCEPT ![c] = kind]
    /\ UNCHANGED <<remoteVars, args, earlier, agentVars>>

(* The tool answers without waiting for the platform.                      *)
ReportEarly(c) == issued[c] > 0 /\ Say(c, "result")

(* What was raised is handed on as it is.                                  *)
ReportRaw(c) ==
    /\ Answered(c)
    /\ Say(c, IF answer[c] \in Errors THEN answer[c] ELSE "result")

Report(c) ==
    /\ Answered(c)
    /\ \/ MayBeEnvelope(c) /\ Say(c, "envelope")
       \/ MayBeResult(c) /\ Say(c, "result")

-----------------------------------------------------------------------------
(* The platform.                                                           *)

(* Clearing a section destroys its record and hides it; Twilio's keys are  *)
(* part of its record.                                                     *)
Wiped(k) ==
    IF k[1] # "data" THEN {k}
    ELSE {k} \cup {s \in CellsOf("shown") : s[2] = k[2]}
             \cup (IF k = TwilioRecord THEN CellsOf("twilio") ELSE {})

Fills(a) == IF a.reads THEN {} ELSE {k \in DOMAIN Body(a) : Body(a)[k] = "on"}

Empties(a) ==
    IF a.reads THEN {} ELSE UNION {Wiped(k) : k \in {j \in DOMAIN Body(a) : Body(a)[j] = "off"}}

Touches(a) == Fills(a) \cup Empties(a)

(* created:true -- a PATCH that finds no Twilio record makes one.          *)
Seeds(a) == IF a.place = "twilio" /\ ~a.reads THEN {TwilioRecord} \ filled ELSE {}

Lands(r) ==
    LET c == r.call
        a == args[c]
    IN  /\ Land(r)
        /\ filled' = (filled \ Empties(a)) \cup Fills(a) \cup Seeds(a)
        /\ writer' = [k \in Cells |-> IF k \in Touches(a) \cup Seeds(a) THEN c ELSE writer[k]]
        /\ view' = [view EXCEPT ![c] =
                [n \in DOMAIN @ \cup {r.attempt + 1} |->
                    IF n = r.attempt + 1 THEN filled' \cap CellsOf(a.place) ELSE @[n]]]
        /\ UNCHANGED toolVars

Lost(r) == Lose(r) /\ UNCHANGED <<toolVars, agentVars>>

Conclude(c) == GiveUp(c) \/ \E a \in Answers : Return(c, a)

Calling(c) == (Issue(c) \/ Skip(c) \/ Conclude(c)) /\ UNCHANGED <<toolVars, agentVars>>

AllReported ==
    /\ \A c \in Calls : reply[c] # "none"
    /\ pending = {}
    /\ UNCHANGED vars

Next ==
    \/ \E c \in Calls : \/ \E a \in Arguments : Reject(c, a) \/ Submit(c, a)
                        \/ Report(c)
                        \/ Calling(c)
    \/ \E r \in pending : Lands(r) \/ Lost(r)
    \/ AllReported

Spec == Init /\ [][Next]_vars

-----------------------------------------------------------------------------
(* Properties.                                                             *)

\* Every variable has its type.
TypeOK ==
    /\ RemoteTypeOK
    /\ args \in [Calls -> SettingArguments]
    /\ reply \in [Calls -> {"none", "rejected", "envelope", "result"}]
    /\ earlier \in [Calls -> SUBSET Calls]
    /\ filled \subseteq Cells
    /\ writer \in [Cells -> Calls \cup {Stored}]

Done(c) == answer[c] = "good"

\* Of two calls made one after the other, both reported done, the first cannot
\* undo the second if it was answered at its first issue: what was configured
\* after a section was cleared is not cleared by it, and what was cleared after
\* it was configured does not come back.  (With a retry it can: the duplicate.)
LaterCallStands ==
    \A t, u \in Calls :
        t \in earlier[u] /\ Done(t) /\ issued[t] = 1 /\ Done(u)
            => \A k \in Touches(args[t]) \cap Touches(args[u]) : writer[k] # t

Voices == {<<"twilio", "voice">>, <<"twilio", "say_voice">>}

Paired(a) == a.place = "twilio" /\ ~a.reads => Voices \cap Named(a) \in {{}, Voices}

\* If every Twilio call gives voice and say_voice together or neither, the two
\* always come from the same call, whatever lands late or twice and whatever is
\* cleared in between ("whole row, never just one": otherwise a call sounds like
\* two people).
VoicesPaired ==
    (\A c \in Calls : Paired(args[c])) => \A j, k \in Voices : writer[j] = writer[k]

\* A call never writes a cell it was not asked to: an omitted key, switch or
\* tool keeps the value it had.  Beyond what it names, a clear takes the rest of
\* the section with it, and a Twilio call may create the record.
OmittedKept ==
    \A k \in Cells :
        writer[k] # Stored =>
            LET a == args[writer[k]] IN
            /\ ~a.reads
            /\ \/ k \in UNION {Wiped(j) : j \in Named(a)}
               \/ a.place = "twilio" /\ k = TwilioRecord

Alone(u, t) == \A d \in Calls \ {t, u} : answer[d] = "unasked"

(* What the answer of t shows of the cells named by u is what u asked for. *)
Shows(t, u) ==
    LET cells == CellsOf(args[t].place)
    IN  /\ On(args[u]) \cap cells \subseteq view[t][issued[t]]
        /\ Off(args[u]) \cap view[t][issued[t]] = {}

\* The answer of a write shows what the write asked for ("returns all four
\* booleans after the change"), and a getter called after a write was reported
\* shows it too, however often either was sent, if no other call interferes.
AnswerShowsChange ==
    \A t, u \in Calls :
        /\ Done(t) /\ Done(u)
        /\ ~args[u].reads
        /\ t = u \/ (args[t].reads /\ u \in earlier[t] /\ Alone(u, t))
        => Shows(t, u)
=============================================================================
