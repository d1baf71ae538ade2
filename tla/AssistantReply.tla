--------------------------- MODULE AssistantReply ---------------------------
(***************************************************************************)
(* How mspbotsagent_chat_with_sop (tools/sops.py) reads the output of a    *)
(* run: a failure, the actions a pause waits for, and the reply, which     *)
(* _last_assistant_text looks for from the end of the messages, behind     *)
(* those of the user, of tools, of internal steps, and the empty ones.     *)
(***************************************************************************)
EXTENDS Naturals, Sequences

CONSTANT Outputs \* the outputs a run may have

(***************************************************************************)
(* A message, as far as it is looked at.  A text is one part, a list its   *)
(* parts, any other content none; what is not a dict is from "nobody".     *)
(* hidden is a name or lc_source the user interface does not show.         *)
(***************************************************************************)
Message == [from : {"type_ai", "role_assistant", "other", "nobody"}, hidden : BOOLEAN,
            parts : SUBSET {"words", "blank", "no_text"}]

(***************************************************************************)
(* error       whether there is an __error__ that is a dict                *)
(* interrupts  for each entry of __interrupt__ what its action_requests    *)
(*             are; an entry that has no such list has an empty one        *)
(* What is no dict at all has no error, no message and no interrupt.       *)
(***************************************************************************)
Output == [error : BOOLEAN, messages : Seq(Message), interrupts : Seq(Seq({"dict", "other"}))]

ASSUME OutputsAssumption == Outputs \subseteq Output

VARIABLES output,   \* the output of the run
          scanning, \* where the reading is
          at,       \* the message the scan is at
          paused,   \* the requests the pause waits for
          chosen,   \* the message chosen as the reply, 0 if none
          status    \* the status reported

readingVars == <<output, scanning, at, paused, chosen, status>>

ReadingInit ==
    /\ output \in Outputs
    /\ scanning = "start"
    /\ at = 0
    /\ paused = {}
    /\ chosen = 0
    /\ status = "none"

-----------------------------------------------------------------------------
(* Forms a mistake could take stand before the operator they would replace;*)
(* nothing else uses them.  Here the end of the list is one too far ...    *)
LastIndexBeyond(o) == Len(o.messages) + 1

LastIndex(o) == Len(o.messages)

(* ... here a text of blanks counts as one ...                             *)
HasTextUnstripped(m) == m.parts \cap {"words", "blank"} # {}

(* The texts of the parts are joined and stripped.                         *)
HasText(m) == "words" \in m.parts

Visible(m) == m.from \in {"type_ai", "role_assistant"} /\ ~m.hidden /\ HasText(m)

(* Only the first interrupt is looked at.                                  *)
PausedActions(o) ==
    IF o.interrupts = <<>> THEN {}
    ELSE {i \in DOMAIN o.interrupts[1] : o.interrupts[1][i] = "dict"}

(* ... and here a run with something to say cannot be paused.              *)
StatusReplyFirst(waiting, said) ==
    IF said # 0 THEN "completed" ELSE IF waiting # {} THEN "interrupted" ELSE "no_reply"

StatusOf(waiting, said) ==
    IF waiting # {} THEN "interrupted" ELSE IF said # 0 THEN "completed" ELSE "no_reply"

ReportError ==
    /\ scanning = "start"
    /\ output.error
    /\ scanning' = "told"
    /\ status' = "run_failed"
    /\ UNCHANGED <<output, at, paused, chosen>>

ReadPause ==
    /\ scanning = "start"
    /\ ~output.error
    /\ paused' = PausedActions(output)
    /\ at' = LastIndex(output)
    /\ scanning' = "scan"
    /\ UNCHANGED <<output, chosen, status>>

PassOver ==
    /\ scanning = "scan"
    /\ at > 0
    /\ ~Visible(output.messages[at])
    /\ at' = at - 1
    /\ UNCHANGED <<output, scanning, paused, chosen, status>>

(* A visible message, or none is left.                                     *)
Tell ==
    /\ scanning = "scan"
    /\ at > 0 => Visible(output.messages[at])
    /\ chosen' = at
    /\ status' = StatusOf(paused, at)
    /\ scanning' = "told"
    /\ UNCHANGED <<output, at, paused>>

Told == scanning = "told" /\ UNCHANGED readingVars

ReadingNext == ReportError \/ ReadPause \/ PassOver \/ Tell \/ Told

ReadingSpec == ReadingInit /\ [][ReadingNext]_readingVars

-----------------------------------------------------------------------------
(* Properties.                                                             *)

\* Every variable has its type; the scan stays inside the list.
ReadingTypeOK ==
    /\ output \in Outputs
    /\ scanning \in {"start", "scan", "told"}
    /\ at \in 0..Len(output.messages)
    /\ paused \subseteq Nat
    /\ chosen \in 0..Len(output.messages)
    /\ status \in {"none", "run_failed", "interrupted", "completed", "no_reply"}

(* What the user interface shows as said by the assistant (README: scan    *)
(* backwards for type=ai or role=assistant, skipping what the UI hides).   *)
Spoken ==
    {i \in 1..Len(output.messages) :
        /\ output.messages[i].from \notin {"other", "nobody"}
        /\ output.messages[i].hidden = FALSE
        /\ "words" \in output.messages[i].parts}

\* The reply is the last thing the assistant is shown to have said, and is empty
\* only if it said nothing: no internal, blank or foreign message is taken for
\* it, whatever stands behind it.
ReplyIsLastSpoken ==
    scanning = "told" /\ status # "run_failed" =>
        /\ chosen = 0 => Spoken = {}
        /\ chosen # 0 => chosen \in Spoken
        /\ \A i \in Spoken : i <= chosen

(* A request for approval in the first interrupt.                          *)
Waiting ==
    output.interrupts # <<>> /\ \E i \in DOMAIN output.interrupts[1] : output.interrupts[1][i] = "dict"

\* The status says which it is: a failure goes before everything; a run that
\* waits for an approval is never called completed, even if it has spoken; and
\* no_reply is said only of one that has not spoken and does not wait.
StatusTells ==
    scanning = "told" =>
        CASE status = "run_failed"  -> output.error
          [] status = "interrupted" -> Waiting /\ ~output.error
          [] status = "completed"   -> ~Waiting /\ Spoken # {} /\ ~output.error
          [] status = "no_reply"    -> ~Waiting /\ Spoken = {} /\ ~output.error
          [] OTHER                  -> FALSE
=============================================================================
