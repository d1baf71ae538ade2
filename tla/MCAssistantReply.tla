-------------------------- MODULE MCAssistantReply --------------------------
(***************************************************************************)
(* Up to three messages of every kind that is passed over for a different  *)
(* reason, two that are not, and pauses that can and cannot be read.       *)
(***************************************************************************)
EXTENDS AssistantReply

Say(from, hidden, parts) == [from |-> from, hidden |-> hidden, parts |-> parts]

MCMessages ==
    {Say("type_ai", FALSE, {"words"}), Say("role_assistant", FALSE, {"words", "no_text"}),
     Say("type_ai", TRUE, {"words"}), Say("type_ai", FALSE, {"blank"}),
     Say("other", FALSE, {"words"}), Say("nobody", FALSE, {})}

MCInterrupts ==
    {<<>>, << <<>> >>, << <<"other">> >>, << <<"other", "dict">> >>, << <<>>, <<"dict">> >>}

MCOutputs ==
    [error : {FALSE}, messages : UNION {[1..n -> MCMessages] : n \in 0..3}, interrupts : MCInterrupts]
    \cup [error : {TRUE}, messages : {<<>>, <<Say("type_ai", FALSE, {"words"})>>}, interrupts : MCInterrupts]
=============================================================================
