-------------------------- MODULE MCAgentSettings ---------------------------
(***************************************************************************)
(* Two tool calls, either of which may come first, and one of them issued  *)
(* up to twice: enough for a late duplicate and for a write overtaken by a *)
(* clear.  The arguments are those that meet on the Twilio section, and    *)
(* one of each other kind.                                                 *)
(***************************************************************************)
EXTENDS AgentSettings

CONSTANTS t1, t2

MCCalls == {t1, t2}
MCLimit == [c \in Calls |-> IF c = t1 THEN 2 ELSE 1]

Tool(place, reads, on, off, fits) ==
    [place |-> place, reads |-> reads, fits |-> fits,
     given |-> [k \in CellsOf(place) |->
                    IF k[2] \in on THEN "on" ELSE IF k[2] \in off THEN "off" ELSE "omitted"]]

Set(place, on, off) == Tool(place, FALSE, on, off, TRUE)

MCTwilioKeys == {"enabled", "voice", "say_voice"}
MCConnectorTools == {"search"}

MCArguments ==
    {Set("twilio", {"voice", "say_voice"}, {}), Set("twilio", {"voice"}, {"say_voice"}),
     Set("twilio", {}, {}),
     Set("data", {}, {"twilio"}),
     Set("shown", {"twilio"}, {"teams"}),
     Tool("draft", FALSE, {"name"}, {}, FALSE),
     Set("connector", {}, {"search"}),
     Set("skill", {"files"}, {}),
     Tool("connector", TRUE, {}, {}, FALSE),
     Tool("twilio", TRUE, {}, {}, TRUE)}
=============================================================================
