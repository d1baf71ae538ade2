---------------------------- MODULE MCApiClient -----------------------------
(***************************************************************************)
(* Two calls that overlap: one with the default of three retries, one with *)
(* retries=0 (the blocking run of a SOP).  The responses are one of each   *)
(* kind the client tells apart, with Retry-After headers that are          *)
(* negative, small and beyond the cap.                                     *)
(***************************************************************************)
EXTENDS ApiClient, TLC

CONSTANTS c1, c2, None

Answer(status, content) == [status |-> status, content |-> content, hinted |-> FALSE, hint |-> 0]

WithRetryAfter(status, content, seconds) ==
    [status |-> status, content |-> content, hinted |-> TRUE, hint |-> seconds]

MCCalls == {c1, c2}
MCRetriesArg == (c1 :> None) @@ (c2 :> 0)
MCOneCall == {c1}
MCOneRetriesArg == (c1 :> None)

(* Enough to tell the retry decisions apart.                               *)
MCFewResponses ==
    {Answer(200, "data"), Answer(404, "data"), Answer(504, "text")}

MCResponses == MCFewResponses \cup
    {Answer(204, "empty"), Answer(200, "failure"), Answer(200, "text"), Answer(401, "empty"),
     Answer(501, "data"), WithRetryAfter(429, "data", -5), WithRetryAfter(503, "empty", 60)}
=============================================================================
