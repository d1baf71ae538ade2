----------------------------- MODULE MCSopChat ------------------------------
(***************************************************************************)
(* A message sent up to three times.  The lookup of the SOP is tried once: *)
(* its retries change nothing on the platform.                             *)
(***************************************************************************)
EXTENDS SopChat

MCCalls == [of : Turns, part : {"sop", "run"}]
MCLimit == [c \in MCCalls |-> IF c.part = "run" THEN ChatRetries + 1 ELSE 1]
=============================================================================
