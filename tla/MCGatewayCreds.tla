--------------------------- MODULE MCGatewayCreds ---------------------------
(***************************************************************************)
(* Three requests; two tenants, each with a complete set of headers, one   *)
(* of them under the legacy name, and one request of every incomplete or   *)
(* unchecked kind.                                                         *)
(***************************************************************************)
EXTENDS GatewayCreds

CONSTANTS r1, r2, r3, keyA, keyB, tenantA, tenantB, host

MCRequests == {r1, r2, r3}

MCValues == {keyA, keyB, tenantA, tenantB, host, Missing, Empty}

With(mcp, key, legacy, tenant, at) ==
    [mcp |-> mcp, apiKey |-> key, legacy |-> legacy, tenant |-> tenant, host |-> at]

MCInbound ==
    {With(TRUE, keyA, keyB, tenantA, host),
     With(TRUE, Empty, keyB, tenantB, host),
     With(TRUE, Missing, Empty, tenantB, host),
     With(TRUE, keyB, Missing, Missing, host),
     With(FALSE, keyB, Missing, tenantB, host)}
=============================================================================
