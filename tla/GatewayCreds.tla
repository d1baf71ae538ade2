---------------------------- MODULE GatewayCreds ----------------------------
(***************************************************************************)
(* GatewayTokenMiddleware and get_client_from_context (server.py): the     *)
(* credentials of an inbound request travel to the tool that serves it in  *)
(* a context variable.  Every asyncio task has its own copy of the         *)
(* context, taken from its creator, so what a request's tools see depends  *)
(* on who created which task when, and on what was set at that moment.     *)
(*                                                                         *)
(*   connection --creates--> ASGI task of a request (runs the middleware)  *)
(*   ASGI task  --creates--> tool task (runs the tool; stateless_http)     *)
(*                                                                         *)
(* The tool task outlives the request when the caller hangs up.            *)
(***************************************************************************)
CONSTANTS Requests, \* inbound HTTP requests
          Values,   \* values a header may have
          Missing,  \* the header is not there
          Empty,    \* the header is there and empty
          Inbound   \* the header sets requests may come with

(***************************************************************************)
(* mcp says whether the path starts with /mcp.                             *)
(***************************************************************************)
HeaderSet == [mcp : BOOLEAN, apiKey : Values, legacy : Values, tenant : Values, host : Values]

Nonempty == Values \ {Missing, Empty}

Credentials == [token : Nonempty, host : Nonempty, tenant : Nonempty]

ASSUME InboundAssumption == Inbound \subseteq HeaderSet

VARIABLES stage,   \* stage[r]: how far the ASGI task of r has got
          headers, \* headers[r]: what r came with
          ctx,     \* ctx[r]: the context variable in the ASGI task of r
          saved,   \* saved[r]: the value ctx_token remembers for reset
          job,     \* job[r]: the state of the tool task of r
          jobCtx,  \* jobCtx[r]: the context variable in the tool task of r
          client,  \* client[r]: what the AgentClient of r's tool holds
          sent     \* the requests sent to the platform: who, with what

vars == <<stage, headers, ctx, saved, job, jobCtx, client, sent>>

NoCreds == [token |-> Missing, host |-> Missing, tenant |-> Missing]

NoHeaders == [mcp |-> FALSE, apiKey |-> Missing, legacy |-> Missing,
              tenant |-> Missing, host |-> Missing]

-----------------------------------------------------------------------------
(* What the middleware reads from the headers.                             *)

Given(v) == v \notin {Missing, Empty}

Token(h) == IF Given(h.apiKey) THEN h.apiKey ELSE h.legacy

(* Forms a mistake could take stand before the operator they would replace;*)
(* nothing else uses them.  Here the tenant is not asked for.              *)
CompleteNoTenant(h) == Given(Token(h)) /\ Given(h.host)

Complete(h) == Given(Token(h)) /\ Given(h.tenant) /\ Given(h.host)

CredsOf(h) == [token |-> Token(h), host |-> h.host, tenant |-> h.tenant]

Init ==
    /\ stage = [r \in Requests |-> "none"]
    /\ headers = [r \in Requests |-> NoHeaders]
    /\ ctx = [r \in Requests |-> NoCreds]
    /\ saved = [r \in Requests |-> NoCreds]
    /\ job = [r \in Requests |-> "none"]
    /\ jobCtx = [r \in Requests |-> NoCreds]
    /\ client = [r \in Requests |-> NoCreds]
    /\ sent = {}

(* uvicorn starts an ASGI task: on a new connection in the server's own    *)
(* context, on a pipelined one from within the response of the request     *)
(* before it, hence in the context of that request's task.                 *)
Arrive(r, h, inherited) ==
    /\ stage[r] = "none"
    /\ stage' = [stage EXCEPT ![r] = "arrived"]
    /\ headers' = [headers EXCEPT ![r] = h]
    /\ ctx' = [ctx EXCEPT ![r] = inherited]
    /\ UNCHANGED <<saved, job, jobCtx, client, sent>>

InServerContext(r, h) == Arrive(r, h, NoCreds)

Pipelined(r, h, before) ==
    /\ stage[before] \in {"inside", "outside"}
    /\ Arrive(r, h, ctx[before])

(* Not an /mcp path: the inner application runs, the variable is as it was.*)
PassThrough(r) ==
    /\ stage[r] = "arrived"
    /\ ~headers[r].mcp
    /\ stage' = [stage EXCEPT ![r] = "outside"]
    /\ UNCHANGED <<headers, ctx, saved, job, jobCtx, client, sent>>

Reject(r) ==
    /\ stage[r] = "arrived"
    /\ headers[r].mcp
    /\ ~Complete(headers[r])
    /\ stage' = [stage EXCEPT ![r] = "rejected"]
    /\ UNCHANGED <<headers, ctx, saved, job, jobCtx, client, sent>>

(* What the task has inherited is taken for its own.                       *)
SetCredsOnce(r) ==
    /\ ctx' = IF ctx[r] = NoCreds THEN [ctx EXCEPT ![r] = CredsOf(headers[r])] ELSE ctx
    /\ saved' = [saved EXCEPT ![r] = ctx[r]]

SetCreds(r) ==
    /\ ctx' = [ctx EXCEPT ![r] = CredsOf(headers[r])]
    /\ saved' = [saved EXCEPT ![r] = ctx[r]]

Accept(r) ==
    /\ stage[r] = "arrived"
    /\ headers[r].mcp
    /\ Complete(headers[r])
    /\ SetCreds(r)
    /\ stage' = [stage EXCEPT ![r] = "inside"]
    /\ UNCHANGED <<headers, job, jobCtx, client, sent>>

(* The inner application returns or is cancelled; the finally resets.      *)
Leave(r) ==
    /\ stage[r] = "inside"
    /\ stage' = [stage EXCEPT ![r] = "closed"]
    /\ ctx' = [ctx EXCEPT ![r] = saved[r]]
    /\ UNCHANGED <<headers, saved, job, jobCtx, client, sent>>

LeaveOutside(r) ==
    /\ stage[r] = "outside"
    /\ stage' = [stage EXCEPT ![r] = "closed"]
    /\ UNCHANGED <<headers, ctx, saved, job, jobCtx, client, sent>>

-----------------------------------------------------------------------------
(* The tool task.                                                          *)

(* Only /mcp leads to the session manager, which starts a server task for  *)
(* this one request from within it.                                        *)
StartJob(r) ==
    /\ stage[r] = "inside"
    /\ job[r] = "none"
    /\ job' = [job EXCEPT ![r] = "started"]
    /\ jobCtx' = [jobCtx EXCEPT ![r] = ctx[r]]
    /\ UNCHANGED <<stage, headers, ctx, saved, client, sent>>

(* client_factory(): a client, or None and the tool answers NO_TOKEN.      *)
MakeClient(r) ==
    /\ job[r] = "started"
    /\ job' = [job EXCEPT ![r] = IF jobCtx[r] = NoCreds THEN "finished" ELSE "running"]
    /\ client' = [client EXCEPT ![r] = jobCtx[r]]
    /\ UNCHANGED <<stage, headers, ctx, saved, jobCtx, sent>>

(* One request to the platform: every tool call, guard read and retry.     *)
CallPlatform(r) ==
    /\ job[r] = "running"
    /\ sent' = sent \cup {[by |-> r, creds |-> client[r]]}
    /\ UNCHANGED <<stage, headers, ctx, saved, job, jobCtx, client>>

EndJob(r) ==
    /\ job[r] = "running"
    /\ job' = [job EXCEPT ![r] = "finished"]
    /\ UNCHANGED <<stage, headers, ctx, saved, jobCtx, client, sent>>

AllServed ==
    /\ \A r \in Requests : stage[r] \in {"closed", "rejected"} /\ job[r] \in {"none", "finished"}
    /\ UNCHANGED vars

Next ==
    \/ \E r \in Requests :
        \/ \E h \in Inbound : \/ InServerContext(r, h)
                              \/ \E before \in Requests : Pipelined(r, h, before)
        \/ PassThrough(r) \/ Reject(r) \/ Accept(r) \/ Leave(r) \/ LeaveOutside(r)
        \/ StartJob(r) \/ MakeClient(r) \/ CallPlatform(r) \/ EndJob(r)
    \/ AllServed

Spec == Init /\ [][Next]_vars

-----------------------------------------------------------------------------
(* Properties.                                                             *)

\* Every variable has its type: the context variable holds None or three
\* non-empty strings, never a part of them.
TypeOK ==
    /\ stage \in [Requests -> {"none", "arrived", "rejected", "inside", "outside", "closed"}]
    /\ headers \in [Requests -> Inbound \cup {NoHeaders}]
    /\ ctx \in [Requests -> Credentials \cup {NoCreds}]
    /\ saved \in [Requests -> Credentials \cup {NoCreds}]
    /\ job \in [Requests -> {"none", "started", "running", "finished"}]
    /\ jobCtx \in [Requests -> Credentials \cup {NoCreds}]
    /\ client \in [Requests -> Credentials \cup {NoCreds}]
    /\ sent \subseteq [by : Requests, creds : Credentials \cup {NoCreds}]

\* Tenant isolation: whatever requests run at the same time, however their
\* tasks inherit one another's context and whoever has left by then, the
\* platform is only ever called with the credentials of the request it is
\* called for (the comment above _gateway_creds_var and the one in api_client.py
\* above _http_client both rest on it).
Isolation ==
    \A s \in sent : s.creds = CredsOf(headers[s.by])

\* The platform is called only on behalf of an /mcp request that brought a key,
\* a tenant and a host of its own: one that was turned away with 401 or passed
\* through unchecked never acts on what its task inherited from another.
OnlyComplete ==
    \A s \in sent :
        LET h == headers[s.by]
        IN  h.mcp /\ Given(h.tenant) /\ Given(h.host) /\ (Given(h.apiKey) \/ Given(h.legacy))

(* The invariant Isolation rests on.                                       *)
HeadersSound ==
    \A r \in Requests :
        stage[r] = "inside" => /\ headers[r].mcp
                               /\ Complete(headers[r])
                               /\ ctx[r] = CredsOf(headers[r])

JobSound ==
    \A r \in Requests : job[r] # "none" =>
        /\ stage[r] \in {"inside", "closed"}
        /\ headers[r].mcp
        /\ Complete(headers[r])
        /\ jobCtx[r] = CredsOf(headers[r])
        /\ job[r] = "running" => client[r] = CredsOf(headers[r])

SentSound ==
    \A s \in sent : job[s.by] # "none" /\ s.creds = CredsOf(headers[s.by])

IInv == TypeOK /\ HeadersSound /\ JobSound /\ SentSound
=============================================================================
