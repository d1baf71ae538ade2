------------------------- MODULE GatewayCredsProofs -------------------------
(***************************************************************************)
(* Tenant isolation for any number of concurrent requests and any headers. *)
(***************************************************************************)
EXTENDS GatewayCreds, TLAPS

USE InboundAssumption DEF HeaderSet, Nonempty, Credentials

LEMMA CredsType ==
    ASSUME NEW h \in Inbound, Complete(h)
    PROVE  CredsOf(h) \in Credentials /\ CredsOf(h) # NoCreds
BY DEF Complete, CredsOf, Token, Given, NoCreds

LEMMA IncompleteHeaders == ~Complete(NoHeaders) /\ ~NoHeaders.mcp
BY DEF Complete, NoHeaders, Token, Given

LEMMA InitIInv == Init => IInv
BY DEF Init, IInv, TypeOK, HeadersSound, JobSound, SentSound

-----------------------------------------------------------------------------
(* The steps of the ASGI task.                                             *)

LEMMA ArriveStep ==
    ASSUME IInv, NEW r \in Requests, NEW h \in Inbound,
           InServerContext(r, h) \/ \E before \in Requests : Pipelined(r, h, before)
    PROVE  IInv'
<1>1. PICK inherited \in Credentials \cup {NoCreds} : Arrive(r, h, inherited)
  BY DEF InServerContext, Pipelined, IInv, TypeOK
<1>2. stage[r] = "none" /\ job[r] = "none"
  BY <1>1 DEF Arrive, IInv, TypeOK, JobSound
<1>3. TypeOK'
  BY <1>1 DEF Arrive, IInv, TypeOK
<1>4. HeadersSound'
  BY <1>1 DEF Arrive, IInv, TypeOK, HeadersSound
<1>5. JobSound'
  BY <1>1, <1>2 DEF Arrive, IInv, TypeOK, JobSound
<1>6. SentSound'
  BY <1>1, <1>2 DEF Arrive, IInv, TypeOK, SentSound
<1>7. QED
  BY <1>3, <1>4, <1>5, <1>6 DEF IInv

LEMMA TurnAwayStep ==
    ASSUME IInv, NEW r \in Requests, PassThrough(r) \/ Reject(r) \/ LeaveOutside(r)
    PROVE  IInv'
<1>1. TypeOK'
  BY DEF PassThrough, Reject, LeaveOutside, IInv, TypeOK
<1>2. HeadersSound' /\ JobSound' /\ SentSound'
  BY DEF PassThrough, Reject, LeaveOutside, IInv, TypeOK, HeadersSound, JobSound, SentSound
<1>3. QED
  BY <1>1, <1>2 DEF IInv

LEMMA AcceptStep ==
    ASSUME IInv, NEW r \in Requests, Accept(r)
    PROVE  IInv'
<1>1. headers[r] \in Inbound /\ CredsOf(headers[r]) \in Credentials
  BY CredsType, IncompleteHeaders DEF Accept, IInv, TypeOK
<1>2. TypeOK'
  BY <1>1 DEF Accept, SetCreds, IInv, TypeOK
<1>3. HeadersSound'
  BY DEF Accept, SetCreds, IInv, TypeOK, HeadersSound
<1>4. JobSound' /\ SentSound'
  BY DEF Accept, SetCreds, IInv, TypeOK, JobSound, SentSound
<1>5. QED
  BY <1>2, <1>3, <1>4 DEF IInv

LEMMA LeaveStep ==
    ASSUME IInv, NEW r \in Requests, Leave(r)
    PROVE  IInv'
<1>1. TypeOK'
  BY DEF Leave, IInv, TypeOK
<1>2. HeadersSound' /\ JobSound' /\ SentSound'
  BY DEF Leave, IInv, TypeOK, HeadersSound, JobSound, SentSound
<1>3. QED
  BY <1>1, <1>2 DEF IInv

-----------------------------------------------------------------------------
(* The steps of the tool task.                                             *)

LEMMA StartJobStep ==
    ASSUME IInv, NEW r \in Requests, StartJob(r)
    PROVE  IInv'
<1>1. TypeOK'
  BY DEF StartJob, IInv, TypeOK
<1>2. HeadersSound' /\ SentSound'
  BY DEF StartJob, IInv, TypeOK, HeadersSound, SentSound
<1>3. JobSound'
  BY DEF StartJob, IInv, TypeOK, JobSound, HeadersSound
<1>4. QED
  BY <1>1, <1>2, <1>3 DEF IInv

LEMMA MakeClientStep ==
    ASSUME IInv, NEW r \in Requests, MakeClient(r)
    PROVE  IInv'
<1>1. TypeOK'
  BY DEF MakeClient, IInv, TypeOK
<1>2. HeadersSound' /\ SentSound'
  BY DEF MakeClient, IInv, TypeOK, HeadersSound, SentSound
<1>3. JobSound'
  BY DEF MakeClient, IInv, TypeOK, JobSound
<1>4. QED
  BY <1>1, <1>2, <1>3 DEF IInv

LEMMA CallPlatformStep ==
    ASSUME IInv, NEW r \in Requests, CallPlatform(r)
    PROVE  IInv'
<1>1. TypeOK'
  BY DEF CallPlatform, IInv, TypeOK
<1>2. HeadersSound' /\ JobSound'
  BY DEF CallPlatform, IInv, HeadersSound, JobSound
<1>3. SentSound'
  BY DEF CallPlatform, IInv, JobSound, SentSound
<1>4. QED
  BY <1>1, <1>2, <1>3 DEF IInv

LEMMA EndJobStep ==
    ASSUME IInv, NEW r \in Requests, EndJob(r)
    PROVE  IInv'
<1>1. TypeOK'
  BY DEF EndJob, IInv, TypeOK
<1>2. HeadersSound' /\ JobSound' /\ SentSound'
  BY DEF EndJob, IInv, TypeOK, HeadersSound, JobSound, SentSound
<1>3. QED
  BY <1>1, <1>2 DEF IInv

LEMMA Inductive == Spec => []IInv
<1>1. ASSUME IInv, [Next]_vars PROVE IInv'
  <2>1. CASE UNCHANGED vars
    BY <1>1, <2>1 DEF vars, IInv, TypeOK, HeadersSound, JobSound, SentSound
  <2>2. QED
    BY <1>1, <2>1, ArriveStep, TurnAwayStep, AcceptStep, LeaveStep, StartJobStep, MakeClientStep,
       CallPlatformStep, EndJobStep DEF Next, AllServed
<1>2. QED
  BY InitIInv, <1>1, PTL DEF Spec

-----------------------------------------------------------------------------
\* The context variable never holds part of a set of credentials.
THEOREM TypeCorrect == Spec => []TypeOK
<1>1. IInv => TypeOK
  BY DEF IInv
<1>2. QED
  BY <1>1, Inductive, PTL

\* The platform is only ever called with the credentials of the request it is
\* called for, whatever tasks inherit from one another.
THEOREM TenantsIsolated == Spec => []Isolation
<1>1. IInv => Isolation
  BY DEF IInv, SentSound, Isolation
<1>2. QED
  BY <1>1, Inductive, PTL

\* The platform is never called for a request without credentials of its own.
THEOREM CompleteOnly == Spec => []OnlyComplete
<1>1. IInv => OnlyComplete
  <2> SUFFICES ASSUME IInv, NEW s \in sent
               PROVE  LET h == headers[s.by]
                      IN  h.mcp /\ Given(h.tenant) /\ Given(h.host)
                          /\ (Given(h.apiKey) \/ Given(h.legacy))
    BY DEF OnlyComplete
  <2>1. s.by \in Requests
    BY DEF IInv, TypeOK
  <2>2. headers[s.by].mcp /\ Complete(headers[s.by])
    BY <2>1 DEF IInv, SentSound, JobSound
  <2>3. QED
    BY <2>2 DEF Complete, Token
<1>2. QED
  BY <1>1, Inductive, PTL
=============================================================================
