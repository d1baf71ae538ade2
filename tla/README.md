# A verification of mspbots-agent-mcp

`mspbots-agent-mcp` is an MCP server that exposes the configuration API of the
MSPbots Agent Platform to language models. It keeps no data of its own: every
tool call becomes one or two calls of the platform, each of up to four HTTP
requests. What can go wrong
is therefore what lies between a tool and the platform: requests that are
retried, duplicated or late, answers that do not mean what they are taken for,
credentials of several tenants in one process, reads that are stale when they
are acted on. That is what the modules here are about.

Source paths below are relative to `src/src/mspbots_agent_mcp/` unless they
start with `README.md` or `docs/` (relative to `src/`).

## 1. Inventory

| Component | Source | State | Operations |
|---|---|---|---|
| Agent Platform client | `api_client.py` | one shared connection pool; per call: the attempt, the time slept, the last response | `get/post/put/patch/delete` → `_request` (retry loop), `_retry_delay`, `_handle`; `AgentError.to_envelope` |
| Gateway credentials | `server.py` | one context variable, copied into every asyncio task | middleware: check headers, set, run the application, reset; `get_client_from_context` |
| Server assembly, entry point | `server.py`, `__main__.py`, `config.py` | none after start | register tools, mount, read settings |
| Agent policy tools | `tools/agents.py` | the agent record on the platform, its flag `policyError` | get/upsert of permissions, evaluation, approval; `_guard_policy` |
| SOP conversation | `tools/sops.py` | a run on the platform | `chat_with_sop`: look up, run and wait, read the reply (not registered at this commit) |
| SOP library | `tools/sops.py` | none | `list_sops` |
| Trigger tools | `tools/triggers.py` | triggers on the platform | list, upsert, delete, catalog; run (not registered at this commit) |
| Usage report | `tools/usage.py` | local variables of a search | `_shape_overview` trims a report to its budget |
| SOP author tools | `tools/sop_author.py` | the SOP draft on the platform | get/set name, source, purpose, data sources, visibility; clear a section |
| Twilio tenant configuration | `tools/twilio_tenant_config.py` | a record on the platform | get, partial update |
| Connector tools | `tools/connectors.py` | switches on the platform | list, switch |
| Agent skills | `tools/skills.py` | private skills on the platform | five tools (not registered at this commit) |
| Serialization | `_json.py`, `tools/_common.py` | none | compact JSON, error envelope |

How they interact: a request passes the middleware, which puts its credentials
in the context variable; the session manager starts a task for the request,
which inherits the variable; the tool builds an `AgentClient` from it and calls
the platform through the retry loop; the answer (a body, `None`, a wrapped page
of text, or an `AgentError`) is interpreted by the tool. All concurrency is
asyncio's: tool calls interleave at each `await`, that is at each HTTP request
and each sleep. There is no lock and nothing is persisted, so a crash of the
server loses nothing but the calls in progress.

The hard behaviours, and the property that would be wrong:

* **Retries of requests that may have arrived.** After a timeout the request is
  sent again although the first may be on its way or done. What can be said of
  effects: how many, which attempt the answer is about, what may still be
  coming after the tool has returned.
* **Answers that carry less than they seem to.** `_handle` looks at the content
  before the status; the tools turn `None`, text and `success:false` into empty
  records.
* **Check, then act.** The policy guard reads `policyError` in one request and
  writes in another.
* **Inherited context.** Which credentials a task sees depends on who created it
  and when.
* **Work that must not be repeated.** A run of an agent, a created trigger.
* **Omitted, null, false, a value.** The partial writes tell them apart, each tool
  in its own way, and a clear destroys what several of them wrote.
* **Reading one answer out of many messages.** Which message is the reply, and
  which of four statuses an output has.
* **Boundaries.** `Retry-After` from outside, `retries=0`, the ends of a binary
  search.

## 2. Modules

```
RemoteCall            what one call of the client promises        (abstract)
  ^ implemented by  ApiClient        the retry loop, network and platform
  ^ extended by     AgentPolicy      guard, one shared PUT, two calls per tool
                    SopChat          lookup, run, resend by the caller
                    Triggers         one call per tool, not idempotent
                    AgentSettings    one call per tool, partial writes, clears
AssistantReply        what SopChat's OutputReplies abstracts      (shown in SopChatProofs)
GatewayCreds          context variable and tasks                  (independent)
UsageShape            the binary search of the report             (independent)
```

`RemoteCall` is the specification the tool modules rest on. They do not repeat
the retry loop; they `EXTENDS RemoteCall` and may use its promise because
`ApiClient` is shown to keep it (`PromiseKept`, model-checked and proved).
Every module but `RemoteCall` has an `MC…` module with the instances; the theorems
are in `…Proofs` modules. Those of the tools extend `RemoteCallProofs`, which has
the invariant of the calls, and add the invariant of the tools to it.

In every module some operators carry a comment that says which mistake they
stand for, such as `RetriesOrDefault` ("retries or 3"). Nothing in the
specification uses them. They are the forms a plausible bug would give the
definition that follows: putting one in its place must make a property fail,
which is how we know that the property says something about the code.

### RemoteCall: the promise

A call is asked for once and answered once, issued at most `Limit[c]` times in
between. Every issue may take effect at any moment, even after the answer, or be
lost. The answers are the kinds the tools can tell apart: `good` (a JSON body
below 400), `declined` (text or `success:false` below 400), `blank` (`None`),
`refused` (4xx but 429), `throttled` (429), `failed` (5xx), `unreachable`
(status 0). Only three of them say something about the platform (`Truthful`).

### ApiClient: `api_client.py`

`phase`, `attempt`, `slept`, `inbox`, `outcome` are the local variables of
`_request` for each of any number of concurrent calls; `wire` is the requests in
flight and `applied` the attempts that changed the platform.

| Action | Code |
|---|---|
| `Invoke`, `Send` | entering `_request`; `client.request(...)` |
| `RetryAfterError`, `GiveUp` | `except httpx.RequestError`: sleep and go on, or raise status 0. Enabled before and after the request has left |
| `RetryAfterStatus` | status in `_RETRYABLE_STATUS` with attempts left: sleep `_retry_delay` |
| `Return` | `_handle`: no content → `None` *whatever the status*, then ≥ 400 → error, else the body |
| `Wake` | the next round of the loop |
| `Process`, `Lose` | the platform answers, with or without an effect; the network loses the request or the platform never gets to it |
| `ProxyAnswer` | a gateway's 502/503/504, which does not recall the request |

`Honest` is what is assumed of a response: JSON or an empty body with a 2xx is
sent only after the change was made, a 4xx only if it was not. A 5xx, a page of
text and `success:false` go with both.

### GatewayCreds: `server.py`

`ctx[r]` is the context variable in the ASGI task of request `r`, `jobCtx[r]` its
copy in the task that runs the tool. A request's ASGI task starts in the server's
context or, on a pipelined connection, in the context of the request before it
(`Pipelined`). The tool's task may outlive the request (`Leave` can precede
`CallPlatform`). `PassThrough`, `Reject`, `Accept` and `Leave` are the four paths
through the middleware: another path, 401, set, and the `finally` with `reset`.
uvicorn, asyncio and the session manager are external: what is modelled is which
task creates which.

### AgentPolicy: `tools/agents.py`

Tool calls on one agent. `Reject` is the argument checks; `BeginRead` the GET of
a getter or of `_guard_policy`; `Show`, `Block`, `Proceed` what follows its
answer; `BeginWrite` the unguarded write (owners alone); `Report` the end.
`Fetched` translates `(result or {}).get("data", {}) or {}`: a blank or declined
answer is a record with nothing in it. `record[k]` remembers who last set or erased
key `k`, which is all the properties need to know of a value: it is set if that call
named `k`, erased otherwise. Whether a write of the permissions erases the keys it
does not name is the platform's doing, and the repository contradicts itself about
it (section 6). `WriteLands` therefore replaces either the keys of the body or all
three of `PermissionKeys` (`Replaceable`), chosen anew for every request that lands,
and nothing checked or proved depends on which it is. `PolicyFlips` is the
platform setting or clearing `policyError` at any time. `tools` and the flag
itself, which the permissions getter shows as well, are not keys of the model.

### SopChat: `chat_with_sop` in `tools/sops.py`

`Begin` → lookup → `LookupFails`/`NoAgent`/`StartRun` → `EndTurn`, for a caller
that sends the message again when and only when the answer says
`retryable=true`. What `_last_assistant_text` and `_paused_actions` make of an
output is the choice `OutputReplies`. The tool is implemented but its decorator
is commented out at this commit; it is modelled as it stands in the source.

### Triggers: `tools/triggers.py`

Argument checks (`Incomplete`, `Rejected`), one call with the default of three
retries, and the platform's side: a POST that arrives twice creates two triggers
and runs them twice, a DELETE that arrives twice finds nothing the second time.
Any string but `None` is taken for a trigger's id. `run_trigger` is not
registered and not modelled, and neither is the paging of the list.

### AgentSettings: `sop_author.py`, `twilio_tenant_config.py`, `connectors.py`, `skills.py`

The tools that write settings of one agent with a single call each. They differ
in where they write and in what they leave out of the body; they meet on the same
settings. A setting is a *cell*, a pair of a place and a key, and an argument says
of each cell of its tool's place whether it is omitted, `on` (a value, `true`) or
`off` (null, an empty list, `false`, a deletion).

| Tools | Place | `on` / `off` |
|---|---|---|
| get/set of name, source, purpose, data sources, procedure | `draft` | a text / null |
| get/set section visibility | `shown` | show / hide |
| `clear_sop_section` | `data` | – / destroy |
| get/set Twilio tenant configuration | `twilio` | a value / the channel's default |
| list/set connector tools | `connector` | on / off |
| update, delete, enable a skill | `skill` | files, on / deleted, off |

`Reject` is the argument checks, `Submit` the call with the `Body` that
distinguishes the three, `Report` the answer (`success:false` is looked for by the
switches only). `Lands` is the platform: it writes the cells of the body and no
others; clearing a section also hides it (`Wiped`), clearing Twilio's unsets its
keys, and a first PATCH creates the Twilio record (`Seeds`). `writer[k]` is the call
that wrote cell `k` last, `view` what the platform answered to each request.

### AssistantReply: reading the output of `run/wait` in `tools/sops.py`

`ReportError` → the run failed; `ReadPause` is `_paused_actions`; `PassOver` and
`Tell` are the loop of `_last_assistant_text` from the last message to the first. A
message is reduced to what is looked at: who it is from, whether it is hidden, and
which kinds of text its parts have.

### UsageShape: `_shape_overview` in `tools/usage.py`

A payload is its sizes: `plain` without `debug`, `marked[k]` with the two markers
and the first `k` rows. `StartSearch`, `Probe`, `EndSearch` are the `while` loop.
The assumption `Grows` states what serialization guarantees: sizes grow with the
rows, and the markers cost something.

## 3. Runs

| Run | Question | States |
|---|---|---|
| `client_one` | one call, three retries, ten kinds of response: truthful, bounded, exhausted only at the end; implements `RemoteCall` | 22 606 |
| `client_two` | a retried and an unretried call together: effects within budget, nothing left behind by a first answer, both return | 19 580 |
| `gateway` | three requests of two tenants and of every incomplete kind | 307 792 |
| `policy_one` | every tool, all argument kinds, the flag flipping | 29 696 |
| `policy_two` | three reads and writes of one record, of different keys that may erase each other, one write repeated and late | 1 435 334 |
| `chat_turns` | a message sent up to three times | 30 746 |
| `triggers_two` | two trigger tools, retried and late | 384 156 |
| `settings` | two of the tools that write with one call, one retried and late | 937 020 |
| `reply` | some 1 300 outputs: shown, hidden, blank and foreign messages, every kind of pause | 5 645 |
| `usage` | some 300 reports around the budget | 1 344 |

The other runs (`client_empty`, `triggers_once`) show where the code does not do
what a document or a docstring says: section 6.

**Bounds, and why they are enough.** There is no counter to cap: attempts are
bounded by the retries argument, requests by the attempts.

* One call covers all of the loop, since calls share nothing in it but the
  platform; the second call of `client_two` has the other value of the retries
  argument, `0`, so that both are checked against late requests of each other.
  Its three responses are one of each retry decision. `client_one` has one
  response for each branch of `_handle` and `_retry_delay`: hints that are
  negative, absent and above the cap. Values of `Retry-After` that are not finite
  are outside the model.
* In `policy_one`/`policy_two` a GET is issued once (its repetition changes
  nothing) and the PUT of `t1` twice, the smallest number with a late duplicate.
  Two tool calls are the smallest number with a lost update; `policy_two` has three,
  because it takes two writes and a read after them to show the older one. One
  argument writes owners, one permission, one reads: each write may erase the key of
  the other. The run is under `MCWritersSpec`: the flag stays down; `t1`, the one
  whose write may be repeated, does not read and so writes owners; and of the answers
  that say nothing for certain, or that something did not happen, `unreachable`
  stands for all, since the two properties tell only `good` apart. `policy_one` has
  every answer. `t2` and `t3` have the same arguments and limits and are
  interchangeable (`MCSymmetry`); the run checks invariants only, for which symmetry
  is sound.
* Three turns: the second is the first resend, the third shows that the answer to
  the second is treated like that to the first.
* Two trigger calls, each issued up to twice: a duplicate, and a delete
  overtaken by another.
* In `settings` the first call may be issued twice, the second once: a late
  duplicate of either order, since both may begin first. The arguments are those
  that meet on the Twilio section (two keys together, one set and one cleared, the
  switch, the clear, the getter) and one of each other kind; three of the nineteen
  Twilio keys stand for all, because the code treats them alike.
* Three messages: one that is chosen, one in front of it and one behind, of every
  reason to be passed over.
* Three requests: two tenants and one that is incomplete or unchecked, in every
  order of inheritance, including chains.
* Twelve rows give searches of every parity and depth up to four; the report's
  sizes cut the budget at every row, before the first and after the last.

**Fairness.** `ApiClient!FairSpec` assumes only that a client step that can be
taken is taken: `httpx.Timeout` bounds connecting, writing, waiting for the pool
and every read, and `asyncio.sleep` ends. `RetryAfterError`/`GiveUp` are always
enabled while a call waits, which is the timeout. Nothing is assumed of the
network or the platform. The read timeout is per chunk, so a body that drips for
ever is outside the assumption. `AgentPolicy!FairSpec` and `SopChat!FairSpec`
assume that a call is concluded, which is `EveryCallReturns` of `ApiClient`, and
that a coroutine whose answer has come goes on. `UsageShape!FairSpec` is a
sequential loop.

**Deadlock** is checked in every run. Where the system really is at rest (all
calls over and nothing in flight) an explicit step says so: `Finished`,
`AllServed`, `AllOver`, `AllReported`, `Done`.

## 4. What the runs show

* *Client.* A JSON body means that the **last** attempt took effect, a refusal
  that it did not and never will (`TruthfulOutcome`). With late duplicates
  counted, a call takes effect at most `retries + 1` times, so `retries=0` is at
  most once (`EffectsWithinBudget`). A call answered by the platform at its first
  attempt leaves nothing behind (`CleanFirstAnswer`); after a retry it may, and
  that is what the tool modules then live with. Sleeps are at most 20 s per retry
  and never negative; a failure is reported only after the last retry; every
  call returns.
* *Credentials.* Whatever tasks inherit, whoever has left or been rejected, the
  platform is called only with the credentials of the request that is served
  (`Isolation`), and only for an `/mcp` request that brought all three
  (`OnlyComplete`).
* *Policy.* While `policyError` is set and was set throughout, an upsert gets to
  its write only if its read came back blank or declined (`GuardHolds`; that it
  does then is listed in section 6). A value the policy
  holds was put there by an upsert whose own read came back without an error and
  without the flag (`PolicyWrittenPastGuard`). That is said of values only: an update
  of owners alone reads nothing, and if the platform replaces the record as a whole,
  it erases the policy without a guard. If the flag is set between the two
  requests, the write goes through: there is no transaction. Owners can always be
  changed. What a reported write has set is overwritten or erased only by a write that was
  under way with it, came after it or was retried (`LaterWriteStays`): two writes at
  a time may undo one another, two in succession only by a late duplicate. A getter
  shows, of every write reported before it was called, that write or one that is not
  behind it (`ReadYourWrites`).
* *Chat.* One turn never runs the agent twice; a caller that trusts `retryable`
  runs it twice for one message only after a 5xx. `completed` and `interrupted`
  are said of runs that took place, and `no_reply` too unless the answer carried no
  output at all (`StatusMeansRan`).
* *Triggers.* Whatever is created belongs to an agent and can fire. Duplicates
  take a retry. A `not_found` is explained: another call deleted the trigger, or
  it is this very delete, retried.
* *Settings.* Of two calls made one after the other the second stands, be it a
  clear or a write, if the first was answered at its first issue
  (`LaterCallStands`). Nothing is written that was not named (`OmittedKept`), null
  and false are really sent (`AnswerShowsChange`), and if every caller gives `voice`
  and `say_voice` together, no loss, delay or clear separates them (`VoicesPaired`).
* *Reply.* The reply is the last message the assistant is shown to have said;
  a waiting run is never `completed`, and `no_reply` is said only of a run that
  neither spoke nor waits.
* *Report.* The trimmed report keeps the largest number of rows that fits, is
  marked exactly when rows are missing, and the search halves with every probe.

## 5. Proofs

TLAPS checks these for **every** value of the constants, from the named
assumptions of the modules and nothing else.

**ApiClientProofs** (any set of calls, any retries arguments, any set of
responses; `RetriesAssumption`, `ResponsesAssumption`). Inductive invariant
`IInv`:

* `Budgets`: attempts stay within `MaxRetries`, and the time slept is at most
  20 s for each sleep *begun*. A call in backoff has begun one more than it has
  finished, hence `Sleeps`.
* `WireSound`, `AppliedSound`: what is in flight or has taken effect belongs to an
  attempt that was really made (`InRange`), and a request is not both. Without
  them a stale request could count for an attempt that is still to come, and
  `TruthfulOutcome` would not be inductive.
* `InboxSound`: what the status of the response *just received* settles about the
  current attempt. It holds because a response is accepted only if it answers the
  current attempt (`Listening`).
* `OutcomeSound`: the same of what was returned, which is what the properties
  need.

One lemma per action, one step per part of the invariant. From it: `TypeCorrect`,
`Truthful`, `WithinBudget`, `SleepBounded`, `RetriesExhausted`,
`NothingLeftBehind`.

`Progress` is what the return of every call rests on besides fairness. `Rank(c)`
counts attempts and, within one, phases: every step of a call raises its rank, no
step of the platform, the network or another call lowers it, and `Budgets` bounds it
by `4 * (retries + 1)`. What remains of `EveryCallReturns` is that a call which has
not ended *can* take a step, and takes it: `ENABLED` and fairness, left to TLC.

`Implements` proves `Spec => PromiseKept`: every step of the
loop is a step or a stutter of `RemoteCall`. It needs `IInv` twice: `Budgets` to
know that an attempt is within `Limit`, and `OutcomeSound` to know that an answer
is `Truthful`. `PromisedInv` takes the theorem back down: it instantiates
`RemoteCallProofs` under the same mapping, discharges `LimitAssumption` for the
limit `MaxRetries(c) + 1`, and concludes that the invariant the tools rest on
holds of the loop.

**GatewayCredsProofs** (any number of requests, tenants and header sets;
`InboundAssumption`). `HeadersSound`: inside the application the variable holds the
request's own credentials, because it is *set*, not defaulted. `JobSound`: so does
the tool's copy, also after the reset in the request's task. `SentSound`: so does
all that was sent. Hence `TenantsIsolated`, `CompleteOnly`, `TypeCorrect`.

**UsageShapeProofs** (reports of any number of rows, any budget;
`BudgetAssumption`, `PayloadAssumption`). `SearchInv`: everything below `lo` fits,
nothing above `hi` does, `best` is `lo - 1`. At the end this is `KeepsTheMost`
(`TrimsTheLeast`); `MarkerTrue` needs in addition that not all rows fit, which
follows from `Grows` (`MarkerHonest`). `SearchHalves` proves the step property.

**RemoteCallProofs** (any calls and limits; `LimitAssumption`). `RemoteInv`: what is
in flight or applied was issued (`PendingSound`, `EffectsSound`), never both, within
the limit (`IssuedSound`), and every answer is *still* true of the last issue
(`AnswerSound`): a late request cannot make a refusal a lie because the refused one
is neither pending nor applied. Its lemmas are what the tools use: an answer is
final (`AnswerFinal`), a call that was not asked for has left nothing
(`UnaskedNothing`), a call answered `good` at its first issue has nothing under way
(`QuietSettled`) and stays so.

**SopChatProofs** (any number of turns; `MaxTurnsAssumption`,
`ChatCallsAssumption`). What each turn asked for,
and that a turn begins only after one that said `again`. `OneRun` needs that the
limit of a run is one; `SecondRun` that the answer of an earlier turn is final.

Its second part is about `AssistantReply`, for outputs with any number of messages,
parts and interrupts (`OutputsAssumption`). It is in this module because both model
`chat_with_sop`, and because it ends in what joins them. `ReadingInv`: while it scans, the output is
no error, `paused` is what the output says, and nothing the assistant is shown to
have said has been passed over. Hence `ReadingTypeCorrect`, `ReplyIsLast` and
`StatusRight`; and `ReadingIsAChoice`: whatever the output, the status told is one
that `EndTurn` allows for an answer `good`, so `SopChat` leaves no outcome out.

**TriggersProofs** (any tool calls and arguments; `TriggerAssumption`,
`NobodyAssumption`). `ArgsSound`: what was asked for was not rejected, so what is
created can fire (`CanFire`). `RunsSound`: a create runs its trigger once per landed
request; one answered at its first issue is quiet, so there will be no second
(`CreatedOnce`). `DeletedSound`, `RefusedSound`: a trigger that is gone was deleted by a
request that landed, and only then is a call refused (`NotFoundHasReason`).
`CreatedBounded` counts what a create leaves behind when it was retried: at most one
trigger per request it issued, those still to come included, and at least one if it
was told that it succeeded. The finding `triggers_once` shows that there may be
more than one; this says how many at most.

**AgentPolicyProofs** (any tool calls and arguments; `CallsAssumption`,
`ArgumentsAssumption`, `StoredAssumption`). `GuardSound`: a guarded write has passed a
read that came back without an error and without the flag. `WriterSound`: whoever
last set or erased a key was able to (`Replaceable`), and its write landed. The two
give `WrittenPastGuard`: a protected key in the body makes an upsert guarded. A write
that lands replaces at least its body and at most what is `Replaceable`; no step of
the proofs uses more of the platform, so they hold of a partial write, of one that
replaces the record as a whole, and of a platform that does now one, now the other.
`SnapshotSound`: what a read took along has the flag as it still is, while the tool
is steady, and every write that was reported before. `LaterSound`: once a later
write has landed, no key of it is an earlier, *quiet* call's, which is inductive
because nothing of a quiet call is pending. `TakenSound` says of what a read took
along what these two say of the record: it is there that "before" is about three
calls, a write, a later write and the read after both. Hence `Guard`, `Owners`,
`LaterStays`, `ReadsSeeWrites`.

**AgentSettingsProofs** (any calls, arguments, keys and tools; `TwilioAssumption`,
`SettingAssumption`). `LaterSound` as above, with clears; `VoicesTogether`: a call
touches both voices or neither, because a clear takes all of Twilio's keys;
`WriterSound`: who wrote a cell named it; `FilledSound` and `ViewSound`: while one call
alone writes, the settings and what later readers are told are what it asked for.

**Only model-checked.** The liveness properties (`EveryCallReturns`,
`EveryToolAnswers`, `TurnsEnd`, `Answers`): fairness and `ENABLED` are out of the
prover's reach. Every safety property that a passing run checks is a theorem.

## 6. Where code and words disagree

| Run | What happens |
|---|---|
| `client_empty` | `_handle` returns `None` for any response without content, a 401 included: the tool reports success. `docs/tickets/PRD-18216.md` promises the error envelope |
| `triggers_once` | a create whose answer is lost is retried by the client, creates a second trigger and, with `run=true`, runs it twice |

Seen on the way, of the same kind or a matter of wording only, without a run of
their own:

* the guard's read comes back empty, as text or as `success:false`, and
  `_guard_policy` takes that for "no `policyError`": the write goes through although
  its docstring says that it refuses (`tools/agents.py:70-73`). `GuardHolds` states
  the guard with exactly this exception;
* a gateway's 504 on `run/wait` is answered with `retryable=true` while the run may
  be going, although `README.md:362-365` says never to send it again.
  `SecondRunExplained` states that this is the only way to a second run;
* by the cause of the first, `get_agent_evaluation` answers `null`,
  "unconfigured", for an agent that has an evaluation;
* by the cause of `client_empty`, an empty answer to `run/wait` becomes "the run
  finished without producing an assistant message" (`tools/sops.py:275`) though
  nothing may have run;
* whether a write of permissions keeps the keys it does not give. The header of
  `tools/agents.py:12-16` and `README.md:123-133` say that the PUT is partial; the
  getter's docstring (`tools/agents.py:129-130`), the upsert's (`:193-200`, `:239`)
  and the comment in `tests/test_tools.py:124-130` say that it replaces the record and
  that a key you omit is a key you erase. The code sends the keys it was given; what
  they do is up to the platform, and the model leaves it open;
* the same docstring says that connector tool ids are rejected
  (`tools/agents.py:222`); only ids *without* a dot are looked up
  (`InvalidBareIds`);
* `README.md:352` calls the reply the last message *of this turn*, but the scan does
  not stop at a message of the user: if the platform returns the conversation so
  far, a turn that said nothing is given an earlier reply;
* only the first interrupt is read (`tools/sops.py:83`): requests of a second one are
  neither listed nor make the run `interrupted`;
* `clear_sop_section` calls itself idempotent (`tools/sop_author.py:407`, `:444`). A late duplicate of it
  destroys what was configured after it was answered, which is why
  `LaterCallStands` excludes a first call that was retried;
* clearing `evaluation` or `humanInLoop` changes the policy without the guard on
  `policyError`;
* the name of an SOP is measured stripped and sent unstripped
  (`tools/sop_author.py:79-85`).

## 7. Assumptions about the surroundings, and what is not modelled

* Responses are `Honest` (section 2). Redirects are followed by httpx, and no
  endpoint is known to redirect, so no 3xx appears.
* Errors httpx raises outside `RequestError`, such as `InvalidURL` for a
  malformed host, escape the loop; they are not modelled.
* The pool appears only as an attempt that fails before it is sent. How many calls
  may hold a connection is not modelled.
* A PUT on the agent's record sets the keys it names, and one of `review` or
  `approval` nothing else; one of permissions may also erase the other two of the
  three (section 2). In `AgentSettings` the platform writes only the cells of the request. `README.md:156-159` warns
  that concurrent writes to one draft may overwrite each other on the platform;
  that would be its doing and is not modelled.
* Which values the platform refuses (a voice that does not exist, a name that is
  taken) is not modelled: a refused call has no effect.
* The platform does not itself send the markers `_shape_overview` adds to a report.
* In `Triggers` credentials and bodies are good, so a refusal is a 404.
* Strings, messages, URLs and the wording of envelopes are left out; so are lists
  that are only handed on (`list_sops`, pages), and the status `get_connectors` derives from
  two flags of each row.
* Creating a skill is left out: a POST with retries, like creating a trigger.
  `run_trigger` is not registered and one more such POST.
* Server assembly has no state after start. Serialization is pure.

## 8. Plan

Done, in the order of the importance of the behaviour: `RemoteCall`, `ApiClient`,
`GatewayCreds`, `UsageShape`, `AgentPolicy`, `SopChat`, `Triggers`, `AgentSettings`,
`AssistantReply`, each with proofs.

What is left is small: `review` of `AgentPolicy` as two values (`rules`,
`max_iterations`), which are replaced together; the creation of skills, if they are
registered again; how many calls may hold a connection of the pool, which depends
on httpx; and measures like `Progress` for the tools, whose calls are then seen to
end after a bounded number of steps of theirs.
