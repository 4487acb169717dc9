# Verification of tool-rpc

tool-rpc calls "tools" (functions with metadata) on a server over HTTP or a
mailbox. This directory models the parts of it that keep state across events,
checks them with TLC and proves the main invariants with TLAPS. All paths below
are relative to the repository; the program is `src/src/`.

The program is single-threaded JavaScript. Everything hard in it happens
*between* events: a promise settles after the state it was started from has
gone, a timer races an answer, a `stop()` falls into a `start()` that awaits.
An action of a model is therefore one macrotask (a request, a timer, a settling
promise, a stream event, a call of a method) together with the microtasks it
triggers, and an `await` of something outside is a boundary between actions.

## The system

| Part (under `transports/` unless noted) | State it keeps | Operations | Talks to |
|---|---|---|---|
| Dispatcher (`dispatcher.ts`) | none of its own but one call frame per request | resolve the tool, run it, track it, wait for result or deadline, answer | tracker, guard, tools, transports |
| Task tracker and handles (`task-tracker.ts`) | the ledger `tasks` (request id -> handle); per handle status, result, timer, stream, counters, clocks | add, get, abort, settle, stream end, sweep, stop | dispatcher, rpcTask, transports |
| Deadline guard (`deadline-guard.ts`) | soft, hard and grace timer of one call | start, cancel | dispatcher, the call's abort signal |
| rpcTask (`rpc-task.ts`) | none | `get` (poll), `$cancel` | ledger |
| Session registry (`identity-session.ts`) | credentials with expiry and uses; index by identity | ensure, lookup, revoke, prune | request pipeline |
| HTTP base pool (`http-server.ts`) | listening servers by address; per server count, route table, fallback, init promise; per transport its base | start, stop, dispatch a request, send an answer or stream | manager, Node's http |
| Server manager (`server-manager.ts`) | route ownership by address; each transport's registration | register, unregister, refresh, startAll, stopAll, validate | transports |
| Request pipeline and routes (`server.ts`) | route claims and route table of a transport | claim, addRoute, match, identity -> validate -> dispatch -> send | all of the above |
| Client base (`client.ts`) | one polling loop per call | negotiate timeouts, fetch, poll while 102, cancel on abort | client transports |
| HTTP client (`http-client.ts`) | timers and abort controller of a fetch | fetch, decode, watch stream idleness | server |
| Mailbox client (`mailbox-client.ts`) | pending requests, one subscription | post, settle on answer/timer/abort/stop | mailbox |
| Mailbox server (`mailbox-server.ts`) | running flag, subscription or pull loop | start, receive, acknowledge, stop | mailbox, pipeline |
| Client manager (`client-manager.ts`) | client transports by address | register, create by scheme | clients |
| Paths and addresses (`route-path.ts`, `socket-address.ts`) | none | canonical forms, longest prefix | pipeline, pool |
| Server and client tools (`../server-tools.ts`, ...) | tool registry, static configuration | register, run, fetch | dispatcher, clients |

What makes each of them correct:

* **Dispatcher, tracker, guard, rpcTask.** A running task can always be found,
  polled and cancelled under its id; a handle's final status is set once and
  agrees with its signal; a finished result stays for as long as its tool
  promised; nothing stays in the ledger for ever; a call with a deadline is
  answered whatever its tool does; timers are disarmed on every way out.
* **Session registry.** Both maps stay inverse; the table and every credential
  stay within their limits; nothing dead is accepted and nobody active evicted.
* **Pool and ownership.** A server closes exactly with its last user; routes lead
  to attached transports and are not taken over; the pool and the ownership
  table tell the truth about addresses, also when a server is found listening at
  another one than it was asked for.
* **Clients.** A call settles once, with the tool's answer or an error, never with
  a "still processing" envelope; an abort reaches the server's task.
* **Mailbox server.** A message is acknowledged after, and only after, it was
  answered, and handled again only if something failed; a running server answers
  what is in its mailbox; stop ends every loop and the subscription.
* **Pipeline and routes.** No call runs before identity and validation; every
  failure is answered; declaring a route and matching a request agree.

PROJECT.json lists the hazards behind these properties line by line, also those
that no property covers.

## The modules

### TaskHandle, Dispatcher, TaskContract, DispatcherContract, MCDispatcher

`TaskHandle` is `RpcActiveTaskHandle` as a value: operators that give the handle
after construction, abort, settlement, end of stream, fetch, sweep. The two
clocks the code compares with `Date.now()` are kept relative (`age`, `idle`) and
saturate beyond every window.

`Dispatcher` is the process around it. `ledger` is `RpcActiveTaskTracker.tasks`;
for every invocation of `dispatch()` there is its `phase` (idle, waiting, or the
kind of its answer), `reqId`, `tool`, the `promise` of the tool, the abort
`signal`, the `handle`, the armed timer `guard`, and the stream it may answer with
(`pipe`, with `target` the handle its `onClose` closes over and `output` the stream
a handle holds). Handles and calls are separate because the code looks handles
up *by id after awaiting*, so a handle found there need not be the call's own.

| Code | Action |
|---|---|
| `dispatch`: unknown tool / id in use / accepted | `Refuse`, `Conflict`, `Track` |
| a tool's promise settles (value, error, stream), in time or after the answer | `SettleValue`, `SettleError`, `SettleStream`, built on `Answer` and `Late` |
| `RpcDeadlineGuard` timers | `SoftDeadline`, `HardDeadline`, `GraceExpired` |
| runtime timer of a handle | `RuntimeExpired` |
| HTTP transport starts to send a stream; it ends; the connection closes | `StartSending`, `StreamEnd`, `ResponseClosed` |
| `rpcTask.get`, `rpcTask.$cancel` | `PollGet`, `PollCancel` |
| `handle.abort()` by anyone else | `Abort` |
| sweep, `tracker.stop()`, passage of time | `Sweep`, `Stop`, `Tick` |

rpcTask polls are themselves dispatched calls with an id of their own; one more
plain call adds nothing that a further element of `Calls` does not, so only
their effect on the polled task is modelled.

`TaskContract` is what the dispatcher promises without timers, streams and
retention: an id belongs to one task at a time, a running task keeps its id, an
ended task never runs again, a request turned away never takes an id.
`DispatcherContract` instantiates it with `owner <- ledger` and the stage read off phase
and status; `MCDispatcher` makes a small instance of that.

### SessionRegistry, MCSessionRegistry

`RpcInProcessCredentialRegistry`, one action per way through each method. `left`
is `expiresAt - now`; a credential (a uuid) is never drawn twice; three history
variables remember what was issued, how often each credential was honoured, and
which were handed out to an identity before it was revoked.

### ServerPool, MCServerPool

`HttpServerToolTransport.start/stop` with the static pool `sharedServers`, and the
ownership table of `RpcTransportManager`. A server (`HttpBinding` with its
`http.Server`) is unused, opening (between `listen()` and its event) or open. The
one `await` of `start()` splits it: `StartFirst` creates a server, `StartWaiting`
joins one that is opening, `StartShared` and `StartAgain` need no wait;
`Listening` is the listening event with the rest of the creator's `start()`
(including the move of the pool entry to where the server is found), `Resume`
the rest of a joined one, and `ListenFails` an error before listening. All
continuations of one promise run before any other event, which `Settled`
expresses. The end of `start()` (`Finish`) has its three outcomes: route taken on the
server, route registered by another at that address, attached. `stop()` is
`StopIdle`, `StopUnattached`, `StopShared` or `StopLast`. The constants say what the
surrounding program does: who is registered, whether again, whether prefixes
are claimed late, whether `stop()` overlaps `start()`, whether starts name new
addresses, which addresses they are configured with (`Declarable`), and where a server
asked to listen at one may be found (`Observed`): port 0 is any port, and a host that is
neither `localhost` nor given to bind means all of them, `http://*:port`, because
`http-server.ts:303` listens there. In the instances `named` is such a host (it is
found there if it was given to bind), `wild` is `http://*:port`, `local` is localhost.

### RpcClient, MCRpcClient

One client transport with its calls: `fetch`, `executeWithPolling` and
`pollTaskStatus` of `client.ts`, with `_fetch` of the HTTP or of the mailbox client
(`kind` says which). A call is `idle`, `fetching`, `sleeping` (the wait a 102 asks
for), `polling`, `reading` (HTTP: the headers have come, the body has not) or
`done`; `armed` is its local timer, `pending` the mailbox client's table of pending
requests, `link` its subscription. A fetch is registered in the table under its
request id; a poll draws a fresh one, for which the model uses the call itself.
Request, reply and `$cancel` of a call are on the way until an action takes
them, and nothing says that one does: a reply may never come, come late, or come
to another call's entry.

| Code | Action |
|---|---|
| `fetch()` up to the first `await` | `Fetch` (with the negotiated timeout, the id, the table entry, the timer) |
| the wait between polls is over | `Wake` |
| HTTP headers; body; mailbox `onResponse` | `Headers`, `Body`, `OnResponse`; each goes on as `Take` |
| local timer; connection lost; `post()` rejected | `Timer`, `Reset`, `PostFails` |
| the caller's `AbortSignal`, with both of its listeners | `Abort` |
| mailbox client `start()`, `stop()` and its continuation | `Start`, `Stop`, `Stopped` |
| dispatcher and rpcTask | `DeliverCall`, `Answer`, `TaskEnds`, `Release`, `DeliverGet`, `DeliverCancel` |

The server is not the Dispatcher module but what that promises: `Server` is an
instance of `TaskContract` over `owner` and `stage`, with the three answers that
matter here. Bodies are reduced to what the client tests: `moved` has a `status` of
102 (the dispatcher's answer at a soft deadline), `envelope` is the answer of
`rpcTask.get` for a running task, `{code: 102, status: 'processing'}`, which has not.

### MailboxServer, MCMailboxServer

`MailboxServerTransport` with the pipeline of its base class. An *activation* is one
running async function of it; its `pc` names the `await` it is in, its `role` says
which function it is by now: a `stop`, a `start` that becomes its own `drain`
(`drainBacklog`), a `pull` loop, or a `push` (one `onReceive` for a pushed
message). `running` and `subscription` are the transport's fields; `leaving` is the
subscription object a `stop()` has in its hands, `held` the message an activation
handles. Of the mailbox there is where a message is (`box`), which
subscriptions it pushes to (`live`) and whether it is started (`up`).

| Code | Action |
|---|---|
| `stop()`; `start()` of a stopped, of a running transport | `Stop`, `StartStopped`, `StartRunning` |
| the `stop()` in such a `start()` returns | `Restarted` |
| `unsubscribe()` and the `stop()` of an internal mailbox return | `Unsubscribed`, `Closed` |
| `mailbox.start()` returns: subscribe, then backlog, or start the loop | `Booted` |
| the mailbox hands a message to the subscribers | `Post` |
| `fetch()` returns a message, or nothing; the pause is over | `Fetched`, `FetchedNothing`, `Wake` |
| identity policy; dispatch; answer or error posted | `Identify`, `Dispatched`, `Sent` |
| `ack()` returns | `Acked` |
| `unsubscribe()`, `mailbox.stop()` reject; `mailbox.start()` rejects or `subscribe()` throws | `UnsubscribeFails`, `CloseFails`, `BootFails` |
| `fetch()`/`ack()` reject; the answer, or the error in its place, cannot be posted | `CallFails`, `ReplyFails`, `ReportFails` |
| the process dies; the mailbox gives back what nobody holds | `Crash`, `Redeliver` |

A message that names no tool or no request id (`Broken`) goes straight to
`sendPipelineError`; the policy and `validateRpcRequest` may send any other there.
The dispatcher appears as one `await`. It ends for a call with a deadline, for which
`DeadlineAnswers` is the reason; a call without one (`timeless`: its timeout is 0, so
`RpcDeadlineGuard` is never armed) may be awaited for ever (`Stuck`). What a rejection
leaves is what the code leaves: after `UnsubscribeFails` the field keeps the subscription and
an internal mailbox runs on, after `CloseFails` a restart ends stopped, after `BootFails`
`isRunning` is true with nothing behind it. `refused` remembers the subscriptions
whose end was rejected and that still push.

### RoutePath, Routing, MCRouting

`RoutePath` is `route-path.ts` as operators. A segment is a text under a number of
layers of percent-encoding, because every hazard there is about how often a
segment is decoded; texts differ in what the code tests (dot segments, a slash, a
question mark, a percent sign that encodes nothing, whether they must be written
encoded). `Walked` is the loop of `normalizeRoutePath` as a recursive function over the
segments, `Normalized` all of it, `MatchRoute` the longest-prefix search over match keys.

`Routing` declares routes with it and addresses requests. `claims`, `kinds`, `table` and
`rpcPrefix` are the fields of the transport, `mounted` its keys in the base's table,
`declared` what `addRoute()` was given. `AddRpcHandler`, `AddDiscoveryHandler`,
`AddRoute` and `AddRouteFails` (which throws after it has claimed the prefix) are the
declarations, `Start` and `Stop` mount and unmount. A request changes nothing and is
therefore an operator: `HttpRequest` goes the way from `handleIncomingHttpRequest` to
`toRpcRequest` and gives a status, or the prefix, tool and act of the call;
`MailboxRequest` that of a message without a tool.

## The runs

| Run | Instance | Shows |
|---|---|---|
| `dispatcher` | 2 calls for 1 id, plain, stream and background tool, tools keeping results once, timed, bounded-permanent; runtime limit; the tracker may stop | `NoLostTask`, `SignalAndStatusAgree`, `GuardArmedWhileWaiting`, `CleanupAfterEnd`, `StreamsStayHome`, `ResultsKept` in every interleaving; the refinement of `TaskContract` |
| `dispatcher_liveness` | 2 calls, 1 id, fair timers and sweep | `DeadlineAnswers`, `RuntimeLimitEndsTasks`, `LedgerDrains` |
| `session_registry` | 3 identities, 4 credentials, table of 2, TTL 2, 2 uses | inverse maps, limits of table and credential, a revoked identity keeps none of its credentials (`RevokedIsOut`), nobody active is evicted |
| `server_pool_sharing` | 3 transports, 2 prefixes, 2 servers, localhost and a host whose server may move to the wildcard | counts, route tables, pool and routes stay exact under overlapping starts and stops |
| `server_pool_owners` | the same, all registered, prefixes claimed late | ownership table equals registrations, and follows the address |
| `rpc_client` | 2 calls, each transport; deadline 1 or 2, or an explicit 0 of the caller against a tool's deadline | the pending table and the timers are exact in every race (`PendingExact`, `TimerFollowsFetch`), a value was earned, 0 means no deadline, nothing is sent after an abort, a `$cancel` ends its task, a call with a deadline settles (`CallsSettle`) |
| `mailbox_server` | 4 configurations (push or pull, own or given mailbox, one with a policy, two with a call without a deadline), 3 activations, 3 subscriptions, 2 messages, one of them broken, 1 fault, fair | nothing is acknowledged unanswered, or handled again without a fault, where held messages are hidden; a serving server answers what is in its mailbox (`Served`), a stopped one comes to rest (`Quiesces`), but for what a call without a deadline holds up |
| `routing` | 3 nested prefixes written in 3 ways, 3 row paths, 3 conditions, 1 row declared, 14 request paths x 2 methods x 3 acts | a request is taken for what its path means and was declared as, by a second, declarative account (`Meaning`, `Expected`); rows follow the declarations |

Runs named for a disagreement check one sentence of the documentation or a
comment against the code, and TLC finds it violated:

| Run | Sentence | What the code does |
|---|---|---|
| `dispatcher_duplicate` | a 409 prevents a second execution | the tool is started before the id is checked |
| `client_request_id` | a request id is globally unique | it is written into default headers shared by all calls and reused by the next |
| `server_pool_moved` | when the last transport stops, its server is closed | a server asked for a host is moved to `http://*:port` over the pool entry of another opening there; the failure of that one deletes the entry, and nobody can close the server any more |
| `client_envelope` | after a poll the task "must be completed or failed" | the answer for a running task is not recognised and returned as the result |

### Bounds, and why they are enough

Two calls are what every race of the dispatcher needs: the call and the one that
holds, takes over or polls its id; that calls of other ids do not touch it is left to the
theorems, which hold for any number of ids. The tools
differ in what the code branches on (stream, keep-alive, retention mode and window):
`dispatcher` has a plain tool, a stream tool, a background tool whose
result is kept for no time and one per retention mode,
`dispatcher_liveness` a plain and a keep-alive tool.
The clocks saturate one tick past the largest window, so every comparison is
seen on both sides. A fetch or cleanup counter stops at 2, "more than once".
The registry's table of two with three identities is the smallest that can be full
and denied; four credentials allow one to be replaced in each place. In `rpc_client` two calls are what it takes for one to find or strike the other's
entry; the timeouts are the smallest numbers that differ from each other and
from 0, and since timers only fire or do not, their length does not matter. In
`mailbox_server` three activations are an old loop, a restart and a pushed message
at once; three subscriptions an old one, one that would not end and a new one. One
fault is enough to meet each kind of it and follow it for ever; what several of
them do together (a failing answer and the failing report of it, say) the theorems cover. `routing` has every
order of the claims, and each request path is one way of writing a path, a
sibling or an escape; rows are looked up one by one, so one of one's own beside the three
built-in ones meets each case (before, in place of, after, none). Three
transports are the smallest set in which a fallback is handed over while another
instance starts; two servers allow a restart beside a running server. Symmetry is
used over interchangeable model values, in runs without liveness only.

Not counted by TLC's bounds but chosen: what the surrounding program does. Each
choice has a constant, and each excludes a behaviour in which TLC, with the
constant switched, finds a property violated:

| Constant | Passing runs | Otherwise |
|---|---|---|
| `ReleasedIdsReused` | no: clients draw random ids | the end of an old stream removes the new task of its id (`NoLostTask`) |
| `Reregister` | no: once per transport | a second registration forgets the routes of the first (`OwnershipExact`) |
| `Rebinds` | idle transports only, or never | overlapping starts at two addresses count a transport twice (`CountIsAttached`) |
| `Observed` against `Declarable` | none is configured with an address another's server may be moved to | `server_pool_moved`: a failing start deletes the pool entry of a listening server (`NoOrphan`, `KeyIsTrue`, `CountIsAttached`, `RoutesReachAttached`) |
| `OverlapStop` | in `server_pool_sharing` | counts and routes stay exact, but the start outlives the stop and serves |
| `Managed` with `Rebinds` | not together | a start refused at its new address leaves a server listening for nobody (`NoOrphan`), and so does a prefix claimed late, which is why `server_pool_owners` does not check it; with an overlapping stop one transport can moreover be attached at two servers (`CountIsAttached`) |
| `Calls` | "in turn": a `start()` or `stop()` that waits is awaited; "alone": a `start()` also waits for older loops; otherwise "freely" | a `start()` during a `stop()` subscribes, and the `stop()` forgets its subscription: messages are handled twice (`OnceUnlessFault`), an internal mailbox is stopped under a running server (`Served`), and the last `stop()` leaves the subscription (`Quiesces`) |
| `Hides` with `Calls` in turn | yes: a held message is not given to another `fetch` | a restarted pull server has two loops, and both handle a message (`OnceUnlessFault`, with `MaxFaults` 0), as with the file provider, whose message stays until it is acknowledged (test/mailbox-provider-integration.test.ts:377) |
| `Strict` | no, as it is by default | a claim for `/foo/` is looked up as `/foo`: its rows are not found (`RequestsFollowClaims`) |
| `RequestPaths` | no encoded percent sign or question mark, nothing encoded twice | `/api/100%25` is answered 400, `/api/x%3Fy` is taken for the row `/x`, and `/a%2520b` for the row `/a%20b`: the second normalization takes what was decoded for a path as written (`RequestsFollowClaims`; for the first two, definitions `EncodedTwice`, and `EncodedQuery` with `RowsBefore`) |
| `SharedDefaults` | no, except in `client_request_id` | calls share an id: one is given the value of another (`ValueIsEarned`), entries and timers are lost (`PendingExact`, `TimerFollowsFetch`) |

More sentences of the documentation do not hold of the modelled code, and no
run is kept for them: an abort does not cancel a stream whose lock the HTTP
transport's reader holds (AGENT.md:211); a clash of routes may be found after the
server listens (server-manager.ts:143 says before); `stop()` does not end
the listening if a start is waiting (server.ts:150); a stream returned after an abort, within the grace period,
is pending again (task-tracker.ts:110 says an abort ends it); a result kept `once`
can be fetched until the next sweep (transports/README.cn.md:165 says it is cleaned
up at once); `rpcTask.$cancel` leaves the ledger entry to the sweep
(tool-rpc-timeout-spec.cn.md:140 says it clears it); a declared stream tool that
answers with a plain value stays in the ledger for ever (models.ts:64 says
it is destroyed on completion); over a mailbox an abort after a 102 does not
send `$cancel`, because the client's signal is aborted by then
(tool-rpc-timeout-spec.cn.md:139 says the transport must); a second normalization
does not leave a path as it is (server.ts:624 says it is idempotent, the last rows of
the table above); a mailbox server whose own path is not claimed takes the rows of its first
claim and the registry of none (mailbox-server.ts:74 says both come from the claim);
one active transport for a mailbox address does not
protect the uniqueness of execution (TRANSPORT_REFACTOR_DESIGN.cn.md:204 says it does),
because after a stop and a start it may have two loops (the row `Hides`);
and a `start()` of a running mailbox server gives up its registration with the
manager, because its own `stop()` comes after the registering
(mailbox-tool-rpc-integration.md:54 promises one server for each address).

### Fairness

`dispatcher_liveness`: weak fairness of the timers of a waiting call and of
the runtime timer, because a Node timer that is due fires; and of the sweep and
of time, because the interval runs until `tracker.stop()`. Nothing is assumed of
tools, clients or streams: tools may never settle, streams never end.

`rpc_client`: weak fairness of the local timer and of the wait before a poll, again
Node timers, and of the delivery of a `$cancel` once it is on its way, which is
what `CancelEndsTask` is about: given that it arrives, it finds its task. Nothing is
assumed of replies, polls, tasks, bodies or callers, so `CallsSettle` is the timers'
doing alone.

`mailbox_server`: weak fairness of `Timely`, the steps of an activation that does not
await a call without a deadline: a pause is a Node timer, `dispatch()` answers a call with a
deadline (`DeadlineAnswers`), and that the mailbox's calls and the policy's hooks end,
well or badly, is assumed of them; and of `Redeliver`, because a mailbox gives back what
was fetched and not acknowledged. Nothing is assumed of calls without a deadline,
posts, starts, stops, faults or crashes. A call that never ends may keep the pull loop or the
backlog, and with it every message behind it, for ever: `Served` and `Quiesces` say
that nothing else does. `Served` speaks of a server whose last `start()` has got as far as its
subscription or loop, and leaves out push mode after a fault, and means it: a
pushed message whose answer fails is gone, and a `start()` that rejects leaves the
backlog unread. `Quiesces` leaves out subscriptions whose `unsubscribe()` rejected.

## The proofs

All theorems hold for arbitrary finite or infinite sets of calls, ids, tools,
identities, credentials, messages, activations, servers, addresses and paths (of
transports a finite set, since servers count them) and all limits, under the named
assumptions of the modules (`HandleAssumption`, `DispatcherAssumption`,
`RegistryAssumption`, `PoolAssumption`, `ClientAssumption`, `MailboxAssumption`,
`PathAssumption`, `RoutingAssumption`), which say no more than that markers are not
values, windows lie within the clocks, and drawn ids differ. A theorem that needs
more of the surrounding program states it; the table above says what happens otherwise.
Every proof goes the same way: an inductive invariant, one lemma per action (or per
kind of step, where several actions do the same to the state), and the property read
off the invariant.

* `DispatcherProofs`: first lemmas about the handle operators (types, which status
  each leads to, that an abort leaves no live handle), then `TypeCorrect` and
  `LedgerIsSound`, with or without id reuse. The inductive invariant is `WellFormed`:
  types, every call past idle has an id (`Addressed`), idle calls have no promise,
  signal, timer or stream (`Quiet`), and the ledger maps an id only to an accepted call
  that carries it. Then `GuardFollowsWait` however ids are used, from `WellFormed`
  alone, and `NoTaskIsLost`, `StreamsReportHome`, `CleanupIsLast` where released ids are
  not reused. `NoLostTask` is not inductive: an entry is removed through whatever handle
  holds the id at the time, so the invariant adds that two accepted calls never share
  an id and that streams and handles are paired with their own call; with these every
  removal is of an ended task.
* `DispatcherContractProofs`: `SignalsAgree`, however ids are used. That signal and status
  agree while a promise is pending is not inductive: `AgreeInv` adds that a waiting call
  has a pending promise and that a pending promise has a processing or an aborted
  handle; every step then leaves a task, stops it, ends its run or makes it
  (`Left`, `Stopped`, `Ended`, `Made`). Where released ids are not reused,
  `DispatcherImplementsContract`: `Track` is the contract's `Register`, `Refuse` and
  `Conflict` are its `TurnAway`, everything else is its `Progress` or a stutter. Besides
  the two invariants the steps need `ErrorSilent`: a failed task waits for no stream, so
  no abort reaches it any more. `ResultsAreKept` follows from the same invariant.
* `SessionRegistryProofs`: `RegistryTypes`, `MapsStayInverse`, `CapacityIsKept`,
  `ReplayIsBounded`, `RevokedStaysOut`, `ActiveStays`. The uses recorded in a credential equal
  the times it was shown as long as it lives, which bounds both; every removal is a
  `Dropped` of a set of credentials, so one lemma serves five actions. That a revocation
  reaches every credential of an identity needs the maps to be inverse: the index names
  the only one in the table.
* `RpcClientProofs`: `ClientTypes`, `TableIsExact`, `TimerIsForTheFetch`, `ValuesAreEarned`,
  `NoDeadlineNoTimeout`, `AbortedStaySilent`, for a transport without shared default
  headers (`~SharedDefaults`; with them calls share ids, as `client_request_id` shows). `ClientInv` says for each stage of a call what it may have on its
  way (`RequestsFit`), which replies can still reach it (`RepliesFit`), whose task holds
  its id (`OwnersFit`) and which entry is its own (`EntriesFit`). A value is earned
  because an id has one call, and a reply was made from the task that held the id.
* `ServerPoolProofs`: `CountsAreAttached`, `RoutesReach`, `KeysAreTrue`, `OwnershipIsExact`,
  `RegistrationFollows`, `NobodyIsHijacked`, `PoolTypes`, and `NobodyIsOrphaned` where no
  transport is registered. They assume `Orderly`: no transport is configured with an
  address another's server may be moved to (without it `server_pool_moved` refutes four of
  them), transports are registered once, and an address changes only between starts
  and for transports no manager holds. A `stop()` may overlap a `start()`, and
  prefixes may be claimed late. A count is not inductive without knowing which
  starts are on their way to which server: `PoolInv` has who waits (`StartsFit`), where
  attached transports listen (`KeysFit`), that pool and keys are inverse (`PoolFits`) and
  that tables lead only to attached ones (`TablesFit`). A step attaches one transport,
  detaches one, or does neither (`Comes`, `Goes`, `Stays`), and the count changes by
  one by the theorems on cardinality.
* `MailboxServerProofs`: `NothingIsLost` holds whoever calls `start()` and `stop()`
  when: an activation that acknowledges has answered. `HandledOnceUnlessFault` and
  `TypesFit` assume `Orderly`: the two take turns and the mailbox hides what is held, or
  a `start()` also waits for all loops before it, whatever the mailbox hides; without
  either TLC refutes it (the row `Hides` above). `OnceUnlessFault` is not inductive: that a
  message is taken once has to be known from where it is (`FaultsPay`: unsent, never
  handled; queued, or held by nobody, at most as often as there were faults), from who
  holds it (`HoldersFit`), from there being one loop where held messages are not hidden
  (`OneLoop`), and from there being one subscription it can be pushed to besides those
  whose `unsubscribe()` was rejected (`OneSubscription`), each of which is a fault
  (`FewRefused`). That rests on `start()` ending the old one before it opens the next.
* `RoutingProofs`: `RowsInvariant` and `RowsAreKept`. Where no two rows of a table have one key, the search
  for a key finds the one row or none (`IndexFound`), so declaring a row replaces it in
  place (`DeclareLays`); a table is `Laid` out from the rows given for its prefix, and a
  table that is takes no harm from being given the built-in rows again (`BuiltinsStay`).

* `RequestProofs`: `RequestsAreFollowed`, with any paths of any length, for the default
  `~Strict` and requests that are `RequestsAreClean` (no segment under two layers, no
  encoded percent sign or question mark; without either hypothesis the property is
  violated, see the table above). Code and specification say what a path means in
  unlike ways, one by a loop with a stack, the other by counting names and dot
  segments, so the core is an induction over the loop (`WalkedIsMeaning`): after `i`
  segments the stack holds the names that nothing has taken away yet (`Left`), in their
  order, and behind the a-th of `n` kept names there are `n - a` more names than dot
  segments (`Keeps`); the latter is what tells that a dot segment takes the last name and no
  other. A second induction (`PlainWalked`) gives that what is cut off behind the prefix,
  decoded and joined, normalizes to what it was (`SecondNormalization`); clean segments are
  needed there and nowhere else. Two prefixes of a path with one length are equal, so
  each search finds the one longest claim (`NearestIs`, `MatchIs`), also the mailbox server's
  two. With no claim above the path, what the search falls back on is claimed or unset
  (`RpcPrefixIsClaimed`). Induction is taken from the well-foundedness of `<` on the
  naturals, as a statement about sets (`LeastElement`, `Inductive`), and the existence of the
  recursive function of `Walked` is proved with it (`WalkedIs`).

Only model-checked is liveness, which is out of the prover's reach: `DeadlineAnswers`,
`RuntimeLimitEndsTasks`, `LedgerDrains`, `CallsSettle`, `CancelEndsTask`, `Served`, `Quiesces`.
Every other property of a passing run has a theorem.

## The plan

In order of what matters most:

1. (done) `Dispatcher` with `TaskHandle`, against `TaskContract`.
2. (done) `SessionRegistry`.
3. (done, proved) `ServerPool`.
4. (done, safety proved) `RpcClient`; left: streams, the idle timeout and error codes.
5. (done, safety proved) `MailboxServer`; left: composed with `RpcClient` for at-least-once execution.
6. (done, proved) `RoutePath` and `Routing`; left: tool and act named in headers or query.
7. (done) Proofs: refinement of `TaskContract` by `Dispatcher`, `ResultsKept`.

Not modelled, and why: header and address canonicalisation, absolute URLs and the
filesystem mode of paths (string functions without state; `ServerPool` relies on equal keys
only), bearer tokens, the discovery listing, the tool classes and compatibility
helpers (stateless), the layers of a request's registry and the codes of errors (lookups),
the client manager (a map around the clients; its one hazard is listed), and the
bodies of tools. Node's http, `@mboxlabs/mailbox` and stream internals appear
only through the events the code reacts to.
