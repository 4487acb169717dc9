----------------------------- MODULE RpcClient ------------------------------
(***************************************************************************)
(* Calls made through one client transport (client.ts): negotiation of the *)
(* timeout, the first fetch, the polling loop entered by a 102, the local  *)
(* timer and the caller's abort signal; over HTTP (http-client.ts) or a    *)
(* mailbox (mailbox-client.ts), against a server that keeps TaskContract.  *)
(* Calls that ask for a stream are left out.                               *)
(*                                                                         *)
(* A body is what the client can tell apart: "moved" has status 102,       *)
(* "envelope" is the answer to a poll of a running task, {code: 102,       *)
(* status: 'processing'}, "value" a result and "error" any error.          *)
(***************************************************************************)
EXTENDS Naturals

CONSTANTS
    Calls, NoCall,
    Ids, NoId,
    Drawn,          \* the random id a call draws if it is given none
    Kinds,          \* the transports considered: "http", "mailbox"
    Unset,          \* a timeout nobody declared
    Default,        \* the timeout in the options of the transport
    Options,        \* what a call and its tool may ask for
    SharedDefaults  \* do the transport's options hold headers and a timeout object?

ASSUME ClientAssumption ==
    /\ NoCall \notin Calls /\ NoId \notin Ids
    /\ Calls \cap Ids = {}
    /\ Drawn \in [Calls -> Ids]
    /\ \A c, d \in Calls : Drawn[c] = Drawn[d] => c = d
    /\ Kinds \subseteq {"http", "mailbox"}
    /\ Unset \notin Nat
    /\ Default \in Nat \cup {Unset}
    /\ Options \subseteq [timeout : Nat \cup {Unset}, tool : Nat \cup {Unset}, headers : BOOLEAN]
    /\ SharedDefaults \in BOOLEAN

VARIABLES
    kind,            \* which transport it is
    link,            \* mailbox subscription: "off", "on", being given up
    pending,         \* mailbox pendingRequests, by request id or poll
    defaultId,       \* the request id in this.options.headers
    defaultTimeout,  \* this.options.timeout
    opt,             \* fetchOptions.timeout and .headers of a call, tool.timeout
    id,              \* its request id
    limit,           \* its negotiated timeout
    at,              \* where it is
    armed,           \* is its local timer running?
    aborted,         \* its AbortSignal
    outcome,         \* what its caller was given
    request,         \* its request on the way to the server
    reply,           \* the reply on the way back
    cancel,          \* its $cancel on the way to the server
    owner, stage,    \* the server's ledger and tasks, see TaskContract
    awaited          \* is the task's first request still open?

transportVars == <<kind, link, defaultId, defaultTimeout>>
callVars == <<opt, id, limit>>
serverVars == <<owner, stage, awaited>>
vars == <<transportVars, pending, callVars, at, armed, aborted, outcome,
          request, reply, cancel, serverVars>>

Server == INSTANCE TaskContract

Keys == Ids \cup Calls
NoReply == <<NoId, "none">>
Bodies == {"moved", "envelope", "value", "error"}
Outcomes == {"none", "value", "envelope", "error", "timeout", "aborted"}

Init ==
    /\ kind \in Kinds
    /\ link = "off"
    /\ pending = [k \in Keys |-> NoCall]
    /\ defaultId = NoId
    /\ defaultTimeout = Default
    /\ opt \in [Calls -> Options]
    /\ id = [c \in Calls |-> NoId]
    /\ limit = [c \in Calls |-> Unset]
    /\ at = [c \in Calls |-> "idle"]
    /\ armed = [c \in Calls |-> FALSE]
    /\ aborted = [c \in Calls |-> FALSE]
    /\ outcome = [c \in Calls |-> "none"]
    /\ request = [c \in Calls |-> "none"]
    /\ reply = [c \in Calls |-> NoReply]
    /\ cancel = [c \in Calls |-> "none"]
    /\ Server!Init
    /\ awaited = [c \in Calls |-> FALSE]
-----------------------------------------------------------------------------
(***************************************************************************)
(* Fetching.                                                               *)
(***************************************************************************)
\* Variant: a 0 counts as not declared.
NegotiatedTruthy(u, t) ==
    CASE u \in {Unset, 0} -> t
      [] t \in {Unset, 0} -> u
      [] OTHER -> IF u < t THEN u ELSE t

\* 0 means "no deadline" and wins; otherwise the smaller of those declared.
Negotiated(u, t) ==
    CASE 0 \in {u, t} -> 0
      [] u = Unset -> t
      [] t = Unset -> u
      [] OTHER -> IF u < t THEN u ELSE t

Effective(c) == IF opt[c].timeout = Unset THEN defaultTimeout ELSE opt[c].timeout

RequestId(c) == IF ~opt[c].headers /\ defaultId # NoId THEN defaultId ELSE Drawn[c]

\* The local timer: none for 0; the mailbox client has a default of its own.
Arms(n) == n # 0 /\ (kind = "mailbox" \/ n # Unset)

\* The key a call's outstanding fetch is registered under.
Ticket(c) == IF at[c] = "polling" THEN c ELSE id[c]
Fetching(c) == at[c] \in {"fetching", "polling"}

Registered(k, c) == IF kind = "mailbox" THEN [pending EXCEPT ![k] = c] ELSE pending
Struck(K) == [k \in Keys |-> IF k \in K THEN NoCall ELSE pending[k]]

\* The promises of the calls in S are settled.
Settle(S, o) ==
    /\ at' = [c \in Calls |-> IF c \in S THEN "done" ELSE at[c]]
    /\ armed' = [c \in Calls |-> c \notin S /\ armed[c]]
    /\ outcome' = [c \in Calls |-> IF c \in S THEN o ELSE outcome[c]]

\* fetch(): headers and timeout of the transport's options are used by
\* reference when the call has none of its own, and are written to.
Fetch(c) ==
    /\ at[c] = "idle"
    /\ id' = [id EXCEPT ![c] = RequestId(c)]
    /\ defaultId' = IF SharedDefaults /\ ~opt[c].headers THEN RequestId(c) ELSE defaultId
    /\ pending' = IF aborted[c] THEN pending ELSE Registered(RequestId(c), c)
    /\ limit' = [limit EXCEPT ![c] = Negotiated(Effective(c), opt[c].tool)]
    /\ defaultTimeout' = IF SharedDefaults /\ Unset \notin {defaultTimeout, limit'[c]}
                              /\ opt[c].timeout = Unset
                         THEN limit'[c] ELSE defaultTimeout
    /\ \/ /\ aborted[c]
          /\ Settle({c}, "aborted")
          /\ UNCHANGED request
       \/ /\ ~aborted[c]
          /\ at' = [at EXCEPT ![c] = "fetching"]
          /\ armed' = [armed EXCEPT ![c] = Arms(limit'[c])]
          /\ request' = [request EXCEPT ![c] = "call"]
          /\ UNCHANGED outcome
    /\ UNCHANGED <<kind, link, opt, aborted, reply, cancel, serverVars>>

\* Variant: polls are sent without a timer.
PollTimerNever(c) == armed

\* The timeout of a poll: the transport's object, if the call was given that,
\* may have been written to since.
PollLimit(c) ==
    IF SharedDefaults /\ opt[c].timeout = Unset /\ Unset \notin {defaultTimeout, limit[c]}
    THEN defaultTimeout ELSE limit[c]

PollTimer(c) == [armed EXCEPT ![c] = Arms(PollLimit(c))]

\* The Retry-After has passed: pollTaskStatus().
Wake(c) ==
    /\ at[c] = "sleeping"
    /\ at' = [at EXCEPT ![c] = "polling"]
    /\ armed' = PollTimer(c)
    /\ request' = [request EXCEPT ![c] = "get"]
    /\ pending' = Registered(c, c)
    /\ UNCHANGED <<transportVars, callVars, aborted, outcome, reply, cancel, serverVars>>
-----------------------------------------------------------------------------
(***************************************************************************)
(* Replies.                                                                *)
(***************************************************************************)
\* Variant: no polling loop.
TakeFinal(c, b) == Settle({c}, b)

\* Variant: the timer runs on into the wait before the next poll.
TakeTimed(c, b) ==
    \/ /\ b = "moved"
       /\ at' = [at EXCEPT ![c] = "sleeping"]
       /\ UNCHANGED <<armed, outcome>>
    \/ b # "moved" /\ Settle({c}, b)

\* executeWithPolling goes on with the body: only a status of 102 has it wait.
Take(c, b) ==
    \/ /\ b = "moved"
       /\ at' = [at EXCEPT ![c] = "sleeping"]
       /\ armed' = [armed EXCEPT ![c] = FALSE]
       /\ UNCHANGED outcome
    \/ b # "moved" /\ Settle({c}, b)

\* HTTP: the headers have arrived, which disarms the timer ...
Headers(c) ==
    /\ kind = "http"
    /\ Fetching(c)
    /\ reply[c] # NoReply
    /\ at' = [at EXCEPT ![c] = "reading"]
    /\ armed' = [armed EXCEPT ![c] = FALSE]
    /\ UNCHANGED <<transportVars, pending, callVars, aborted, outcome, request, reply,
                   cancel, serverVars>>

\* ... and then the body, if somebody still reads it.
Body(c) ==
    /\ kind = "http"
    /\ \/ at[c] = "reading" /\ Take(c, reply[c][2])
       \/ at[c] = "done" /\ reply[c] # NoReply /\ UNCHANGED <<at, armed, outcome>>
    /\ reply' = [reply EXCEPT ![c] = NoReply]
    /\ UNCHANGED <<transportVars, pending, callVars, aborted, request, cancel, serverVars>>

\* onResponse
OnResponse(c) ==
    LET k == reply[c][1] IN
    /\ kind = "mailbox" /\ link = "on"
    /\ reply[c] # NoReply
    /\ reply' = [reply EXCEPT ![c] = NoReply]
    /\ \/ pending[k] = NoCall /\ UNCHANGED <<pending, at, armed, outcome>>
       \/ \E d \in Calls : /\ pending[k] = d
                           /\ pending' = Struck({k})
                           /\ Take(d, reply[c][2])
    /\ UNCHANGED <<transportVars, callVars, aborted, request, cancel, serverVars>>
-----------------------------------------------------------------------------
(***************************************************************************)
(* Timers, failures, aborts, and the mailbox subscription.                 *)
(***************************************************************************)
\* Variant: the timer rejects and leaves the entry behind.
ExpiredKeys(c) == {}

ExpiryKeys(c) == {Ticket(c)}

Timer(c) ==
    /\ armed[c]
    /\ \/ /\ kind = "http" \/ pending[Ticket(c)] # NoCall
          /\ pending' = Struck(ExpiryKeys(c))
          /\ Settle({c}, "timeout")
       \/ /\ kind = "mailbox" /\ pending[Ticket(c)] = NoCall
          /\ armed' = [armed EXCEPT ![c] = FALSE]
          /\ UNCHANGED <<pending, at, outcome>>
    /\ UNCHANGED <<transportVars, callVars, aborted, request, reply, cancel, serverVars>>

\* HTTP: the connection is reset, whatever the server has seen of it.
Reset(c) ==
    /\ kind = "http"
    /\ Fetching(c) \/ at[c] = "reading"
    /\ Settle({c}, "error")
    /\ reply' = [reply EXCEPT ![c] = NoReply]
    /\ UNCHANGED <<transportVars, pending, callVars, aborted, request, cancel, serverVars>>

\* Mailbox: post() fails.
PostFails(c) ==
    /\ kind = "mailbox"
    /\ request[c] # "none"
    /\ request' = [request EXCEPT ![c] = "none"]
    /\ pending' = Struck({IF request[c] = "call" THEN id[c] ELSE c})
    /\ Settle(IF Fetching(c) THEN {c} ELSE {}, "error")
    /\ UNCHANGED <<transportVars, callVars, aborted, reply, cancel, serverVars>>

\* Variant: nobody listens for the signal during the wait.
HeedsLess(c) == Fetching(c) \/ at[c] = "reading"

\* A mailbox fetch is rejected through its table entry.
Heeds(c) ==
    \/ at[c] \in {"sleeping", "reading"}
    \/ Fetching(c) /\ (kind = "http" \/ pending[Ticket(c)] # NoCall)

\* The polling loop listens from its first fetch until it returns, which it
\* does before the body of a final response has been read.
Watching(c) == at[c] # "idle" /\ ~ (at[c] = "reading" /\ reply[c][2] = "value")

\* The caller aborts.  The polling loop sends $cancel with the options of the
\* call, whose signal is aborted by now: over HTTP that goes out, the mailbox
\* client does not post it.  The error body of a response cut off is replaced
\* by its status text.
Abort(c) ==
    /\ ~aborted[c]
    /\ at[c] # "done"
    /\ aborted' = [aborted EXCEPT ![c] = TRUE]
    /\ cancel' = IF kind = "http" /\ Watching(c)
                 THEN [cancel EXCEPT ![c] = "sent"] ELSE cancel
    /\ pending' = IF at[c] = "idle" THEN pending ELSE Struck({id[c], Ticket(c)})
    /\ Settle(IF Heeds(c) THEN {c} ELSE {},
              IF at[c] = "reading" /\ reply[c][2] = "error" THEN "error" ELSE "aborted")
    /\ UNCHANGED <<transportVars, callVars, request, reply, serverVars>>

Start ==
    /\ kind = "mailbox" /\ link = "off"
    /\ link' = "on"
    /\ UNCHANGED <<kind, defaultId, defaultTimeout, pending, callVars, at, armed, aborted,
                   outcome, request, reply, cancel, serverVars>>

\* stop() waits for unsubscribe(); a start() meanwhile finds the subscription
\* and does nothing.
Stop ==
    /\ kind = "mailbox" /\ link = "on"
    /\ link' = "closing"
    /\ UNCHANGED <<kind, defaultId, defaultTimeout, pending, callVars, at, armed, aborted,
                   outcome, request, reply, cancel, serverVars>>

Stopped ==
    /\ kind = "mailbox" /\ link \in {"off", "closing"}
    /\ link' = "off"
    /\ Settle({c \in Calls : \E k \in Keys : pending[k] = c}, "error")
    /\ pending' = [k \in Keys |-> NoCall]
    /\ UNCHANGED <<kind, defaultId, defaultTimeout, callVars, aborted, request, reply,
                   cancel, serverVars>>
-----------------------------------------------------------------------------
(***************************************************************************)
(* The server: TaskContract with the answers of dispatcher and rpcTask.    *)
(***************************************************************************)
serverOnly == <<transportVars, pending, callVars, at, armed, aborted, outcome>>

DeliverCall(c) ==
    /\ request[c] = "call"
    /\ request' = [request EXCEPT ![c] = "none"]
    /\ \/ /\ Server!Register(c, id[c])
          /\ awaited' = [awaited EXCEPT ![c] = TRUE]
          /\ UNCHANGED reply
       \/ /\ UNCHANGED <<owner, awaited>>
          /\ Server!TurnAway(c)
          /\ reply' = [reply EXCEPT ![c] = <<id[c], "error">>]
    /\ UNCHANGED <<serverOnly, cancel>>

\* A task the server itself aborts looks like a failed one from here.
TaskEnds(c, s) ==
    /\ stage[c] = "running"
    /\ stage' = [stage EXCEPT ![c] = s]
    /\ UNCHANGED <<serverOnly, request, reply, cancel, owner, awaited>>

Release(i) ==
    /\ owner[i] # NoCall /\ stage[owner[i]] # "running"
    /\ owner' = [owner EXCEPT ![i] = NoCall]
    /\ UNCHANGED <<serverOnly, request, reply, cancel, stage, awaited>>

\* handle102, normalizeResult, handleError
AnswerOf(c) ==
    CASE stage[c] = "running" -> "moved"
      [] stage[c] = "finished" -> "value"
      [] OTHER -> "error"

Answer(c) ==
    /\ awaited[c]
    /\ awaited' = [awaited EXCEPT ![c] = FALSE]
    /\ reply' = [reply EXCEPT ![c] = <<id[c], AnswerOf(c)>>]
    /\ UNCHANGED <<serverOnly, request, cancel, owner, stage>>

\* Variant: the result, whatever became of the task.
StatusOfAnyway(d) == IF stage[d] = "running" THEN "envelope" ELSE "value"

\* rpcTask.get
StatusOf(d) ==
    CASE stage[d] = "running" -> "envelope"
      [] stage[d] = "finished" -> "value"
      [] OTHER -> "error"

DeliverGet(c) ==
    LET d == owner[id[c]] IN
    /\ request[c] = "get"
    /\ request' = [request EXCEPT ![c] = "none"]
    /\ reply' = [reply EXCEPT ![c] = <<c, IF d = NoCall THEN "error" ELSE StatusOf(d)>>]
    /\ UNCHANGED <<serverOnly, cancel, serverVars>>

\* Variant: $cancel looks for a task under the id of its own request.
CancelTargetOwn(c) == NoCall

CancelTarget(c) == owner[id[c]]

\* rpcTask.$cancel
DeliverCancel(c) ==
    LET d == CancelTarget(c) IN
    /\ cancel[c] = "sent"
    /\ cancel' = [cancel EXCEPT ![c] = "received"]
    /\ stage' = IF d # NoCall /\ stage[d] = "running"
                THEN [stage EXCEPT ![d] = "aborted"] ELSE stage
    /\ UNCHANGED <<serverOnly, request, reply, owner, awaited>>
-----------------------------------------------------------------------------
CallStep(c) ==
    \/ Fetch(c) \/ Wake(c)
    \/ Headers(c) \/ Body(c) \/ OnResponse(c)
    \/ Timer(c) \/ Reset(c) \/ PostFails(c) \/ Abort(c)

ServerStep(c) ==
    \/ DeliverCall(c) \/ Answer(c) \/ DeliverGet(c) \/ DeliverCancel(c)
    \/ \E s \in {"finished", "failed"} : TaskEnds(c, s)

Next ==
    \/ \E c \in Calls : CallStep(c) \/ ServerStep(c)
    \/ \E i \in Ids : Release(i)
    \/ Start \/ Stop \/ Stopped

Spec == Init /\ [][Next]_vars

\* Timers that are due fire; the network delivers a $cancel.  Nothing is
\* assumed of replies, tasks and callers.
Fairness == \A c \in Calls : WF_vars(Timer(c)) /\ WF_vars(Wake(c)) /\ WF_vars(DeliverCancel(c))

FairSpec == Spec /\ Fairness
-----------------------------------------------------------------------------
(***************************************************************************)
(* Properties.                                                             *)
(***************************************************************************)
\* The state is well formed, and so are request, reply and table of a call.
TypeOK ==
    /\ kind \in Kinds /\ link \in {"off", "on", "closing"}
    /\ pending \in [Keys -> Calls \cup {NoCall}]
    /\ defaultId \in Ids \cup {NoId}
    /\ defaultTimeout \in Nat \cup {Unset}
    /\ opt \in [Calls -> Options]
    /\ id \in [Calls -> Ids \cup {NoId}]
    /\ limit \in [Calls -> Nat \cup {Unset}]
    /\ at \in [Calls -> {"idle", "fetching", "sleeping", "polling", "reading", "done"}]
    /\ armed \in [Calls -> BOOLEAN] /\ aborted \in [Calls -> BOOLEAN]
    /\ outcome \in [Calls -> Outcomes]
    /\ request \in [Calls -> {"none", "call", "get"}]
    /\ reply \in [Calls -> (Keys \X Bodies) \cup {NoReply}]
    /\ cancel \in [Calls -> {"none", "sent", "received"}]
    /\ owner \in [Ids -> Calls \cup {NoCall}]
    /\ stage \in [Calls -> {"absent", "running", "finished", "failed", "aborted", "turnedAway"}]
    /\ awaited \in [Calls -> BOOLEAN]

\* The mailbox client's table holds exactly the fetches that are outstanding,
\* each under its own key, however replies, timers, aborts, failures to post
\* and stop() race.
PendingExact ==
    kind = "mailbox" =>
        \A c \in Calls : {k \in Keys : pending[k] = c} = IF Fetching(c) THEN {Ticket(c)} ELSE {}

\* The local timer runs exactly while a fetch of a call with a deadline is
\* outstanding: never in the wait between polls, where it would fire into the
\* next one, and never not.
TimerFollowsFetch == \A c \in Calls : armed[c] <=> Fetching(c) /\ Arms(limit[c])

\* A caller is given a value only if its own task has finished.
ValueIsEarned == \A c \in Calls : outcome[c] = "value" => stage[c] = "finished"

\* If the caller or the tool declares "no deadline", the client sets none.
NoDeadlineIsKept ==
    \A c \in Calls : 0 \in {opt[c].timeout, opt[c].tool} => outcome[c] # "timeout"

\* After an abort the call sends nothing more, on whichever side of a reply or
\* a wait the abort came.
SilentAfterAbort ==
    [][\A c \in Calls : aborted[c] => request'[c] \in {request[c], "none"}]_vars

\* Once a $cancel is on its way, the task it is for does not run on.
CancelEndsTask == \A c \in Calls : cancel[c] = "sent" /\ stage[c] = "running" ~> stage[c] # "running"

\* A call with a deadline ends, or at least gets as far as the body of an
\* HTTP response, even if no reply ever comes.
CallsSettle ==
    \A c \in Calls : at[c] # "idle" /\ Arms(limit[c]) ~> at[c] \in {"reading", "done"}
-----------------------------------------------------------------------------
(***************************************************************************)
(* What the code's documents and comments say, and the code does not do.   *)
(***************************************************************************)
\* executeWithPolling: after a poll "it must be completed or failed".
NeverEnvelope == \A c \in Calls : outcome[c] # "envelope"

\* README.cn.md 2.2: the id of a request is globally unique.
RequestIdsAreOwn == \A c, d \in Calls : c # d /\ id[c] = id[d] => id[c] = NoId
=============================================================================
