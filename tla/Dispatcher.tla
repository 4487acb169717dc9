----------------------------- MODULE Dispatcher -----------------------------
(***************************************************************************)
(* RpcServerDispatcher.dispatch with the task ledger, the deadline guard,  *)
(* the built-in rpcTask endpoints and the stream a call may answer with.   *)
(*                                                                         *)
(* The program is single-threaded: an action is one macrotask (an incoming *)
(* request, a timer, a settling promise, a stream event) together with the *)
(* microtasks it triggers.  Which timer fires first is left open, because  *)
(* every duration is configurable; the relative clocks of TaskHandle       *)
(* advance with Tick.                                                      *)
(***************************************************************************)
EXTENDS TaskHandle, FiniteSets

CONSTANTS
    Calls,              \* invocations of dispatch()
    Ids,                \* request ids
    NoCall,             \* "no handle" / "no stream"
    NoId,               \* the request id of a call not yet made
    RuntimeLimit,       \* maxTaskRuntimeMs > 0
    MayStop,            \* may tracker.stop() be called?
    ReleasedIdsReused   \* may a request carry an id whose task has left the ledger?

ASSUME DispatcherAssumption ==
    /\ NoCall \notin Calls
    /\ NoId \notin Ids
    /\ RuntimeLimit \in BOOLEAN
    /\ MayStop \in BOOLEAN
    /\ ReleasedIdsReused \in BOOLEAN

NoTool == [stream |-> FALSE, keepAlive |-> FALSE, deadline |-> FALSE,
           mode |-> "none", window |-> 0, max |-> 0]

VARIABLES
    sweeping, \* sweepInterval is running
    ledger,   \* RpcActiveTaskTracker.tasks: the call whose handle an id maps to
    phase,    \* where each call of dispatch() stands, or how it was answered
    reqId,    \* request.requestId
    tool,     \* the tool it runs
    promise,  \* executionPromise
    signal,   \* abortController.signal.aborted
    handle,   \* the RpcActiveTaskHandle made for the call
    guard,    \* which timer of its RpcDeadlineGuard is armed
    pipe,     \* the stream it answered with
    target,   \* the handle its onClose callback closes over
    output    \* handle.outputStream: the call whose stream a handle holds

vars == <<sweeping, ledger, phase, reqId, tool, promise, signal, handle, guard, pipe, target, output>>

Answers == {"ok", "stream", "error", "timeout", "processing", "conflict", "refused"}
Phases == {"idle", "waiting"} \cup Answers
Promises == {"none", "pending", "value", "stream", "failed"}
Guards == {"off", "soft", "hard", "grace"}
Pipes == {"none", "open", "reading", "ended", "cancelled", "closed"}

TypeOK ==
    /\ sweeping \in BOOLEAN
    /\ ledger \in [Ids -> Calls \cup {NoCall}]
    /\ phase \in [Calls -> Phases]
    /\ reqId \in [Calls -> Ids \cup {NoId}]
    /\ tool \in [Calls -> Tools \cup {NoTool}]
    /\ promise \in [Calls -> Promises]
    /\ signal \in [Calls -> BOOLEAN]
    /\ handle \in [Calls -> Handle]
    /\ guard \in [Calls -> Guards]
    /\ pipe \in [Calls -> Pipes]
    /\ target \in [Calls -> Calls \cup {NoCall}]
    /\ output \in [Calls -> Calls \cup {NoCall}]

Init ==
    /\ sweeping = TRUE
    /\ ledger = [i \in Ids |-> NoCall]
    /\ phase = [c \in Calls |-> "idle"]
    /\ reqId = [c \in Calls |-> NoId]
    /\ tool = [c \in Calls |-> NoTool]
    /\ promise = [c \in Calls |-> "none"]
    /\ signal = [c \in Calls |-> FALSE]
    /\ handle = [c \in Calls |-> NewHandle(NoTool, FALSE)]
    /\ guard = [c \in Calls |-> "off"]
    /\ pipe = [c \in Calls |-> "none"]
    /\ target = [c \in Calls |-> NoCall]
    /\ output = [c \in Calls |-> NoCall]

(***************************************************************************)
(* A call is accepted when tracker.add let its handle into the ledger.     *)
(***************************************************************************)
Accepted(c) == phase[c] \notin {"idle", "conflict", "refused"}

Holds(c) == reqId[c] \in Ids /\ ledger[reqId[c]] = c

\* checkImmediateCleanup(i) against the handles hs: whoever holds i is
\* touched, and removed when its retention is over.
CleanedHandles(hs, i) ==
    IF ledger[i] = NoCall THEN hs ELSE [hs EXCEPT ![ledger[i]] = Touch(@)]
\* Variant: an answered id is free again.
CleanedLedgerAlways(hs, i) == [ledger EXCEPT ![i] = NoCall]

CleanedLedger(hs, i) ==
    IF ledger[i] # NoCall /\ ShouldCleanup(hs[ledger[i]], tool[ledger[i]])
    THEN [ledger EXCEPT ![i] = NoCall]
    ELSE ledger

CheckImmediateCleanup(hs, i) ==
    /\ handle' = CleanedHandles(hs, i)
    /\ ledger' = CleanedLedger(hs, i)

(***************************************************************************)
(* handle.abort() of every call in S.  The abort listener of a signal runs *)
(* once; it cancels the output stream unless a reader has locked it.       *)
(***************************************************************************)
Hit(S) == {c \in S : Live(handle[c])}
Fired(S) == {c \in Hit(S) : ~signal[c]}

AbortedHandles(S) == [c \in Calls |-> IF c \in Fired(S) THEN HandleAbort(handle[c]) ELSE handle[c]]
AbortedPipes(S) ==
    [c \in Calls |-> IF pipe[c] = "open" /\ \E h \in Fired(S) : output[h] = c
                     THEN "cancelled" ELSE pipe[c]]
\* Variant: abort() updates the handle and forgets the controller.
AbortSignalsMuted(S) == signal

AbortSignals(S) == [c \in Calls |-> signal[c] \/ c \in Hit(S)]
-----------------------------------------------------------------------------
\* resolveTool throws: unknown tool (404), or a stream is asked of a tool
\* that has none (400).  The error path still runs checkImmediateCleanup.
Refuse(c, i) ==
    /\ phase[c] = "idle"
    /\ phase' = [phase EXCEPT ![c] = "refused"]
    /\ reqId' = [reqId EXCEPT ![c] = i]
    /\ CheckImmediateCleanup(handle, i)
    /\ UNCHANGED <<sweeping, tool, promise, signal, guard, pipe, target, output>>

\* performExecution and the handle's constructor, common to both outcomes
\* of tracker.add.
Execute(c, i, t) ==
    /\ phase[c] = "idle"
    /\ reqId' = [reqId EXCEPT ![c] = i]
    /\ tool' = [tool EXCEPT ![c] = t]
    /\ promise' = [promise EXCEPT ![c] = "pending"]

\* Variant: tasks.set without tasks.has.
TrackOver(c, i, t) ==
    /\ Execute(c, i, t)
    /\ phase' = [phase EXCEPT ![c] = "waiting"]
    /\ handle' = [handle EXCEPT ![c] = NewHandle(t, RuntimeLimit)]
    /\ ledger' = [ledger EXCEPT ![i] = c]
    /\ guard' = [guard EXCEPT ![c] = IF ~t.deadline THEN "off"
                                     ELSE IF t.keepAlive THEN "soft" ELSE "hard"]
    /\ UNCHANGED <<sweeping, signal, pipe, target, output>>

\* The id is free: the handle is registered and the guard started.
Track(c, i, t) ==
    /\ ledger[i] = NoCall
    /\ ReleasedIdsReused \/ \A d \in Calls : Accepted(d) => reqId[d] # i
    /\ Execute(c, i, t)
    /\ phase' = [phase EXCEPT ![c] = "waiting"]
    /\ handle' = [handle EXCEPT ![c] = NewHandle(t, RuntimeLimit)]
    /\ ledger' = [ledger EXCEPT ![i] = c]
    /\ guard' = [guard EXCEPT ![c] = IF ~t.deadline THEN "off"
                                     ELSE IF t.keepAlive THEN "soft" ELSE "hard"]
    /\ UNCHANGED <<sweeping, signal, pipe, target, output>>

\* The id is taken: tracker.add throws 409, the tool is already running.
Conflict(c, i, t) ==
    /\ ledger[i] # NoCall
    /\ Execute(c, i, t)
    /\ phase' = [phase EXCEPT ![c] = "conflict"]
    /\ CheckImmediateCleanup([handle EXCEPT ![c] = NewHandle(t, RuntimeLimit)], i)
    /\ UNCHANGED <<sweeping, signal, guard, pipe, target, output>>
-----------------------------------------------------------------------------
\* Variant: no guard.cancel().
AnswerUnguarded(c, a, hs) ==
    /\ phase' = [phase EXCEPT ![c] = a]
    /\ UNCHANGED guard
    /\ CheckImmediateCleanup(hs, reqId[c])

\* The race in waitForResult is over: the guard is cancelled, the call is
\* answered, and the ledger entry of its id is looked at again.
Answer(c, a, hs) ==
    /\ phase' = [phase EXCEPT ![c] = a]
    /\ guard' = [guard EXCEPT ![c] = "off"]
    /\ CheckImmediateCleanup(hs, reqId[c])

\* A promise settling after its call was answered only reaches its handle.
Late(c, hs) ==
    /\ phase[c] # "waiting"
    /\ handle' = hs
    /\ UNCHANGED <<ledger, phase, guard>>

SettleValue(c) ==
    LET hs == [handle EXCEPT ![c] = Resolve(@)] IN
    /\ promise[c] = "pending"
    /\ promise' = [promise EXCEPT ![c] = "value"]
    /\ Late(c, hs) \/ (phase[c] = "waiting" /\ Answer(c, "ok", hs))
    /\ UNCHANGED <<sweeping, reqId, tool, signal, pipe, target, output>>

\* terminated: the tool itself threw an AbortError or a code 408.
SettleError(c, terminated) ==
    LET hs == [handle EXCEPT ![c] = Reject(@, terminated \/ signal[c])] IN
    /\ promise[c] = "pending"
    /\ promise' = [promise EXCEPT ![c] = "failed"]
    /\ \/ Late(c, hs)
       \/ phase[c] = "waiting" /\ Answer(c, IF terminated THEN "timeout" ELSE "error", hs)
    /\ UNCHANGED <<sweeping, reqId, tool, signal, pipe, target, output>>

\* The tool returned a ReadableStream.  The handle its closing will be
\* reported to is looked up by request id, after the await.
SettleStream(c) ==
    LET hs == [handle EXCEPT ![c] = Resolve(@)]
        h  == ledger[reqId[c]]
    IN
    /\ promise[c] = "pending"
    /\ promise' = [promise EXCEPT ![c] = "stream"]
    /\ \/ /\ Late(c, hs)
          /\ UNCHANGED <<pipe, target, output>>
       \/ /\ phase[c] = "waiting"
          /\ pipe' = [pipe EXCEPT ![c] = "open"]
          /\ target' = [target EXCEPT ![c] = h]
          /\ IF h = NoCall
             THEN /\ Answer(c, "stream", hs)
                  /\ UNCHANGED output
             ELSE /\ Answer(c, "stream", [hs EXCEPT ![h] = SetOutputStream(@)])
                  /\ output' = [output EXCEPT ![h] = c]
    /\ UNCHANGED <<sweeping, reqId, tool, signal>>
-----------------------------------------------------------------------------
\* keepAliveOnTimeout: the soft timer answers 102, the task goes on.
SoftDeadline(c) ==
    /\ guard[c] = "soft"
    /\ Answer(c, "processing", handle)
    /\ UNCHANGED <<sweeping, reqId, tool, promise, signal, pipe, target, output>>

\* Variant: the tool is told to stop and trusted to do so.
HardDeadlineUngraced(c) ==
    /\ guard[c] = "hard"
    /\ guard' = [guard EXCEPT ![c] = "off"]
    /\ handle' = AbortedHandles({c})
    /\ pipe' = AbortedPipes({c})
    /\ signal' = [signal EXCEPT ![c] = TRUE]
    /\ UNCHANGED <<sweeping, ledger, phase, reqId, tool, promise, target, output>>

\* The hard timer fires the signal and starts the grace timer.
HardDeadline(c) ==
    /\ guard[c] = "hard"
    /\ guard' = [guard EXCEPT ![c] = "grace"]
    /\ handle' = AbortedHandles({c})
    /\ pipe' = AbortedPipes({c})
    /\ signal' = [signal EXCEPT ![c] = TRUE]
    /\ UNCHANGED <<sweeping, ledger, phase, reqId, tool, promise, target, output>>

\* The grace timer rejects the race with code 408, which is answered 504.
GraceExpired(c) ==
    /\ guard[c] = "grace"
    /\ Answer(c, "timeout", handle)
    /\ UNCHANGED <<sweeping, reqId, tool, promise, signal, pipe, target, output>>

Abort(S) ==
    /\ handle' = AbortedHandles(S)
    /\ pipe' = AbortedPipes(S)
    /\ signal' = AbortSignals(S)

\* maxRuntimeMs
RuntimeExpired(c) ==
    /\ handle[c].timer
    /\ LET hs == AbortedHandles({c})
       IN handle' = [hs EXCEPT ![c].timer = FALSE]
    /\ pipe' = AbortedPipes({c})
    /\ signal' = AbortSignals({c})
    /\ UNCHANGED <<sweeping, ledger, phase, reqId, tool, promise, guard, target, output>>
-----------------------------------------------------------------------------
\* The HTTP transport pipes the stream into its response (and locks it).
StartSending(c) ==
    /\ pipe[c] = "open"
    /\ pipe' = [pipe EXCEPT ![c] = "reading"]
    /\ UNCHANGED <<sweeping, ledger, phase, reqId, tool, promise, signal, handle, guard, target, output>>

\* The source is exhausted: the transformer flushes and calls onClose, which
\* closes the handle found at SettleStream and removes whoever holds the id.
StreamEnd(c) ==
    LET h  == target[c]
        hs == [handle EXCEPT ![h] = StreamClosed(@)]
    IN
    /\ pipe[c] \in {"open", "reading"}
    /\ pipe' = [pipe EXCEPT ![c] = "ended"]
    /\ IF h = NoCall
       THEN UNCHANGED <<handle, ledger>>
       ELSE /\ handle' = hs
            /\ ledger' = IF ShouldCleanup(hs[h], tool[h])
                         THEN [ledger EXCEPT ![reqId[c]] = NoCall]
                         ELSE ledger
    /\ UNCHANGED <<sweeping, phase, reqId, tool, promise, signal, guard, target, output>>

\* The 'close' event of a streamed response, after its last byte or because
\* the client has gone: the task is looked up by request id and aborted, and
\* the reader destroyed.
ResponseClosed(c) ==
    LET h  == ledger[reqId[c]]
        S  == IF h = NoCall THEN {} ELSE {h}
        hs == AbortedHandles(S)
    IN
    /\ pipe[c] \in {"reading", "ended"}
    /\ pipe' = [AbortedPipes(S) EXCEPT ![c] = "closed"]
    /\ handle' = IF h = NoCall THEN hs ELSE [hs EXCEPT ![h] = Touch(@)]
    /\ signal' = AbortSignals(S)
    /\ UNCHANGED <<sweeping, ledger, phase, reqId, tool, promise, guard, target, output>>
-----------------------------------------------------------------------------
\* rpcTask.get on a task that has an answer: tracker.get touches it, and a
\* completed one is counted as fetched.  (404 changes nothing.)
PollGet(i) ==
    /\ ledger[i] # NoCall
    /\ handle' = [handle EXCEPT ![ledger[i]] =
                    IF @.status = "completed" THEN Fetch(@) ELSE Touch(@)]
    /\ UNCHANGED <<sweeping, ledger, phase, reqId, tool, promise, signal, guard, pipe, target, output>>

\* rpcTask.$cancel
PollCancel(i) ==
    LET hs == AbortedHandles({ledger[i]}) IN
    /\ ledger[i] # NoCall
    /\ handle' = [hs EXCEPT ![ledger[i]] = Touch(@)]
    /\ pipe' = AbortedPipes({ledger[i]})
    /\ signal' = AbortSignals({ledger[i]})
    /\ UNCHANGED <<sweeping, ledger, phase, reqId, tool, promise, guard, target, output>>

\* Variant: only completed tasks are collected.
DueWhenCompleted(c) == handle[c].status = "completed" /\ ShouldCleanup(handle[c], tool[c])

\* One run of the 60-second interval over all entries.
Due(c) == ShouldCleanup(handle[c], tool[c])
Sweep ==
    LET held    == {c \in Calls : Holds(c)}
        due     == {c \in held : Due(c)}
        expired == {c \in held \ due : HeartbeatExpired(handle[c])}
    IN
    /\ Abort(expired)
    /\ sweeping = TRUE
    /\ ledger' = [i \in Ids |-> IF ledger[i] \in due \cup expired THEN NoCall ELSE ledger[i]]
    /\ UNCHANGED <<sweeping, phase, reqId, tool, promise, guard, target, output>>

\* RpcActiveTaskTracker.stop()
Stop ==
    /\ MayStop
    /\ sweeping' = FALSE
    /\ Abort({c \in Calls : Holds(c)})
    /\ ledger' = [i \in Ids |-> NoCall]
    /\ UNCHANGED <<phase, reqId, tool, promise, guard, target, output>>

Tick ==
    /\ handle' = [c \in Calls |-> IF phase[c] = "idle" THEN handle[c] ELSE Elapse(handle[c])]
    /\ UNCHANGED <<sweeping, ledger, phase, reqId, tool, promise, signal, guard, pipe, target, output>>
-----------------------------------------------------------------------------
Incoming(c) ==
    \E i \in Ids : Refuse(c, i) \/ \E t \in Tools : Track(c, i, t) \/ Conflict(c, i, t)
Settle(c) == SettleValue(c) \/ SettleStream(c) \/ \E b \in BOOLEAN : SettleError(c, b)
Deadline(c) == SoftDeadline(c) \/ HardDeadline(c) \/ GraceExpired(c)
Streaming(c) == StartSending(c) \/ StreamEnd(c) \/ ResponseClosed(c)

Next ==
    \/ \E c \in Calls : Incoming(c) \/ Settle(c) \/ Deadline(c) \/ RuntimeExpired(c) \/ Streaming(c)
    \/ \E i \in Ids : PollGet(i) \/ PollCancel(i)
    \/ Sweep \/ Stop \/ Tick

Spec == Init /\ [][Next]_vars

(***************************************************************************)
(* Timers that are armed fire, and the sweep interval recurs.  Nothing is  *)
(* assumed of tools, of clients or of streams.                             *)
(***************************************************************************)
Timers == \A c \in Calls : WF_vars(Deadline(c)) /\ WF_vars(RuntimeExpired(c))
FairSpec == Spec /\ Timers /\ WF_vars(Sweep)
-----------------------------------------------------------------------------
(***************************************************************************)
(* An accepted task that is still running is always in the ledger under    *)
(* its own id, so that it can be polled, cancelled and expired:            *)
(* checkImmediateCleanup, the stream's onClose and the sweep, which all    *)
(* remove by id, never remove a running task.                              *)
(***************************************************************************)
NoLostTask == \A c \in Calls : Accepted(c) /\ handle[c].status = "processing" => Holds(c)

(***************************************************************************)
(* While a tool runs, the abort signal it was given has fired exactly when *)
(* its handle says 'aborted': no task is written off without being told,   *)
(* and none is told to stop while the ledger still shows it processing.    *)
(***************************************************************************)
SignalAndStatusAgree ==
    \A c \in Calls : promise[c] = "pending" => (signal[c] <=> handle[c].status = "aborted")

(***************************************************************************)
(* A timer of the deadline guard is armed exactly while a call with a      *)
(* deadline waits: no answered call is aborted by its old deadline, and    *)
(* none is left waiting with its deadline disarmed.                        *)
(***************************************************************************)
GuardArmedWhileWaiting ==
    \A c \in Calls : guard[c] # "off" <=> phase[c] = "waiting" /\ tool[c].deadline

(***************************************************************************)
(* tool.cleanup is never run under the feet of a task that is still        *)
(* processing: neither an abort nor the end of a stream releases the       *)
(* resources of another call.                                              *)
(***************************************************************************)
CleanupAfterEnd ==
    \A c \in Calls : handle[c].cleanups > 0 => handle[c].status # "processing"

(***************************************************************************)
(* A stream reports its end to the handle of the call that produced it,    *)
(* and a handle can only cancel its own call's stream, although both are   *)
(* looked up by request id after the tool has been awaited.                *)
(***************************************************************************)
StreamsStayHome ==
    \A c \in Calls : target[c] \in {c, NoCall} /\ output[c] \in {c, NoCall}

(***************************************************************************)
(* A finished task whose retention is not over is only dropped when the    *)
(* tracker stops: a result announced for polling stays there to be polled. *)
(***************************************************************************)
ResultsKept ==
    [][\A i \in Ids : LET c == ledger[i] IN
         c # NoCall /\ handle[c].status # "processing" /\ ledger'[i] # c
           => ShouldCleanup(handle'[c], tool[c]) \/ ~sweeping']_vars

\* A call with a deadline is answered, whatever its tool does.
DeadlineAnswers ==
    \A c \in Calls : phase[c] = "waiting" /\ tool[c].deadline ~> phase[c] # "waiting"

\* With a runtime limit no handle stays processing for ever, not even that of
\* a tool started by a request that was turned away with 409.
RuntimeLimitEndsTasks ==
    \A c \in Calls : promise[c] # "none" /\ handle[c].status = "processing"
                       ~> handle[c].status # "processing"

\* With a runtime limit, a task of retention None that neither is declared a
\* stream nor returns one leaves the ledger.
LedgerDrains ==
    \A c \in Calls : Holds(c) /\ tool[c].mode = "none" /\ ~tool[c].stream
                       ~> ~Holds(c) \/ promise[c] = "stream" \/ ~sweeping
-----------------------------------------------------------------------------
(***************************************************************************)
(* What the code's documents and comments say, and the code does not do.   *)
(***************************************************************************)
\* README.cn.md 4.1: the 409 check keeps a duplicate from being executed.
DuplicateNeverRuns == \A c \in Calls : phase[c] = "conflict" => promise[c] = "none"

=============================================================================
