----------------------------- MODULE TaskHandle -----------------------------
(***************************************************************************)
(* RpcActiveTaskHandle (task-tracker.ts) as a value: what each of its      *)
(* methods makes of the handle's fields.  Time is relative: `age' stands   *)
(* for now - completedAt and `idle' for now - lastAccessed, both           *)
(* saturating at MaxAge, which lies beyond every window the code compares  *)
(* them with.  A fetch or cleanup counter is 0, 1 or 2, 2 meaning "more    *)
(* than once".                                                             *)
(***************************************************************************)
EXTENDS Naturals

CONSTANTS
    Tools,   \* the tool configurations that calls may name
    MaxAge,  \* where the relative clocks saturate
    TTL      \* heartbeat TTL: RpcActiveTaskTracker's ttlMs

Statuses == {"processing", "completed", "error", "aborted"}
Modes == {"none", "once", "timed", "permanent"}
Counts == 0..2
Ages == 0..MaxAge

(***************************************************************************)
(* What the dispatcher reads from a tool: whether it is declared a stream  *)
(* tool, whether its timeout object says keepAliveOnTimeout, whether the   *)
(* negotiated timeout is positive, and its normalised retention: `window'  *)
(* is onceFallbackMs or the number of milliseconds, `max' maxRetentionMs   *)
(* (0 = not set).                                                          *)
(***************************************************************************)
Tool == [stream : BOOLEAN, keepAlive : BOOLEAN, deadline : BOOLEAN,
         mode : Modes, window : Nat, max : Nat]

ASSUME HandleAssumption ==
    /\ Tools \subseteq Tool
    /\ MaxAge \in Nat
    /\ TTL \in Nat
    /\ TTL < MaxAge
    /\ \A t \in Tools : t.window < MaxAge /\ t.max < MaxAge

Handle == [status : Statuses, streamPending : BOOLEAN, timer : BOOLEAN,
           fetchCount : Counts, cleanups : Counts, age : Ages, idle : Ages]

Bump(n) == IF n = 2 THEN 2 ELSE n + 1
Older(n) == IF n = MaxAge THEN MaxAge ELSE n + 1

\* Variant: background tasks get no runtime timer.
NewHandleUntimed(t, limited) ==
    [status |-> "processing", streamPending |-> t.stream, timer |-> limited /\ ~t.keepAlive,
     fetchCount |-> 0, cleanups |-> 0, age |-> 0, idle |-> 0]

\* constructor: a runtime timer is armed when maxRuntimeMs > 0.
NewHandle(t, limited) ==
    [status |-> "processing", streamPending |-> t.stream, timer |-> limited,
     fetchCount |-> 0, cleanups |-> 0, age |-> 0, idle |-> 0]

Touch(h) == [h EXCEPT !.idle = 0]

\* abort() and handleAbort() both do nothing unless this holds.
Live(h) == h.status # "processing" => h.streamPending

\* Variant: the status is left for the promise to set.
HandleAbortKeepingStatus(h) ==
    IF Live(h)
    THEN [h EXCEPT !.streamPending = FALSE, !.timer = FALSE, !.age = 0, !.cleanups = Bump(@)]
    ELSE [h EXCEPT !.timer = FALSE]

HandleAbort(h) ==
    IF Live(h)
    THEN [h EXCEPT !.status = "aborted", !.streamPending = FALSE,
                   !.timer = FALSE, !.age = 0, !.cleanups = Bump(@)]
    ELSE [h EXCEPT !.timer = FALSE]

\* Variant: a late value overwrites an abort.
ResolveAnyway(h) == [h EXCEPT !.status = "completed", !.timer = FALSE, !.age = 0]

\* promise.then: completedAt is set, streamPending is left as it was.
Resolve(h) ==
    IF h.status = "processing"
    THEN [h EXCEPT !.status = "completed", !.timer = FALSE, !.age = 0]
    ELSE [h EXCEPT !.timer = FALSE]

\* Variant: a status that rpcTask.get does not know.
RejectMisnamed(h, terminated) ==
    IF h.status = "processing"
    THEN [h EXCEPT !.status = IF terminated THEN "aborted" ELSE "failed",
                   !.timer = FALSE, !.age = 0, !.streamPending = FALSE]
    ELSE [h EXCEPT !.timer = FALSE]

\* promise.catch: `terminated' says that the signal has fired or that the
\* error is an AbortError or carries code 408.
Reject(h, terminated) ==
    IF h.status = "processing"
    THEN [h EXCEPT !.status = IF terminated THEN "aborted" ELSE "error",
                   !.timer = FALSE, !.age = 0, !.streamPending = FALSE]
    ELSE [h EXCEPT !.timer = FALSE]

SetOutputStream(h) == [h EXCEPT !.streamPending = TRUE]

\* onClose of the dispatcher's transformer: markStreamFinished, onCleanup.
StreamClosed(h) ==
    [h EXCEPT !.streamPending = FALSE, !.timer = FALSE, !.age = 0,
              !.cleanups = Bump(@)]

Fetch(h) == [h EXCEPT !.fetchCount = Bump(@), !.idle = 0]

ShouldCleanup(h, t) ==
    /\ h.status # "processing"
    /\ ~h.streamPending
    /\ \/ t.max > 0 /\ h.age > t.max
       \/ t.mode = "none"
       \/ t.mode = "once" /\ (h.fetchCount > 0 \/ (t.window > 0 /\ h.age > t.window))
       \/ t.mode = "timed" /\ h.age > t.window

\* Variant: results wait for no one either.
HeartbeatExpiredAlways(h) == h.idle > TTL

HeartbeatExpired(h) == h.status = "processing" /\ h.idle > TTL

\* One tick of the relative clocks.
Elapse(h) == [h EXCEPT !.idle = Older(@),
                       !.age = IF h.status = "processing" THEN @ ELSE Older(@)]
=============================================================================
