-------------------------- MODULE DispatcherProofs --------------------------
(***************************************************************************)
(* Theorems about Dispatcher for any set of calls, request ids and tools.  *)
(***************************************************************************)
EXTENDS Dispatcher, TLAPS

(***************************************************************************)
(* What the methods of RpcActiveTaskHandle do to a handle's type and       *)
(* status, for any tool configurations, TTL and clock bound.               *)
(***************************************************************************)
\* A counter bumped or a clock advanced stays in its range.
LEMMA SaturationType ==
    /\ \A n \in Counts : Bump(n) \in Counts
    /\ \A n \in Ages : Older(n) \in Ages
  BY HandleAssumption DEF Counts, Ages, Bump, Older

\* Every method maps handles to handles.
LEMMA HandleOperations ==
    ASSUME NEW h \in Handle
    PROVE  /\ Touch(h) \in Handle
           /\ HandleAbort(h) \in Handle
           /\ Resolve(h) \in Handle
           /\ \A b \in BOOLEAN : Reject(h, b) \in Handle
           /\ SetOutputStream(h) \in Handle
           /\ StreamClosed(h) \in Handle
           /\ Fetch(h) \in Handle
           /\ Elapse(h) \in Handle
           /\ [h EXCEPT !.timer = FALSE] \in Handle
  <1>1. 0 \in Ages
    BY HandleAssumption DEF Ages
  <1>2. /\ Bump(h.fetchCount) \in Counts
        /\ Bump(h.cleanups) \in Counts
        /\ Older(h.age) \in Ages
        /\ Older(h.idle) \in Ages
    BY SaturationType DEF Handle
  <1>3. \A b \in BOOLEAN : Reject(h, b) \in Handle
    BY <1>1 DEF Handle, Statuses, Reject
  <1>4. QED
    BY <1>1, <1>2, <1>3 DEF Handle, Statuses, Touch, HandleAbort, Resolve,
       SetOutputStream, StreamClosed, Fetch, Elapse

\* A new handle is processing and has not been cleaned up.
LEMMA NewHandleType ==
    ASSUME NEW t \in Tool, NEW b \in BOOLEAN
    PROVE  /\ NewHandle(t, b) \in Handle
           /\ NewHandle(t, b).status = "processing"
           /\ NewHandle(t, b).cleanups = 0
  BY HandleAssumption DEF NewHandle, Handle, Tool, Statuses, Counts, Ages

\* Only a promise that settles, or an abort, ends the processing status.
LEMMA StatusKept ==
    ASSUME NEW h \in Handle
    PROVE  /\ Touch(h).status = h.status
           /\ SetOutputStream(h).status = h.status
           /\ StreamClosed(h).status = h.status
           /\ Fetch(h).status = h.status
           /\ Elapse(h).status = h.status
           /\ [h EXCEPT !.timer = FALSE].status = h.status
  BY DEF Handle, Touch, SetOutputStream, StreamClosed, Fetch, Elapse

\* The runtime timer does not survive the end of a task.
LEMMA TimerKept ==
    ASSUME NEW h \in Handle
    PROVE  /\ ~Resolve(h).timer
           /\ \A b \in BOOLEAN : ~Reject(h, b).timer
           /\ ~HandleAbort(h).timer
           /\ ~StreamClosed(h).timer
           /\ SetOutputStream(h).timer = h.timer
           /\ Touch(h).timer = h.timer
           /\ Fetch(h).timer = h.timer
  <1>1. /\ ~Resolve(h).timer
        /\ ~HandleAbort(h).timer
        /\ ~StreamClosed(h).timer
    BY DEF Handle, Resolve, HandleAbort, StreamClosed
  <1>2. \A b \in BOOLEAN : ~Reject(h, b).timer
    BY DEF Handle, Reject
  <1>3. /\ SetOutputStream(h).timer = h.timer
        /\ Touch(h).timer = h.timer
        /\ Fetch(h).timer = h.timer
    BY DEF Handle, SetOutputStream, Touch, Fetch
  <1>4. QED
    BY <1>1, <1>2, <1>3

\* A promise that settles leaves no handle processing, and changes no other
\* status; an abort makes a live handle 'aborted' and leaves others alone.
LEMMA StatusSettled ==
    ASSUME NEW h \in Handle
    PROVE  /\ Resolve(h).status = IF h.status = "processing" THEN "completed" ELSE h.status
           /\ \A b \in BOOLEAN :
                Reject(h, b).status = IF h.status # "processing" THEN h.status
                                      ELSE IF b THEN "aborted" ELSE "error"
           /\ HandleAbort(h).status = IF Live(h) THEN "aborted" ELSE h.status
           /\ h.status = "processing" => Live(h)
  BY DEF Handle, Resolve, Reject, HandleAbort, Live

\* The cleanup hook is run by an abort or the end of a stream, nothing else.
LEMMA CleanupsKept ==
    ASSUME NEW h \in Handle
    PROVE  /\ Touch(h).cleanups = h.cleanups
           /\ Resolve(h).cleanups = h.cleanups
           /\ \A b \in BOOLEAN : Reject(h, b).cleanups = h.cleanups
           /\ SetOutputStream(h).cleanups = h.cleanups
           /\ Fetch(h).cleanups = h.cleanups
           /\ Elapse(h).cleanups = h.cleanups
           /\ [h EXCEPT !.timer = FALSE].cleanups = h.cleanups
  BY DEF Handle, Touch, Resolve, Reject, SetOutputStream, Fetch, Elapse

\* No retention policy lets go of a running task.
LEMMA CleanupSparesRunning ==
    ASSUME NEW h, NEW t, ShouldCleanup(h, t)
    PROVE  h.status # "processing"
  BY DEF ShouldCleanup
-----------------------------------------------------------------------------
(***************************************************************************)
(* The dispatcher                                                          *)
(***************************************************************************)
LEMMA NewCallType == NoTool \in Tool /\ NewHandle(NoTool, FALSE) \in Handle
  <1>1. NoTool \in Tool
    BY DEF NoTool, Tool, Modes
  <1>2. QED
    BY <1>1, NewHandleType

\* The abort of a set of calls keeps the types.
LEMMA AbortType ==
    ASSUME TypeOK, NEW S
    PROVE  /\ AbortedHandles(S) \in [Calls -> Handle]
           /\ AbortedPipes(S) \in [Calls -> Pipes]
           /\ AbortSignals(S) \in [Calls -> BOOLEAN]
  <1>1. \A c \in Calls : HandleAbort(handle[c]) \in Handle
    BY HandleOperations DEF TypeOK
  <1>2. QED
    BY <1>1 DEF TypeOK, AbortedHandles, AbortedPipes, AbortSignals, Pipes

\* The two halves of checkImmediateCleanup keep the types.
LEMMA CleanedType ==
    ASSUME TypeOK, NEW hs \in [Calls -> Handle], NEW i
    PROVE  /\ i \in Ids => CleanedHandles(hs, i) \in [Calls -> Handle]
           /\ CleanedLedger(hs, i) \in [Ids -> Calls \cup {NoCall}]
  <1>1. \A c \in Calls : Touch(hs[c]) \in Handle
    BY HandleOperations
  <1>2. QED
    BY <1>1 DEF TypeOK, CleanedHandles, CleanedLedger

\* Reading an entry through tracker.get keeps the handle's type.
LEMMA TouchType == \A h \in Handle : Touch(h) \in Handle
  BY HandleOperations

(***************************************************************************)
(* The first part of the inductive invariant holds however ids are used:   *)
(* an entry of the ledger leads to an accepted call that carries its id,   *)
(* and a call not yet made has no promise, signal, timer or stream.        *)
(***************************************************************************)
Addressed == \A c \in Calls : phase[c] # "idle" => reqId[c] \in Ids
Quiet == \A c \in Calls : phase[c] = "idle" =>
            /\ promise[c] = "none" /\ ~signal[c] /\ guard[c] = "off" /\ pipe[c] = "none"
            /\ ~handle[c].timer
LedgerSound == \A i \in Ids : ledger[i] # NoCall => Accepted(ledger[i]) /\ reqId[ledger[i]] = i
WellFormed == TypeOK /\ Addressed /\ Quiet /\ LedgerSound

LEMMA InitWellFormed == Init => WellFormed
  BY NewCallType, NewHandleType, HandleAssumption DEF Init, WellFormed, TypeOK, Addressed, Quiet,
     LedgerSound, Phases, Answers, Promises, Guards, Pipes, NewHandle

\* checkImmediateCleanup can only take an entry away, and moves no timer.
LEMMA CleanupEffect ==
    ASSUME TypeOK, NEW hs \in [Calls -> Handle], NEW i \in Ids, CheckImmediateCleanup(hs, i)
    PROVE  /\ handle' \in [Calls -> Handle]
           /\ ledger' \in [Ids -> Calls \cup {NoCall}]
           /\ \A j \in Ids : ledger'[j] \in {ledger[j], NoCall}
           /\ \A d \in Calls : /\ handle'[d].timer = hs[d].timer
                                /\ handle'[d].status = hs[d].status
                                /\ handle'[d].cleanups = hs[d].cleanups
           /\ \A j \in Ids : ledger[j] # NoCall /\ ledger'[j] = NoCall
                              => hs[ledger[j]].status # "processing"
  <1>1. /\ handle' \in [Calls -> Handle]
        /\ ledger' \in [Ids -> Calls \cup {NoCall}]
    BY CleanedType DEF CheckImmediateCleanup
  <1>2. \A d \in Calls : /\ handle'[d].timer = hs[d].timer
                         /\ handle'[d].status = hs[d].status
                         /\ handle'[d].cleanups = hs[d].cleanups
    BY DEF CheckImmediateCleanup, CleanedHandles, Touch, Handle, TypeOK
  <1>3. \A j \in Ids : ledger'[j] \in {ledger[j], NoCall}
    BY DEF CheckImmediateCleanup, CleanedLedger, TypeOK
  <1>4. ASSUME NEW j \in Ids, ledger[j] # NoCall, ledger'[j] = NoCall
        PROVE  hs[ledger[j]].status # "processing"
    BY <1>4, CleanupSparesRunning DEF CheckImmediateCleanup, CleanedLedger, TypeOK
  <1>5. QED
    BY <1>1, <1>2, <1>3, <1>4

LEMMA RefuseWellFormed ==
    ASSUME WellFormed, NEW c \in Calls, NEW i \in Ids, Refuse(c, i)
    PROVE  WellFormed'
  <1>1. CheckImmediateCleanup(handle, i)
    BY DEF Refuse
  <1>2. /\ handle' \in [Calls -> Handle]
        /\ ledger' \in [Ids -> Calls \cup {NoCall}]
        /\ \A j \in Ids : ledger'[j] \in {ledger[j], NoCall}
        /\ \A d \in Calls : handle'[d].timer = handle[d].timer
    BY <1>1, CleanupEffect DEF WellFormed, TypeOK
  <1>3. TypeOK'
    BY <1>2 DEF Refuse, WellFormed, TypeOK, Phases, Answers
  <1>4. Addressed' /\ Quiet' /\ LedgerSound'
    BY <1>2 DEF Refuse, WellFormed, TypeOK, Addressed, Quiet, LedgerSound, Accepted
  <1>5. QED
    BY <1>3, <1>4 DEF WellFormed

LEMMA IncomingWellFormed ==
    ASSUME WellFormed, NEW c \in Calls, NEW i \in Ids, NEW t \in Tools
    PROVE  Track(c, i, t) \/ Conflict(c, i, t) => WellFormed'
  <1> USE DEF WellFormed
  <1>1. NewHandle(t, RuntimeLimit) \in Handle
    BY NewHandleType, HandleAssumption, DispatcherAssumption
  <1>3. CASE Track(c, i, t)
    BY <1>1, <1>3, DispatcherAssumption
    DEF Track, Execute, TypeOK, Addressed, Quiet, LedgerSound, Accepted, Phases, Answers, Promises, Guards
  <1>4. CASE Conflict(c, i, t)
    <2> DEFINE hs == [handle EXCEPT ![c] = NewHandle(t, RuntimeLimit)]
    <2>1. hs \in [Calls -> Handle] /\ \A d \in Calls \ {c} : hs[d] = handle[d]
      BY <1>1 DEF TypeOK
    <2>2. CheckImmediateCleanup(hs, i)
      BY <1>4 DEF Conflict
    <2> HIDE DEF hs
    <2>3. /\ handle' \in [Calls -> Handle]
          /\ ledger' \in [Ids -> Calls \cup {NoCall}]
          /\ \A j \in Ids : ledger'[j] \in {ledger[j], NoCall}
          /\ \A d \in Calls : handle'[d].timer = hs[d].timer
      BY <2>1, <2>2, CleanupEffect
    <2>4. TypeOK'
      BY <1>4, <2>3 DEF Conflict, Execute, TypeOK, Phases, Answers, Promises
    <2>5. Addressed' /\ LedgerSound'
      BY <1>4, <2>3 DEF Conflict, Execute, TypeOK, Addressed, LedgerSound, Accepted
    <2>6. Quiet'
      BY <1>4, <2>1, <2>3 DEF Conflict, Execute, TypeOK, Quiet
    <2>7. QED
      BY <2>4, <2>5, <2>6
  <1>5. QED
    BY <1>3, <1>4

\* The calls that settle or are answered: hs are the handles before the
\* ledger is looked at.
LEMMA AnswerWellFormed ==
    ASSUME WellFormed, NEW c \in Calls, NEW a \in Answers \ {"conflict", "refused"},
           NEW hs \in [Calls -> Handle],
           \A d \in Calls : phase[d] = "idle" => ~hs[d].timer,
           phase[c] = "waiting", Answer(c, a, hs),
           UNCHANGED <<sweeping, reqId, tool>>,
           signal' = signal, promise' \in [Calls -> Promises],
           pipe' \in [Calls -> Pipes], target' \in [Calls -> Calls \cup {NoCall}],
           output' \in [Calls -> Calls \cup {NoCall}],
           \A d \in Calls \ {c} : promise'[d] = promise[d] /\ pipe'[d] = pipe[d]
    PROVE  WellFormed'
  <1>1. reqId[c] \in Ids /\ TypeOK
    BY DEF WellFormed, Addressed
  <1>2. CheckImmediateCleanup(hs, reqId[c])
    BY DEF Answer
  <1>3. TypeOK'
    BY <1>1, <1>2, CleanupEffect DEF WellFormed, TypeOK, Answer, Phases, Guards
  <1>4. Addressed' /\ Quiet' /\ LedgerSound'
    BY <1>1, <1>2, CleanupEffect
    DEF WellFormed, TypeOK, Addressed, Quiet, LedgerSound, Accepted, Answer, Answers
  <1>5. QED
    BY <1>3, <1>4 DEF WellFormed

LEMMA SettleWellFormed ==
    ASSUME WellFormed, NEW c \in Calls
    PROVE  Settle(c) => WellFormed'
  <1> USE DEF WellFormed
  <1>1. \A h \in Handle : /\ Resolve(h) \in Handle /\ ~Resolve(h).timer
                          /\ \A b \in BOOLEAN : Reject(h, b) \in Handle /\ ~Reject(h, b).timer
                          /\ SetOutputStream(h) \in Handle
                          /\ SetOutputStream(h).timer = h.timer
    BY HandleOperations, TimerKept
  <1>2. ASSUME NEW hs \in [Calls -> Handle], Late(c, hs), promise[c] = "pending",
               promise' \in [Calls -> Promises],
               \A d \in Calls \ {c} : hs[d] = handle[d] /\ promise'[d] = promise[d],
               UNCHANGED <<sweeping, reqId, tool, signal, pipe, target, output>>
        PROVE  WellFormed'
    <2>1. phase[c] # "idle"
      BY <1>2 DEF Quiet
    <2>2. QED
      BY <1>2, <2>1 DEF Late, TypeOK, Addressed, Quiet, LedgerSound, Accepted
  <1>3. CASE SettleValue(c)
    <2> DEFINE hs == [handle EXCEPT ![c] = Resolve(@)]
    <2>1. hs \in [Calls -> Handle] /\ ~hs[c].timer /\ \A d \in Calls \ {c} : hs[d] = handle[d]
      BY <1>1 DEF TypeOK
    <2>2. /\ promise' \in [Calls -> Promises]
          /\ \A d \in Calls \ {c} : promise'[d] = promise[d]
          /\ UNCHANGED <<sweeping, reqId, tool, signal, pipe, target, output>>
          /\ promise[c] = "pending"
          /\ Late(c, hs) \/ (phase[c] = "waiting" /\ Answer(c, "ok", hs))
      BY <1>3 DEF SettleValue, TypeOK, Promises
    <2> HIDE DEF hs
    <2>3. \A d \in Calls : phase[d] = "idle" => ~hs[d].timer
      BY <2>1 DEF Quiet
    <2>4. CASE Late(c, hs)
      BY <1>2, <2>1, <2>2, <2>4
    <2>5. CASE phase[c] = "waiting" /\ Answer(c, "ok", hs)
      BY <2>1, <2>2, <2>3, <2>5, AnswerWellFormed DEF TypeOK, Answers
    <2>6. QED
      BY <2>2, <2>4, <2>5
  <1>4. ASSUME NEW b \in BOOLEAN, SettleError(c, b)
        PROVE  WellFormed'
    <2> DEFINE hs == [handle EXCEPT ![c] = Reject(@, b \/ signal[c])]
               a  == IF b THEN "timeout" ELSE "error"
    <2>1. hs \in [Calls -> Handle] /\ ~hs[c].timer /\ \A d \in Calls \ {c} : hs[d] = handle[d]
      BY <1>1 DEF TypeOK
    <2>2. /\ promise' \in [Calls -> Promises]
          /\ \A d \in Calls \ {c} : promise'[d] = promise[d]
          /\ UNCHANGED <<sweeping, reqId, tool, signal, pipe, target, output>>
          /\ promise[c] = "pending"
          /\ Late(c, hs) \/ (phase[c] = "waiting" /\ Answer(c, a, hs))
      BY <1>4 DEF SettleError, TypeOK, Promises
    <2>0. a \in Answers \ {"conflict", "refused"}
      BY DEF Answers
    <2> HIDE DEF hs, a
    <2>3. \A d \in Calls : phase[d] = "idle" => ~hs[d].timer
      BY <2>1 DEF Quiet
    <2>4. CASE Late(c, hs)
      BY <1>2, <2>1, <2>2, <2>4
    <2>5. CASE phase[c] = "waiting" /\ Answer(c, a, hs)
      BY <2>0, <2>1, <2>2, <2>3, <2>5, AnswerWellFormed DEF TypeOK
    <2>6. QED
      BY <2>2, <2>4, <2>5
  <1>5. CASE SettleStream(c)
    <2> DEFINE hs == [handle EXCEPT ![c] = Resolve(@)]
               h  == ledger[reqId[c]]
               gs == IF h = NoCall THEN hs ELSE [hs EXCEPT ![h] = SetOutputStream(@)]
    <2>1. hs \in [Calls -> Handle] /\ ~hs[c].timer /\ \A d \in Calls \ {c} : hs[d] = handle[d]
      BY <1>1 DEF TypeOK
    <2>2. /\ promise' \in [Calls -> Promises]
          /\ \A d \in Calls \ {c} : promise'[d] = promise[d]
          /\ UNCHANGED <<sweeping, reqId, tool, signal>>
          /\ promise[c] = "pending"
      BY <1>5 DEF SettleStream, TypeOK, Promises
    <2>3. CASE Late(c, hs) /\ UNCHANGED <<pipe, target, output>>
      BY <1>2, <2>1, <2>2, <2>3
    <2>4. CASE /\ phase[c] = "waiting"
               /\ pipe' = [pipe EXCEPT ![c] = "open"]
               /\ target' = [target EXCEPT ![c] = h]
               /\ Answer(c, "stream", gs)
               /\ output' \in {output, [output EXCEPT ![h] = c]}
      <3>1. h \in Calls \cup {NoCall}
        BY <2>4 DEF TypeOK, Addressed
      <3>2. gs \in [Calls -> Handle] /\ \A d \in Calls : gs[d].timer = hs[d].timer
        BY <1>1, <2>1, <3>1
      <3>3. \A d \in Calls : phase[d] = "idle" => ~gs[d].timer
        BY <2>1, <3>2 DEF Quiet
      <3>4. /\ pipe' \in [Calls -> Pipes] /\ target' \in [Calls -> Calls \cup {NoCall}]
            /\ output' \in [Calls -> Calls \cup {NoCall}]
            /\ \A d \in Calls \ {c} : pipe'[d] = pipe[d]
        BY <2>4, <3>1 DEF TypeOK, Pipes
      <3> HIDE DEF gs, h, hs
      <3>5. QED
        BY <2>2, <2>4, <3>2, <3>3, <3>4, AnswerWellFormed DEF Answers
    <2>5. QED
      BY <1>5, <2>3, <2>4 DEF SettleStream
  <1>6. QED
    BY <1>3, <1>4, <1>5 DEF Settle

\* handle.abort() of a set of calls touches nothing of a call not yet made.
LEMMA AbortQuiet ==
    ASSUME TypeOK, NEW S
    PROVE  \A d \in Calls : AbortedHandles(S)[d].timer => handle[d].timer
  <1>1. \A h \in Handle : ~HandleAbort(h).timer
    BY TimerKept
  <1>2. QED
    BY <1>1 DEF AbortedHandles, TypeOK

LEMMA DeadlineWellFormed ==
    ASSUME WellFormed, NEW c \in Calls
    PROVE  Deadline(c) \/ RuntimeExpired(c) => WellFormed'
  <1> USE DEF WellFormed
  <1>0. TypeOK
    OBVIOUS
  <1>1. CASE SoftDeadline(c) \/ GraceExpired(c)
    <2>1. phase[c] # "idle"
      BY <1>1 DEF SoftDeadline, GraceExpired, Quiet
    <2>2. PICK a \in {"processing", "timeout"} : Answer(c, a, handle)
      BY <1>1 DEF SoftDeadline, GraceExpired
    <2>3. CheckImmediateCleanup(handle, reqId[c]) /\ reqId[c] \in Ids
      BY <2>1, <2>2 DEF Answer, Addressed
    <2>4. /\ handle' \in [Calls -> Handle]
          /\ ledger' \in [Ids -> Calls \cup {NoCall}]
          /\ \A j \in Ids : ledger'[j] \in {ledger[j], NoCall}
          /\ \A d \in Calls : handle'[d].timer = handle[d].timer
      BY <2>3, CleanupEffect DEF TypeOK
    <2>5. UNCHANGED <<sweeping, reqId, tool, promise, signal, pipe, target, output>>
      BY <1>1 DEF SoftDeadline, GraceExpired
    <2>6. TypeOK'
      BY <1>0, <2>2, <2>4, <2>5 DEF Answer, TypeOK, Phases, Answers, Guards
    <2>7. Addressed' /\ Quiet' /\ LedgerSound'
      BY <1>0, <2>1, <2>2, <2>4, <2>5 DEF Answer, TypeOK, Addressed, Quiet, LedgerSound, Accepted
    <2>8. QED
      BY <2>6, <2>7
  <1>2. CASE HardDeadline(c)
    <2>1. phase[c] # "idle"
      BY <1>2 DEF HardDeadline, Quiet
    <2>2. TypeOK'
      BY <1>0, <1>2, AbortType DEF HardDeadline, TypeOK, Guards
    <2>3. \A d \in Calls : pipe[d] = "none" => pipe'[d] = "none"
      BY <1>2 DEF HardDeadline, AbortedPipes
    <2>4. QED
      BY <1>0, <1>2, <2>1, <2>2, <2>3, AbortQuiet
      DEF HardDeadline, TypeOK, Addressed, Quiet, LedgerSound, Accepted
  <1>3. CASE RuntimeExpired(c)
    <2>1. phase[c] # "idle"
      BY <1>3 DEF RuntimeExpired, Quiet
    <2> DEFINE hs == AbortedHandles({c})
    <2>2. hs \in [Calls -> Handle] /\ \A d \in Calls : hs[d].timer => handle[d].timer
      BY <1>0, AbortType, AbortQuiet
    <2>3. [hs[c] EXCEPT !.timer = FALSE] \in Handle /\ handle' = [hs EXCEPT ![c].timer = FALSE]
      BY <1>3, <2>2, HandleOperations DEF RuntimeExpired
    <2> HIDE DEF hs
    <2>4. handle' \in [Calls -> Handle] /\ \A d \in Calls \ {c} : handle'[d] = hs[d]
      BY <2>2, <2>3
    <2>5. TypeOK'
      BY <1>0, <1>3, <2>4, AbortType DEF RuntimeExpired, TypeOK
    <2>6. \A d \in Calls : /\ pipe[d] = "none" => pipe'[d] = "none"
                           /\ d # c => signal'[d] = signal[d]
      BY <1>3 DEF RuntimeExpired, AbortedPipes, AbortSignals, Hit, TypeOK
    <2>7. QED
      BY <1>3, <2>1, <2>2, <2>4, <2>5, <2>6
      DEF RuntimeExpired, TypeOK, Addressed, Quiet, LedgerSound, Accepted
  <1>4. QED
    BY <1>1, <1>2, <1>3 DEF Deadline

LEMMA StreamingWellFormed ==
    ASSUME WellFormed, NEW c \in Calls
    PROVE  Streaming(c) => WellFormed'
  <1> USE DEF WellFormed
  <1>0. TypeOK
    OBVIOUS
  <1>1. CASE StartSending(c)
    BY <1>1 DEF StartSending, TypeOK, Addressed, Quiet, LedgerSound, Accepted, Pipes
  <1>2. CASE StreamEnd(c)
    <2> DEFINE h  == target[c]
               hs == [handle EXCEPT ![h] = StreamClosed(@)]
    <2>1. phase[c] # "idle" /\ reqId[c] \in Ids
      BY <1>2 DEF StreamEnd, Quiet, Addressed
    <2>2. /\ pipe' = [pipe EXCEPT ![c] = "ended"]
          /\ UNCHANGED <<sweeping, phase, reqId, tool, promise, signal, guard, target, output>>
      BY <1>2 DEF StreamEnd
    <2>3. /\ handle' \in [Calls -> Handle]
          /\ \A d \in Calls : handle'[d].timer => handle[d].timer
      <3>1. CASE h = NoCall
        BY <1>2, <3>1 DEF StreamEnd, TypeOK
      <3>2. CASE h # NoCall
        <4>1. h \in Calls /\ handle' = hs
          BY <1>2, <3>2 DEF StreamEnd, TypeOK
        <4>2. StreamClosed(handle[h]) \in Handle /\ ~StreamClosed(handle[h]).timer
          BY <4>1, HandleOperations, TimerKept DEF TypeOK
        <4>3. QED
          BY <4>1, <4>2 DEF TypeOK
      <3>3. QED
        BY <3>1, <3>2
    <2>4. ledger' \in {ledger, [ledger EXCEPT ![reqId[c]] = NoCall]}
      BY <1>2 DEF StreamEnd
    <2>5. TypeOK'
      BY <1>0, <2>2, <2>3, <2>4 DEF TypeOK, Pipes
    <2>6. QED
      BY <1>0, <2>1, <2>2, <2>3, <2>4, <2>5 DEF TypeOK, Addressed, Quiet, LedgerSound, Accepted
  <1>3. CASE ResponseClosed(c)
    <2> DEFINE h  == ledger[reqId[c]]
               S  == IF h = NoCall THEN {} ELSE {h}
               hs == AbortedHandles(S)
    <2>1. phase[c] # "idle" /\ reqId[c] \in Ids
      BY <1>3 DEF ResponseClosed, Quiet, Addressed
    <2>2. h # NoCall => h \in Calls /\ phase[h] # "idle"
      BY <2>1 DEF TypeOK, LedgerSound, Accepted
    <2>3. /\ hs \in [Calls -> Handle] /\ AbortedPipes(S) \in [Calls -> Pipes]
          /\ AbortSignals(S) \in [Calls -> BOOLEAN]
          /\ \A d \in Calls : hs[d].timer => handle[d].timer
      BY <1>0, AbortType, AbortQuiet
    <2>4. \A d \in Calls : /\ pipe[d] = "none" => AbortedPipes(S)[d] = "none"
                           /\ phase[d] = "idle" => AbortSignals(S)[d] = signal[d]
      BY <2>2 DEF AbortedPipes, AbortSignals, Hit, TypeOK
    <2>5. /\ pipe' = [AbortedPipes(S) EXCEPT ![c] = "closed"]
          /\ handle' = IF h = NoCall THEN hs ELSE [hs EXCEPT ![h] = Touch(@)]
          /\ signal' = AbortSignals(S)
          /\ UNCHANGED <<sweeping, ledger, phase, reqId, tool, promise, guard, target, output>>
      BY <1>3 DEF ResponseClosed
    <2> HIDE DEF hs, S, h
    <2>6. /\ handle' \in [Calls -> Handle]
          /\ \A d \in Calls : handle'[d].timer => handle[d].timer
      BY <2>2, <2>3, <2>5, TouchType, TimerKept
    <2>7. TypeOK'
      BY <1>0, <2>3, <2>5, <2>6 DEF TypeOK, Pipes
    <2>8. QED
      BY <1>0, <2>1, <2>3, <2>4, <2>5, <2>6, <2>7 DEF TypeOK, Addressed, Quiet, LedgerSound, Accepted
  <1>4. QED
    BY <1>1, <1>2, <1>3 DEF Streaming

LEMMA PollWellFormed ==
    ASSUME WellFormed, NEW i \in Ids
    PROVE  PollGet(i) \/ PollCancel(i) => WellFormed'
  <1> USE DEF WellFormed
  <1>0. TypeOK
    OBVIOUS
  <1> DEFINE c == ledger[i]
  <1>1. c # NoCall => c \in Calls /\ phase[c] # "idle"
    BY DEF TypeOK, LedgerSound, Accepted
  <1>2. CASE PollGet(i)
    <2>1. /\ Fetch(handle[c]) \in Handle /\ Touch(handle[c]) \in Handle
          /\ Fetch(handle[c]).timer = handle[c].timer /\ Touch(handle[c]).timer = handle[c].timer
      BY <1>1, <1>2, HandleOperations, TimerKept DEF PollGet, TypeOK
    <2>2. QED
      BY <1>1, <1>2, <2>1 DEF PollGet, TypeOK, Addressed, Quiet, LedgerSound, Accepted
  <1>3. CASE PollCancel(i)
    <2> DEFINE hs == AbortedHandles({c})
    <2>1. c \in Calls /\ phase[c] # "idle"
      BY <1>1, <1>3 DEF PollCancel
    <2>2. /\ hs \in [Calls -> Handle] /\ AbortedPipes({c}) \in [Calls -> Pipes]
          /\ AbortSignals({c}) \in [Calls -> BOOLEAN]
          /\ \A d \in Calls : hs[d].timer => handle[d].timer
      BY <1>0, AbortType, AbortQuiet
    <2>3. \A d \in Calls : /\ pipe[d] = "none" => AbortedPipes({c})[d] = "none"
                           /\ phase[d] = "idle" => AbortSignals({c})[d] = signal[d]
      BY <2>1 DEF AbortedPipes, AbortSignals, Hit, TypeOK
    <2>4. /\ handle' = [hs EXCEPT ![c] = Touch(@)]
          /\ pipe' = AbortedPipes({c})
          /\ signal' = AbortSignals({c})
          /\ UNCHANGED <<sweeping, ledger, phase, reqId, tool, promise, guard, target, output>>
      BY <1>3 DEF PollCancel
    <2> HIDE DEF hs, c
    <2>5. /\ handle' \in [Calls -> Handle]
          /\ \A d \in Calls : handle'[d].timer => handle[d].timer
      BY <2>1, <2>2, <2>4, TouchType, TimerKept
    <2>6. QED
      BY <1>0, <2>2, <2>3, <2>4, <2>5 DEF TypeOK, Addressed, Quiet, LedgerSound, Accepted
  <1>4. QED
    BY <1>2, <1>3

LEMMA TrackerWellFormed == WellFormed /\ (Sweep \/ Stop \/ Tick) => WellFormed'
  <1> SUFFICES ASSUME WellFormed, Sweep \/ Stop \/ Tick PROVE WellFormed'
    OBVIOUS
  <1> USE DEF WellFormed
  <1>0. TypeOK
    OBVIOUS
  <1>1. ASSUME NEW S \in SUBSET {c \in Calls : Holds(c)}, Abort(S)
        PROVE  /\ handle' \in [Calls -> Handle] /\ pipe' \in [Calls -> Pipes]
               /\ signal' \in [Calls -> BOOLEAN]
               /\ \A d \in Calls : phase[d] = "idle" => /\ ~handle'[d].timer /\ ~signal'[d]
                                                       /\ pipe'[d] = "none"
    <2>1. \A d \in S : phase[d] # "idle"
      BY DispatcherAssumption DEF Holds, LedgerSound, Accepted
    <2>2. /\ handle' = AbortedHandles(S) /\ pipe' = AbortedPipes(S) /\ signal' = AbortSignals(S)
      BY <1>1 DEF Abort
    <2>3. \A d \in Calls : /\ pipe[d] = "none" => AbortedPipes(S)[d] = "none"
                           /\ phase[d] = "idle" => AbortSignals(S)[d] = signal[d]
      BY <2>1 DEF AbortedPipes, AbortSignals, Hit, TypeOK
    <2>4. QED
      BY <1>0, <2>2, <2>3, AbortType, AbortQuiet DEF Quiet
  <1>2. CASE Sweep
    <2>1. PICK S \in SUBSET {c \in Calls : Holds(c)} : Abort(S)
      BY <1>2 DEF Sweep
    <2>2. \A i \in Ids : ledger'[i] \in {ledger[i], NoCall}
      BY <1>2 DEF Sweep
    <2>3. /\ ledger' \in [Ids -> Calls \cup {NoCall}]
          /\ UNCHANGED <<sweeping, phase, reqId, tool, promise, guard, target, output>>
      BY <1>2 DEF Sweep, TypeOK
    <2>4. QED
      BY <1>0, <1>1, <2>1, <2>2, <2>3 DEF TypeOK, Addressed, Quiet, LedgerSound, Accepted
  <1>3. CASE Stop
    <2>1. PICK S \in SUBSET {c \in Calls : Holds(c)} : Abort(S)
      BY <1>3 DEF Stop
    <2>2. /\ ledger' = [i \in Ids |-> NoCall] /\ sweeping' = FALSE
          /\ UNCHANGED <<phase, reqId, tool, promise, guard, target, output>>
      BY <1>3 DEF Stop
    <2>3. QED
      BY <1>0, <1>1, <2>1, <2>2 DEF TypeOK, Addressed, Quiet, LedgerSound, Accepted
  <1>4. CASE Tick
    <2>1. \A h \in Handle : Elapse(h) \in Handle
      BY HandleOperations
    <2>2. handle' \in [Calls -> Handle] /\ \A d \in Calls : phase[d] = "idle" => handle'[d] = handle[d]
      BY <1>4, <2>1 DEF Tick, TypeOK
    <2>3. QED
      BY <1>4, <2>2 DEF Tick, TypeOK, Addressed, Quiet, LedgerSound, Accepted
  <1>5. QED
    BY <1>2, <1>3, <1>4

\* Every step of the dispatcher keeps the first part of the invariant.
LEMMA NextWellFormed == WellFormed /\ [Next]_vars => WellFormed'
  <1> SUFFICES ASSUME WellFormed, [Next]_vars PROVE WellFormed'
    OBVIOUS
  <1>1. CASE UNCHANGED vars
    BY <1>1 DEF vars, WellFormed, TypeOK, Addressed, Quiet, LedgerSound, Accepted
  <1>2. ASSUME NEW c \in Calls, Incoming(c)
        PROVE  WellFormed'
    BY <1>2, RefuseWellFormed, IncomingWellFormed DEF Incoming
  <1>3. ASSUME NEW c \in Calls, Settle(c) \/ Deadline(c) \/ RuntimeExpired(c) \/ Streaming(c)
        PROVE  WellFormed'
    BY <1>3, SettleWellFormed, DeadlineWellFormed, StreamingWellFormed
  <1>4. ASSUME NEW i \in Ids, PollGet(i) \/ PollCancel(i)
        PROVE  WellFormed'
    BY <1>4, PollWellFormed
  <1>5. CASE Sweep \/ Stop \/ Tick
    BY <1>5, TrackerWellFormed
  <1>6. QED
    BY <1>1, <1>2, <1>3, <1>4, <1>5 DEF Next

(***************************************************************************)
(* The soundness of the ledger: every state the dispatcher reaches is      *)
(* well-typed, and an entry always leads to an accepted call that carries  *)
(* the entry's id, so an id never leads to somebody else's task.           *)
(***************************************************************************)
THEOREM LedgerIsSound == Spec => []WellFormed
  BY InitWellFormed, NextWellFormed, PTL DEF Spec

\* Every reachable state of the dispatcher is well-typed.
THEOREM TypeCorrect == Spec => []TypeOK
  <1>1. WellFormed => TypeOK
    BY DEF WellFormed
  <1>2. QED
    BY <1>1, LedgerIsSound, PTL
-----------------------------------------------------------------------------
(***************************************************************************)
(* Where clients never reuse the id of a task that has left the ledger, no *)
(* running task is lost, streams report to their own task, and no cleanup  *)
(* runs under a task that is still running.  The invariant below says why: *)
(* accepted calls then have distinct ids, so that every lookup by id after *)
(* an await finds the call's own handle or none.                           *)
(***************************************************************************)
UniqueIds ==
    \A c, d \in Calls : Accepted(c) /\ Accepted(d) /\ reqId[c] = reqId[d] => c = d
StreamsAnswered ==
    \A c \in Calls : /\ pipe[c] # "none" => Accepted(c)
                     /\ target[c] # NoCall => phase[c] # "idle" /\ handle[c].status # "processing"
RunningUnsignalled == \A c \in Calls : handle[c].status = "processing" => ~signal[c]

SafetyInv ==
    /\ WellFormed
    /\ UniqueIds
    /\ StreamsAnswered
    /\ StreamsStayHome
    /\ NoLostTask
    /\ CleanupAfterEnd
    /\ RunningUnsignalled
    /\ GuardArmedWhileWaiting

(***************************************************************************)
(* What every step does: a task that runs ran before and was not cleaned   *)
(* up, or has just been made; an entry that goes leads to a task that runs *)
(* no longer; a call is made, and accepted, only once; and a task whose    *)
(* signal fires runs no longer.                                            *)
(***************************************************************************)
RunStep ==
    \A d \in Calls : handle'[d].status = "processing" =>
        /\ handle'[d].cleanups = 0
        /\ phase[d] = "idle" \/ handle[d].status = "processing"
LedgerStep ==
    \A j \in Ids : \/ ledger'[j] = ledger[j]
                   \/ ledger[j] = NoCall
                   \/ ledger'[j] = NoCall /\ handle'[ledger[j]].status # "processing"
CallStep ==
    \A d \in Calls : phase[d] # "idle" =>
        reqId'[d] = reqId[d] /\ phase'[d] # "idle" /\ (Accepted(d)' => Accepted(d))
SignalStep ==
    \A d \in Calls : signal'[d] => signal[d] \/ handle'[d].status # "processing"
SafeStep == RunStep /\ LedgerStep /\ CallStep /\ SignalStep

\* Actions that answer a call, or refuse one.
LEMMA CleanupSafeStep ==
    ASSUME SafetyInv, NEW hs \in [Calls -> Handle], NEW i \in Ids, CheckImmediateCleanup(hs, i),
           \A d \in Calls : hs[d].status = "processing" =>
               hs[d].cleanups = 0 /\ (phase[d] = "idle" \/ handle[d].status = "processing")
    PROVE  RunStep /\ LedgerStep
  <1>1. TypeOK
    BY DEF SafetyInv, WellFormed
  <1>2. /\ \A j \in Ids : ledger'[j] \in {ledger[j], NoCall}
        /\ \A d \in Calls : /\ handle'[d].status = hs[d].status
                            /\ handle'[d].cleanups = hs[d].cleanups
        /\ \A j \in Ids : ledger[j] # NoCall /\ ledger'[j] = NoCall
                           => hs[ledger[j]].status # "processing"
    BY <1>1, CleanupEffect
  <1>3. QED
    BY <1>1, <1>2 DEF RunStep, LedgerStep, TypeOK

\* Before a step, a running task has not been cleaned up.
LEMMA RunningIsClean ==
    ASSUME SafetyInv, NEW d \in Calls, handle[d].status = "processing"
    PROVE  handle[d].cleanups = 0
  BY DEF SafetyInv, WellFormed, TypeOK, CleanupAfterEnd, Handle, Counts

LEMMA IncomingSafe ==
    ASSUME SafetyInv, NEW c \in Calls, NEW i \in Ids
    PROVE  /\ Refuse(c, i) => SafeStep
           /\ \A t \in Tools : Track(c, i, t) \/ Conflict(c, i, t) => SafeStep
  <1> USE DEF SafetyInv, WellFormed
  <1>1. CASE Refuse(c, i)
    <2>1. RunStep /\ LedgerStep
      BY <1>1, CleanupSafeStep, RunningIsClean DEF Refuse, TypeOK
    <2>2. CallStep /\ SignalStep
      BY <1>1 DEF Refuse, SignalStep, CallStep, TypeOK, Accepted
    <2>3. QED
      BY <2>1, <2>2 DEF SafeStep
  <1>2. ASSUME NEW t \in Tools, Track(c, i, t)
        PROVE  SafeStep
    <2>1. NewHandle(t, RuntimeLimit).cleanups = 0
      BY NewHandleType, HandleAssumption, DispatcherAssumption
    <2>2. RunStep
      BY <1>2, <2>1, RunningIsClean DEF Track, Execute, TypeOK, RunStep
    <2>3. LedgerStep /\ CallStep /\ SignalStep
      BY <1>2 DEF Track, SignalStep, Execute, TypeOK, LedgerStep, CallStep, Accepted
    <2>4. QED
      BY <2>2, <2>3 DEF SafeStep
  <1>3. ASSUME NEW t \in Tools, Conflict(c, i, t)
        PROVE  SafeStep
    <2>1. NewHandle(t, RuntimeLimit) \in Handle /\ NewHandle(t, RuntimeLimit).cleanups = 0
      BY NewHandleType, HandleAssumption, DispatcherAssumption
    <2> DEFINE hs == [handle EXCEPT ![c] = NewHandle(t, RuntimeLimit)]
    <2>2. /\ hs \in [Calls -> Handle] /\ hs[c].cleanups = 0 /\ phase[c] = "idle"
          /\ \A d \in Calls \ {c} : hs[d] = handle[d]
      BY <1>3, <2>1 DEF Conflict, Execute, TypeOK
    <2>3. CheckImmediateCleanup(hs, i)
      BY <1>3 DEF Conflict
    <2> HIDE DEF hs
    <2>4. RunStep /\ LedgerStep
      BY <2>2, <2>3, CleanupSafeStep, RunningIsClean
    <2>5. CallStep /\ SignalStep
      BY <1>3 DEF Conflict, Execute, SignalStep, CallStep, TypeOK, Accepted
    <2>6. QED
      BY <2>4, <2>5 DEF SafeStep
  <1>4. QED
    BY <1>1, <1>2, <1>3

\* From handle h to g the task's run is over: it ended now or it had ended so.
Ends(h, g) ==
    /\ g.status # "processing"
    /\ h.status # "processing" => g.status = h.status

\* The handles after a promise has settled, before the ledger is looked at.
Settled(c, hs, a) ==
    /\ Ends(handle[c], hs[c])
    /\ \A d \in Calls \ {c} : hs[d].status = handle[d].status /\ hs[d].cleanups = handle[d].cleanups
    /\ Late(c, hs) \/ (phase[c] = "waiting" /\ Answer(c, a, hs))
SettledSomehow(c) ==
    \E hs \in [Calls -> Handle], a \in Answers \ {"conflict", "refused"} : Settled(c, hs, a)

\* Every way a promise settles ends the task's run, and only that.
LEMMA SettleOutcome ==
    ASSUME WellFormed, NEW c \in Calls, Settle(c)
    PROVE  SettledSomehow(c)
  <1> USE DEF WellFormed
  <1>1. \A h \in Handle : /\ Resolve(h) \in Handle /\ Ends(h, Resolve(h))
                          /\ \A b \in BOOLEAN : Reject(h, b) \in Handle /\ Ends(h, Reject(h, b))
                          /\ SetOutputStream(h) \in Handle
                          /\ SetOutputStream(h).status = h.status
                          /\ SetOutputStream(h).cleanups = h.cleanups
    <2>1. \A h \in Handle : /\ Resolve(h) \in Handle /\ SetOutputStream(h) \in Handle
                            /\ \A b \in BOOLEAN : Reject(h, b) \in Handle
      BY HandleOperations
    <2>2. \A h \in Handle : /\ Ends(h, Resolve(h))
                            /\ \A b \in BOOLEAN : Ends(h, Reject(h, b))
      BY StatusSettled DEF Ends
    <2>3. \A h \in Handle : /\ SetOutputStream(h).status = h.status
                            /\ SetOutputStream(h).cleanups = h.cleanups
      BY StatusKept, CleanupsKept
    <2>4. QED
      BY <2>1, <2>2, <2>3
  <1>2. CASE SettleValue(c)
    <2> DEFINE hs == [handle EXCEPT ![c] = Resolve(@)]
    <2>1. hs \in [Calls -> Handle] /\ Ends(handle[c], hs[c]) /\ \A d \in Calls \ {c} : hs[d] = handle[d]
      BY <1>1 DEF TypeOK
    <2>2. Late(c, hs) \/ (phase[c] = "waiting" /\ Answer(c, "ok", hs))
      BY <1>2 DEF SettleValue
    <2> HIDE DEF hs
    <2>3. QED
      BY <2>1, <2>2 DEF Answers, SettledSomehow, Settled
  <1>3. ASSUME NEW b \in BOOLEAN, SettleError(c, b)
        PROVE  SettledSomehow(c)
    <2> DEFINE hs == [handle EXCEPT ![c] = Reject(@, b \/ signal[c])]
               a  == IF b THEN "timeout" ELSE "error"
    <2>1. hs \in [Calls -> Handle] /\ Ends(handle[c], hs[c]) /\ \A d \in Calls \ {c} : hs[d] = handle[d]
      BY <1>1 DEF TypeOK
    <2>2. Late(c, hs) \/ (phase[c] = "waiting" /\ Answer(c, a, hs))
      BY <1>3 DEF SettleError
    <2>3. a \in Answers \ {"conflict", "refused"}
      BY DEF Answers
    <2> HIDE DEF hs, a
    <2>4. QED
      BY <2>1, <2>2, <2>3 DEF SettledSomehow, Settled
  <1>4. CASE SettleStream(c)
    <2> DEFINE hs == [handle EXCEPT ![c] = Resolve(@)]
               h  == ledger[reqId[c]]
               gs == [hs EXCEPT ![h] = SetOutputStream(@)]
    <2>1. hs \in [Calls -> Handle] /\ Ends(handle[c], hs[c]) /\ \A d \in Calls \ {c} : hs[d] = handle[d]
      BY <1>1 DEF TypeOK
    <2>2. CASE Late(c, hs)
      <3> HIDE DEF hs
      <3>1. QED
        BY <2>1, <2>2 DEF Answers, SettledSomehow, Settled
    <2>3. CASE phase[c] = "waiting" /\ h = NoCall /\ Answer(c, "stream", hs)
      <3> HIDE DEF hs
      <3>1. QED
        BY <2>1, <2>3 DEF Answers, SettledSomehow, Settled
    <2>4. CASE phase[c] = "waiting" /\ h # NoCall /\ Answer(c, "stream", gs)
      <3>1. h \in Calls
        BY <2>4 DEF TypeOK, Addressed
      <3>2. /\ gs \in [Calls -> Handle] /\ Ends(handle[c], gs[c])
            /\ \A d \in Calls \ {c} : gs[d].status = handle[d].status /\ gs[d].cleanups = handle[d].cleanups
        <4> HIDE DEF hs
        <4>1. QED
          BY <1>1, <2>1, <3>1 DEF Ends
      <3> HIDE DEF gs
      <3>3. QED
        BY <2>4, <3>2 DEF Answers, SettledSomehow, Settled
    <2>5. QED
      BY <1>4, <2>2, <2>3, <2>4 DEF SettleStream
  <1>5. QED
    BY <1>2, <1>3, <1>4 DEF Settle

LEMMA SettleSafe ==
    ASSUME SafetyInv, NEW c \in Calls, Settle(c)
    PROVE  SafeStep /\ handle'[c].status # "processing"
  <1> USE DEF SafetyInv, WellFormed
  <1>1. PICK hs \in [Calls -> Handle], a \in Answers \ {"conflict", "refused"} : Settled(c, hs, a)
    BY SettleOutcome DEF SettledSomehow
  <1>2. UNCHANGED <<reqId, signal>>
    BY DEF Settle, SettleValue, SettleError, SettleStream
  <1>3. phase[c] # "idle"
    BY DEF Settle, SettleValue, SettleError, SettleStream, Quiet
  <1>4. CASE Late(c, hs)
    BY <1>1, <1>2, <1>3, <1>4, RunningIsClean
    DEF Settled, Ends, Late, SafeStep, SignalStep, RunStep, LedgerStep, CallStep, TypeOK, Accepted
  <1>5. CASE phase[c] = "waiting" /\ Answer(c, a, hs)
    <2>1. RunStep /\ LedgerStep
      BY <1>1, <1>3, <1>5, CleanupSafeStep, RunningIsClean DEF Settled, Ends, Answer, Addressed
    <2>2. CallStep
      BY <1>2, <1>3, <1>5 DEF Answer, CallStep, TypeOK, Accepted, Answers
    <2>3. handle'[c].status # "processing"
      BY <1>1, <1>3, <1>5, CleanupEffect DEF Settled, Ends, Answer, Addressed
    <2>4. QED
      BY <1>2, <2>1, <2>2, <2>3 DEF SafeStep, SignalStep
  <1>6. QED
    BY <1>1, <1>4, <1>5 DEF Settled

\* A timer of the guard is armed only while its call waits.
LEMMA GuardsWait ==
    ASSUME SafetyInv, NEW c \in Calls, guard[c] # "off"
    PROVE  phase[c] = "waiting"
  BY DEF SafetyInv, GuardArmedWhileWaiting

\* handle.abort() makes no handle run, runs no cleanup under one that does,
\* and fires no signal of one that goes on running.
LEMMA AbortSafe ==
    ASSUME TypeOK, NEW S
    PROVE  \A d \in Calls :
             /\ AbortedHandles(S)[d].status = "processing" =>
                   /\ handle[d].status = "processing"
                   /\ AbortedHandles(S)[d].cleanups = handle[d].cleanups
                   /\ d \in S => signal[d]
             /\ AbortSignals(S)[d] => signal[d] \/ AbortedHandles(S)[d].status # "processing"
             /\ handle[d].status # "processing" => AbortedHandles(S)[d].status # "processing"
  <1>1. \A h \in Handle : /\ h.status = "processing" => Live(h)
                          /\ Live(h) => HandleAbort(h).status = "aborted"
    BY StatusSettled
  <1>2. QED
    BY <1>1 DEF TypeOK, AbortedHandles, AbortSignals, Fired, Hit

LEMMA DeadlineSafe ==
    ASSUME SafetyInv, NEW c \in Calls, Deadline(c) \/ RuntimeExpired(c)
    PROVE  SafeStep
  <1> USE DEF SafetyInv, WellFormed
  <1>0. TypeOK
    OBVIOUS
  <1>1. CASE SoftDeadline(c) \/ GraceExpired(c)
    <2>1. phase[c] # "idle"
      BY <1>1 DEF SoftDeadline, GraceExpired, Quiet
    <2>2. PICK a \in {"processing", "timeout"} : Answer(c, a, handle)
      BY <1>1 DEF SoftDeadline, GraceExpired
    <2>3. CheckImmediateCleanup(handle, reqId[c]) /\ reqId[c] \in Ids
      BY <2>1, <2>2 DEF Answer, Addressed
    <2>4. RunStep /\ LedgerStep
      BY <2>3, CleanupSafeStep, RunningIsClean DEF TypeOK
    <2>5. UNCHANGED <<reqId, signal>> /\ phase[c] \notin {"conflict", "refused"}
      BY <1>1, GuardsWait DEF SoftDeadline, GraceExpired
    <2>6. CallStep /\ SignalStep
      BY <1>0, <2>1, <2>2, <2>5 DEF Answer, CallStep, SignalStep, TypeOK, Accepted
    <2>7. QED
      BY <2>4, <2>6 DEF SafeStep
  <1>2. CASE HardDeadline(c)
    <2>1. signal' = [signal EXCEPT ![c] = TRUE] /\ handle' = AbortedHandles({c})
          /\ UNCHANGED <<ledger, phase, reqId>>
      BY <1>2 DEF HardDeadline
    <2>2. handle'[c].status # "processing"
      BY <1>0, <2>1, AbortSafe DEF RunningUnsignalled
    <2>3. RunStep /\ SignalStep
      BY <1>0, <2>1, <2>2, AbortSafe, RunningIsClean DEF RunStep, SignalStep, TypeOK
    <2>4. QED
      BY <2>1, <2>3 DEF SafeStep, LedgerStep, CallStep, Accepted
  <1>3. CASE RuntimeExpired(c)
    <2> DEFINE hs == AbortedHandles({c})
    <2>1. hs \in [Calls -> Handle]
      BY <1>0, AbortType
    <2>2. \A d \in Calls : handle'[d].status = hs[d].status /\ handle'[d].cleanups = hs[d].cleanups
      <3>1. handle' = [hs EXCEPT ![c].timer = FALSE]
        BY <1>3 DEF RuntimeExpired
      <3> HIDE DEF hs
      <3>2. QED
        BY <2>1, <3>1, StatusKept, CleanupsKept
    <2>3. signal' = AbortSignals({c}) /\ UNCHANGED <<ledger, phase, reqId>>
      BY <1>3 DEF RuntimeExpired
    <2>4. \A d \in Calls : /\ hs[d].status = "processing" => /\ handle[d].status = "processing"
                                                           /\ hs[d].cleanups = handle[d].cleanups
                           /\ signal'[d] => signal[d] \/ hs[d].status # "processing"
      BY <1>0, <2>3, AbortSafe
    <2> HIDE DEF hs
    <2>5. RunStep /\ SignalStep
      BY <2>2, <2>4, RunningIsClean DEF RunStep, SignalStep
    <2>6. QED
      BY <2>3, <2>5 DEF SafeStep, LedgerStep, CallStep, Accepted
  <1>4. QED
    BY <1>1, <1>2, <1>3 DEF Deadline

LEMMA StreamingSafe ==
    ASSUME SafetyInv, NEW c \in Calls, Streaming(c)
    PROVE  SafeStep
  <1> USE DEF SafetyInv, WellFormed
  <1>0. TypeOK
    OBVIOUS
  <1>1. CASE StartSending(c)
    BY <1>1, RunningIsClean
    DEF StartSending, SafeStep, RunStep, LedgerStep, CallStep, SignalStep, Accepted
  <1>2. CASE StreamEnd(c)
    <2>1. UNCHANGED <<phase, reqId, signal>>
      BY <1>2 DEF StreamEnd
    <2>2. CASE target[c] = NoCall
      BY <1>2, <2>1, <2>2, RunningIsClean
      DEF StreamEnd, SafeStep, RunStep, LedgerStep, CallStep, SignalStep, Accepted
    <2>3. CASE target[c] # NoCall
      <3> DEFINE hs == [handle EXCEPT ![c] = StreamClosed(@)]
      <3>1. /\ target[c] = c /\ handle[c].status # "processing" /\ Accepted(c) /\ reqId[c] \in Ids
        BY <1>2, <2>3 DEF StreamEnd, StreamsStayHome, StreamsAnswered, Addressed, Accepted
      <3>2. /\ handle' = hs
            /\ ledger' \in {ledger, [ledger EXCEPT ![reqId[c]] = NoCall]}
        BY <1>2, <2>3, <3>1 DEF StreamEnd
      <3>3. StreamClosed(handle[c]).status # "processing"
        BY <3>1, StatusKept DEF TypeOK
      <3>4. handle'[c].status # "processing" /\ \A d \in Calls \ {c} : handle'[d] = handle[d]
        BY <3>2, <3>3 DEF TypeOK
      <3>5. ledger[reqId[c]] \in {c, NoCall}
        BY <3>1, DispatcherAssumption DEF LedgerSound, UniqueIds, TypeOK
      <3> HIDE DEF hs
      <3>6. RunStep /\ SignalStep /\ CallStep
        BY <2>1, <3>4, RunningIsClean DEF RunStep, SignalStep, CallStep, Accepted
      <3>7. LedgerStep
        BY <1>0, <3>1, <3>2, <3>4, <3>5 DEF LedgerStep, TypeOK
      <3>8. QED
        BY <3>6, <3>7 DEF SafeStep
    <2>4. QED
      BY <2>2, <2>3
  <1>3. CASE ResponseClosed(c)
    <2> DEFINE h  == ledger[reqId[c]]
               S  == IF h = NoCall THEN {} ELSE {h}
               hs == AbortedHandles(S)
    <2>1. phase[c] # "idle" /\ reqId[c] \in Ids
      BY <1>3 DEF ResponseClosed, Quiet, Addressed
    <2>2. hs \in [Calls -> Handle] /\ h \in Calls \cup {NoCall}
      BY <1>0, <2>1, AbortType DEF TypeOK
    <2>3. \A d \in Calls : /\ hs[d].status = "processing" => /\ handle[d].status = "processing"
                                                           /\ hs[d].cleanups = handle[d].cleanups
                           /\ AbortSignals(S)[d] => signal[d] \/ hs[d].status # "processing"
      BY <1>0, AbortSafe
    <2>4. /\ handle' = IF h = NoCall THEN hs ELSE [hs EXCEPT ![h] = Touch(@)]
          /\ signal' = AbortSignals(S)
          /\ UNCHANGED <<ledger, phase, reqId>>
      BY <1>3 DEF ResponseClosed
    <2> HIDE DEF hs, S, h
    <2>5. \A d \in Calls : handle'[d].status = hs[d].status /\ handle'[d].cleanups = hs[d].cleanups
      BY <2>2, <2>4, StatusKept, CleanupsKept
    <2>6. RunStep /\ SignalStep
      BY <2>3, <2>4, <2>5, RunningIsClean DEF RunStep, SignalStep
    <2>7. QED
      BY <2>4, <2>6 DEF SafeStep, LedgerStep, CallStep, Accepted
  <1>4. QED
    BY <1>1, <1>2, <1>3 DEF Streaming

LEMMA PollSafe ==
    ASSUME SafetyInv, NEW i \in Ids, PollGet(i) \/ PollCancel(i)
    PROVE  SafeStep
  <1> USE DEF SafetyInv, WellFormed
  <1>0. TypeOK
    OBVIOUS
  <1> DEFINE h == ledger[i]
  <1>1. h \in Calls /\ UNCHANGED <<ledger, phase, reqId>>
    BY DEF TypeOK, PollGet, PollCancel
  <1>2. PICK hs \in [Calls -> Handle] :
          /\ \A d \in Calls : handle'[d].status = hs[d].status /\ handle'[d].cleanups = hs[d].cleanups
          /\ \A d \in Calls : /\ hs[d].status = "processing" => /\ handle[d].status = "processing"
                                                           /\ hs[d].cleanups = handle[d].cleanups
                              /\ signal'[d] => signal[d] \/ hs[d].status # "processing"
    <2>1. CASE PollGet(i)
      <3>1. /\ Fetch(handle[h]).status = handle[h].status /\ Touch(handle[h]).status = handle[h].status
            /\ Fetch(handle[h]).cleanups = handle[h].cleanups /\ Touch(handle[h]).cleanups = handle[h].cleanups
        BY <1>1, StatusKept, CleanupsKept DEF TypeOK
      <3>2. /\ signal' = signal /\ handle \in [Calls -> Handle]
            /\ handle' = [handle EXCEPT ![h] = IF @.status = "completed" THEN Fetch(@) ELSE Touch(@)]
        BY <2>1 DEF PollGet, TypeOK
      <3> HIDE DEF h
      <3>3. \A d \in Calls : handle'[d].status = handle[d].status /\ handle'[d].cleanups = handle[d].cleanups
        BY <1>1, <3>1, <3>2
      <3>4. QED
        BY <3>2, <3>3
    <2>2. CASE PollCancel(i)
      <3> DEFINE hs == AbortedHandles({h})
      <3>1. hs \in [Calls -> Handle]
        BY <1>0, AbortType
      <3>2. \A d \in Calls : /\ hs[d].status = "processing" => /\ handle[d].status = "processing"
                                                           /\ hs[d].cleanups = handle[d].cleanups
                             /\ AbortSignals({h})[d] => signal[d] \/ hs[d].status # "processing"
        BY <1>0, AbortSafe
      <3>3. handle' = [hs EXCEPT ![h] = Touch(@)] /\ signal' = AbortSignals({h})
        BY <2>2 DEF PollCancel
      <3> HIDE DEF hs, h
      <3>4. \A d \in Calls : handle'[d].status = hs[d].status /\ handle'[d].cleanups = hs[d].cleanups
        BY <1>1, <3>1, <3>3, StatusKept, CleanupsKept
      <3>5. QED
        BY <3>1, <3>2, <3>3, <3>4
    <2>3. QED
      BY <2>1, <2>2
  <1>3. RunStep /\ SignalStep
    BY <1>2, RunningIsClean DEF RunStep, SignalStep
  <1>4. QED
    BY <1>1, <1>3 DEF SafeStep, LedgerStep, CallStep, Accepted

LEMMA TrackerSafe ==
    ASSUME SafetyInv, Sweep \/ Stop \/ Tick
    PROVE  SafeStep
  <1> USE DEF SafetyInv, WellFormed
  <1>0. TypeOK
    OBVIOUS
  <1>1. ASSUME NEW S, Abort(S)
        PROVE  RunStep /\ SignalStep /\ \A d \in Calls \cap S : handle'[d].status # "processing"
    <2>1. handle' = AbortedHandles(S) /\ signal' = AbortSignals(S)
      BY <1>1 DEF Abort
    <2>2. \A d \in Calls :
             /\ handle'[d].status = "processing" =>
                   /\ handle[d].status = "processing"
                   /\ handle'[d].cleanups = handle[d].cleanups
                   /\ d \in S => signal[d]
             /\ signal'[d] => signal[d] \/ handle'[d].status # "processing"
      BY <1>0, <2>1, AbortSafe
    <2>3. QED
      BY <2>2, RunningIsClean DEF RunStep, SignalStep, RunningUnsignalled
  <1>2. CASE Sweep
    <2> DEFINE held    == {c \in Calls : Holds(c)}
               due     == {c \in held : Due(c)}
               expired == {c \in held \ due : HeartbeatExpired(handle[c])}
    <2>1. /\ Abort(expired) /\ UNCHANGED <<phase, reqId>>
          /\ ledger' = [i \in Ids |-> IF ledger[i] \in due \cup expired THEN NoCall ELSE ledger[i]]
      BY <1>2 DEF Sweep
    <2>2. RunStep /\ SignalStep /\ \A d \in Calls \cap expired : handle'[d].status # "processing"
      BY <1>1, <2>1
    <2>3. \A d \in due : d \in Calls /\ handle[d].status # "processing" /\ phase[d] # "idle"
      BY DispatcherAssumption, CleanupSparesRunning DEF Due, Holds, LedgerSound, Accepted
    <2>4. \A d \in due \cup expired : handle'[d].status # "processing"
      BY <2>2, <2>3 DEF RunStep
    <2> HIDE DEF due, expired, held
    <2>5. LedgerStep
      BY <1>0, <2>1, <2>4 DEF LedgerStep, TypeOK
    <2>6. QED
      BY <2>1, <2>2, <2>5 DEF SafeStep, CallStep, Accepted
  <1>3. CASE Stop
    <2> DEFINE held == {c \in Calls : Holds(c)}
    <2>1. Abort(held) /\ ledger' = [i \in Ids |-> NoCall] /\ UNCHANGED <<phase, reqId>>
      BY <1>3 DEF Stop
    <2>2. RunStep /\ SignalStep /\ \A d \in Calls \cap held : handle'[d].status # "processing"
      BY <1>1, <2>1
    <2>3. \A i \in Ids : ledger[i] # NoCall => ledger[i] \in Calls \cap held
      BY <1>0 DEF TypeOK, Holds, LedgerSound
    <2> HIDE DEF held
    <2>4. QED
      BY <2>1, <2>2, <2>3 DEF SafeStep, LedgerStep, CallStep, Accepted
  <1>4. CASE Tick
    <2>1. \A d \in Calls : handle'[d].status = handle[d].status /\ handle'[d].cleanups = handle[d].cleanups
      BY <1>0, <1>4, StatusKept, CleanupsKept DEF Tick, TypeOK
    <2>2. UNCHANGED <<ledger, phase, reqId, signal>>
      BY <1>4 DEF Tick
    <2>3. QED
      BY <2>1, <2>2, RunningIsClean
      DEF SafeStep, RunStep, SignalStep, LedgerStep, CallStep, Accepted
  <1>5. QED
    BY <1>2, <1>3, <1>4

\* All steps are safe.
LEMMA NextSafe == SafetyInv /\ [Next]_vars => SafeStep
  <1> SUFFICES ASSUME SafetyInv, [Next]_vars PROVE SafeStep
    OBVIOUS
  <1>1. CASE UNCHANGED vars
    BY <1>1, RunningIsClean
    DEF vars, SafeStep, RunStep, SignalStep, LedgerStep, CallStep, Accepted
  <1>2. ASSUME NEW c \in Calls, Incoming(c)
        PROVE  SafeStep
    BY <1>2, IncomingSafe DEF Incoming
  <1>3. ASSUME NEW c \in Calls, Settle(c) \/ Deadline(c) \/ RuntimeExpired(c) \/ Streaming(c)
        PROVE  SafeStep
    BY <1>3, SettleSafe, DeadlineSafe, StreamingSafe
  <1>4. ASSUME NEW i \in Ids, PollGet(i) \/ PollCancel(i)
        PROVE  SafeStep
    BY <1>4, PollSafe
  <1>5. CASE Sweep \/ Stop \/ Tick
    BY <1>5, TrackerSafe
  <1>6. QED
    BY <1>1, <1>2, <1>3, <1>4, <1>5 DEF Next

(***************************************************************************)
(* The rest of a step: a call that becomes accepted takes an id that no    *)
(* accepted call carries and holds it; the guard follows the wait; and a   *)
(* call that is answered with a stream has a handle of its own.            *)
(***************************************************************************)
AcceptStep ==
    \A d \in Calls : phase[d] = "idle" /\ Accepted(d)' =>
        /\ reqId'[d] \in Ids
        /\ ledger'[reqId'[d]] = d
        /\ \A e \in Calls : Accepted(e) => reqId[e] # reqId'[d]

\* Only Track makes accepted calls.
LEMMA NextAccepts ==
    ASSUME SafetyInv, [Next]_vars, ReleasedIdsReused = FALSE
    PROVE  AcceptStep
  <1> USE DEF SafetyInv, WellFormed
  <1>0. TypeOK
    OBVIOUS
  <1>1. ASSUME NEW c \in Calls, NEW i \in Ids, NEW t \in Tools, Track(c, i, t)
        PROVE  AcceptStep
    BY <1>1 DEF Track, Execute, AcceptStep, TypeOK, Accepted
  <1>2. CASE phase' = phase
    BY <1>2 DEF AcceptStep, Accepted
  <1>3. ASSUME NEW c \in Calls, NEW i \in Ids, Refuse(c, i) \/ \E t \in Tools : Conflict(c, i, t)
        PROVE  AcceptStep
    BY <1>0, <1>3 DEF Refuse, Conflict, Execute, AcceptStep, TypeOK, Accepted
  <1>4. ASSUME NEW c \in Calls, Settle(c) \/ Deadline(c)
        PROVE  AcceptStep
    <2>1. CASE phase' = phase
      BY <1>2, <2>1
    <2>2. CASE phase' # phase
      <3>1. phase[c] # "idle" /\ \E a \in Answers : phase' = [phase EXCEPT ![c] = a]
        BY <1>4, <2>2 DEF Settle, SettleValue, SettleError, SettleStream, Late, Answer, Deadline,
           SoftDeadline, HardDeadline, GraceExpired, Quiet, Answers
      <3>2. QED
        BY <1>0, <3>1 DEF AcceptStep, TypeOK, Accepted
    <2>3. QED
      BY <2>1, <2>2
  <1>5. QED
    BY <1>1, <1>2, <1>3, <1>4
    DEF Next, Incoming, RuntimeExpired, Streaming, StartSending, StreamEnd, ResponseClosed,
        PollGet, PollCancel, Sweep, Stop, Tick, vars

\* The guard is armed by Track, moved by the hard timer and disarmed by the answer.
LEMMA NextGuards ==
    ASSUME WellFormed, GuardArmedWhileWaiting, [Next]_vars
    PROVE  GuardArmedWhileWaiting'
  <1> USE DEF WellFormed
  <1>0. TypeOK
    OBVIOUS
  <1>1. CASE UNCHANGED <<phase, guard, tool>>
    BY <1>1 DEF GuardArmedWhileWaiting
  <1>2. ASSUME NEW c \in Calls, NEW i \in Ids, Refuse(c, i)
        PROVE  GuardArmedWhileWaiting'
    BY <1>0, <1>2 DEF Refuse, GuardArmedWhileWaiting, TypeOK, Quiet
  <1>3. ASSUME NEW c \in Calls, NEW i \in Ids, NEW t \in Tools, Track(c, i, t) \/ Conflict(c, i, t)
        PROVE  GuardArmedWhileWaiting'
    BY <1>0, <1>3 DEF Track, Conflict, Execute, GuardArmedWhileWaiting, TypeOK, Quiet
  <1>4. ASSUME NEW c \in Calls, NEW a \in Answers,
               phase' = [phase EXCEPT ![c] = a], guard' = [guard EXCEPT ![c] = "off"], tool' = tool
        PROVE  GuardArmedWhileWaiting'
    BY <1>0, <1>4 DEF GuardArmedWhileWaiting, TypeOK, Answers
  <1>5. ASSUME NEW c \in Calls, Settle(c)
        PROVE  GuardArmedWhileWaiting'
    BY <1>1, <1>4, <1>5
    DEF Settle, SettleValue, SettleError, SettleStream, Late, Answer, Answers
  <1>6. ASSUME NEW c \in Calls, Deadline(c)
        PROVE  GuardArmedWhileWaiting'
    <2>1. CASE HardDeadline(c)
      BY <1>0, <2>1 DEF HardDeadline, GuardArmedWhileWaiting, TypeOK
    <2>2. CASE SoftDeadline(c) \/ GraceExpired(c)
      BY <1>4, <2>2 DEF SoftDeadline, GraceExpired, Answer, Answers
    <2>3. QED
      BY <1>6, <2>1, <2>2 DEF Deadline
  <1>7. QED
    BY <1>1, <1>2, <1>3, <1>5, <1>6
    DEF Next, Incoming, RuntimeExpired, Streaming, StartSending, StreamEnd, ResponseClosed,
        PollGet, PollCancel, Sweep, Stop, Tick, vars

\* What was accepted stays accepted.
LEMMA AcceptedForGood ==
    ASSUME WellFormed, [Next]_vars, NEW c \in Calls, Accepted(c)
    PROVE  Accepted(c)'
  <1> USE DEF WellFormed
  <1>1. CASE phase'[c] = phase[c]
    BY <1>1 DEF Accepted
  <1>2. CASE phase'[c] # phase[c]
    <2>1. PICK d \in Calls : Incoming(d) \/ Settle(d) \/ Deadline(d)
      BY <1>2 DEF Next, RuntimeExpired, Streaming, StartSending, StreamEnd, ResponseClosed,
         PollGet, PollCancel, Sweep, Stop, Tick, vars
    <2>2. phase'[c] \in Answers \ {"conflict", "refused"}
      <3>1. CASE Incoming(d)
        <4>1. phase[d] = "idle" /\ \E a \in {"refused", "waiting", "conflict"} :
                                    phase' = [phase EXCEPT ![d] = a]
          BY <3>1 DEF Incoming, Refuse, Track, Conflict, Execute
        <4>2. QED
          BY <1>2, <4>1 DEF TypeOK, Accepted
      <3>2. CASE Settle(d)
        <4>1. \E a \in {"ok", "error", "timeout", "stream"} :
                 phase' \in {phase, [phase EXCEPT ![d] = a]}
          BY <3>2 DEF Settle, SettleValue, SettleError, SettleStream, Late, Answer
        <4>2. QED
          BY <1>2, <4>1 DEF TypeOK, Answers
      <3>3. CASE Deadline(d)
        <4>1. \E a \in {"processing", "timeout"} : phase' \in {phase, [phase EXCEPT ![d] = a]}
          BY <3>3 DEF Deadline, SoftDeadline, HardDeadline, GraceExpired, Answer
        <4>2. QED
          BY <1>2, <4>1 DEF TypeOK, Answers
      <3>4. QED
        BY <2>1, <3>1, <3>2, <3>3
    <2>3. QED
      BY <2>2 DEF Accepted, Answers
  <1>3. QED
    BY <1>1, <1>2

\* A stream's handle is found by an id that only its own call carries.
LEMMA NextStreams ==
    ASSUME SafetyInv, SafeStep, [Next]_vars
    PROVE  StreamsStayHome' /\ StreamsAnswered'
  <1> USE DEF SafetyInv, WellFormed
  <1>0. TypeOK
    OBVIOUS
  <1>1. \A c \in Calls : Accepted(c) => Accepted(c)'
    BY AcceptedForGood
  <1>2. CASE UNCHANGED <<target, output>> /\ \A c \in Calls : pipe'[c] # "none" => pipe[c] # "none"
    BY <1>0, <1>1, <1>2
    DEF StreamsStayHome, StreamsAnswered, SafeStep, RunStep, CallStep, Accepted
  <1>3. ASSUME NEW c \in Calls, SettleStream(c), phase[c] = "waiting"
        PROVE  StreamsStayHome' /\ StreamsAnswered'
    <2> DEFINE h == ledger[reqId[c]]
    <2>1. Accepted(c) /\ reqId[c] \in Ids
      BY <1>3 DEF Accepted, Addressed
    <2>2. h \in {c, NoCall}
      BY <1>0, <2>1, DispatcherAssumption DEF LedgerSound, UniqueIds, TypeOK
    <2>3. /\ pipe' = [pipe EXCEPT ![c] = "open"]
          /\ target' = [target EXCEPT ![c] = h]
          /\ output' \in {output, [output EXCEPT ![c] = c]}
      BY <1>3, <2>2 DEF SettleStream, Late
    <2>4. handle'[c].status # "processing"
      BY <1>3, SettleSafe DEF Settle
    <2> HIDE DEF h
    <2>5. StreamsStayHome'
      BY <1>0, <2>2, <2>3 DEF StreamsStayHome, TypeOK
    <2>6. StreamsAnswered'
      BY <1>0, <1>1, <1>3, <2>1, <2>3, <2>4
      DEF StreamsAnswered, TypeOK, SafeStep, RunStep, CallStep, Accepted
    <2>7. QED
      BY <2>5, <2>6
  <1>4. QED
    <2>1. ASSUME NEW c \in Calls, SettleStream(c), phase[c] # "waiting"
          PROVE  UNCHANGED <<target, output, pipe>>
      BY <2>1 DEF SettleStream, Late
    <2>2. \A S : \A c \in Calls : AbortedPipes(S)[c] # "none" => pipe[c] # "none"
      BY DEF AbortedPipes
    <2>3. ASSUME NEW c \in Calls, Streaming(c) \/ Deadline(c) \/ RuntimeExpired(c)
          PROVE  /\ UNCHANGED <<target, output>>
                 /\ \A d \in Calls : pipe'[d] # "none" => pipe[d] # "none"
      BY <1>0, <2>2, <2>3, AbortType
      DEF Streaming, StartSending, StreamEnd, ResponseClosed, Deadline, SoftDeadline, HardDeadline,
          GraceExpired, RuntimeExpired, TypeOK
    <2>4. ASSUME Sweep \/ Stop \/ Tick \/ \E i \in Ids : PollGet(i) \/ PollCancel(i)
          PROVE  /\ UNCHANGED <<target, output>>
                 /\ \A d \in Calls : pipe'[d] # "none" => pipe[d] # "none"
      BY <2>2, <2>4 DEF Sweep, Stop, Abort, Tick, PollGet, PollCancel
    <2>5. ASSUME NEW c \in Calls, Incoming(c) \/ SettleValue(c) \/ \E b \in BOOLEAN : SettleError(c, b)
          PROVE  UNCHANGED <<target, output, pipe>>
      BY <2>5 DEF Incoming, Refuse, Track, Conflict, SettleValue, SettleError
    <2>6. QED
      BY <1>2, <1>3, <2>1, <2>3, <2>4, <2>5 DEF Next, Settle, vars

LEMMA NextSafety ==
    ASSUME SafetyInv, [Next]_vars, ReleasedIdsReused = FALSE
    PROVE  SafetyInv'
  <1>1. WellFormed' /\ SafeStep /\ AcceptStep
    BY NextWellFormed, NextSafe, NextAccepts DEF SafetyInv
  <1>2. GuardArmedWhileWaiting' /\ StreamsStayHome' /\ StreamsAnswered'
    BY <1>1, NextGuards, NextStreams DEF SafetyInv
  <1> USE DEF SafetyInv, WellFormed, SafeStep
  <1>3. UniqueIds'
    BY <1>1 DEF UniqueIds, AcceptStep, CallStep, Accepted
  <1>4. NoLostTask'
    <2> SUFFICES ASSUME NEW c \in Calls, Accepted(c)', handle'[c].status = "processing"
                 PROVE  Holds(c)'
      BY DEF NoLostTask
    <2>1. CASE phase[c] = "idle"
      BY <1>1, <2>1 DEF AcceptStep, Holds
    <2>2. CASE phase[c] # "idle"
      <3>1. Accepted(c) /\ reqId'[c] = reqId[c] /\ handle[c].status = "processing"
        BY <1>1, <2>2 DEF CallStep, RunStep
      <3>2. reqId[c] \in Ids /\ ledger[reqId[c]] = c
        BY <3>1 DEF NoLostTask, Holds
      <3>3. ledger'[reqId[c]] = c
        BY <1>1, <3>2, DispatcherAssumption DEF LedgerStep
      <3>4. QED
        BY <3>1, <3>2, <3>3 DEF Holds
    <2>3. QED
      BY <2>1, <2>2
  <1>5. CleanupAfterEnd'
    BY <1>1 DEF RunStep, CleanupAfterEnd
  <1>6. RunningUnsignalled'
    BY <1>1 DEF RunStep, SignalStep, RunningUnsignalled, Quiet
  <1>7. QED
    BY <1>1, <1>2, <1>3, <1>4, <1>5, <1>6

LEMMA InitSafety == Init => SafetyInv
  <1> SUFFICES ASSUME Init PROVE SafetyInv
    OBVIOUS
  <1>1. NewHandle(NoTool, FALSE).status = "processing" /\ NewHandle(NoTool, FALSE).cleanups = 0
    BY DEF NewHandle
  <1>2. /\ \A c \in Calls : ~Accepted(c) /\ signal[c] = FALSE /\ guard[c] = "off" /\ pipe[c] = "none"
        /\ \A c \in Calls : target[c] = NoCall /\ output[c] = NoCall /\ handle[c].cleanups = 0
        /\ \A c \in Calls : phase[c] # "waiting"
    BY <1>1 DEF Init, Accepted
  <1>3. UniqueIds /\ StreamsAnswered /\ StreamsStayHome /\ NoLostTask
    BY <1>2 DEF UniqueIds, StreamsAnswered, StreamsStayHome, NoLostTask
  <1>4. CleanupAfterEnd /\ RunningUnsignalled /\ GuardArmedWhileWaiting
    BY <1>2 DEF CleanupAfterEnd, RunningUnsignalled, GuardArmedWhileWaiting
  <1>5. QED
    BY <1>3, <1>4, InitWellFormed DEF SafetyInv

(***************************************************************************)
(* While clients do not reuse the id of a task that has left the ledger,   *)
(* the inductive invariant holds in every reachable state.                 *)
(***************************************************************************)
THEOREM SafetyInvariant ==
    ASSUME ReleasedIdsReused = FALSE
    PROVE  Spec => []SafetyInv
  BY InitSafety, NextSafety, PTL DEF Spec

\* NoLostTask: no accepted task that still runs is missing from the ledger.
THEOREM NoTaskIsLost ==
    ASSUME ReleasedIdsReused = FALSE
    PROVE  Spec => []NoLostTask
  <1>1. SafetyInv => NoLostTask
    BY DEF SafetyInv
  <1>2. QED
    BY <1>1, SafetyInvariant, PTL

\* StreamsStayHome: a stream closes its own call's handle or none, and a
\* handle holds its own call's stream or none.
THEOREM StreamsReportHome ==
    ASSUME ReleasedIdsReused = FALSE
    PROVE  Spec => []StreamsStayHome
  <1>1. SafetyInv => StreamsStayHome
    BY DEF SafetyInv
  <1>2. QED
    BY <1>1, SafetyInvariant, PTL

\* CleanupAfterEnd: tool.cleanup never runs under a task still processing.
THEOREM CleanupIsLast ==
    ASSUME ReleasedIdsReused = FALSE
    PROVE  Spec => []CleanupAfterEnd
  <1>1. SafetyInv => CleanupAfterEnd
    BY DEF SafetyInv
  <1>2. QED
    BY <1>1, SafetyInvariant, PTL

\* GuardArmedWhileWaiting: a call with a deadline waits under an armed timer,
\* and an answered call has none left, however ids are used.
THEOREM GuardFollowsWait == Spec => []GuardArmedWhileWaiting
  <1>1. Init => WellFormed /\ GuardArmedWhileWaiting
    BY InitWellFormed DEF Init, GuardArmedWhileWaiting
  <1>2. WellFormed /\ GuardArmedWhileWaiting /\ [Next]_vars => (WellFormed /\ GuardArmedWhileWaiting)'
    BY NextWellFormed, NextGuards
  <1>3. QED
    BY <1>1, <1>2, PTL DEF Spec
=============================================================================
