---------------------- MODULE DispatcherContractProofs ----------------------
(***************************************************************************)
(* How a step moves the status of a task, and what follows from it: signal *)
(* and status agree however ids are used, and where the id of a task that  *)
(* has left the ledger is not reused, the dispatcher implements            *)
(* TaskContract and keeps results for as long as it announced.             *)
(***************************************************************************)
EXTENDS DispatcherContract, DispatcherProofs

\* A call waits for a promise that is still pending; a task with a pending
\* promise runs or was aborted.
WaitPending == \A c \in Calls : phase[c] = "waiting" => promise[c] = "pending"
PendingStatus ==
    \A c \in Calls : promise[c] = "pending" => handle[c].status \in {"processing", "aborted"}

AgreeInv ==
    /\ WellFormed
    /\ GuardArmedWhileWaiting
    /\ WaitPending
    /\ PendingStatus
    /\ SignalAndStatusAgree

(***************************************************************************)
(* The four things a step can do to a task: leave it, stop it, end its run *)
(* by its own promise, or make it.                                         *)
(***************************************************************************)
Left(d) == handle'[d].status = handle[d].status /\ signal'[d] = signal[d] /\ promise'[d] = promise[d]
Stopped(d) ==
    /\ Live(handle[d])
    /\ handle'[d].status = "aborted"
    /\ signal'[d]
    /\ promise'[d] = promise[d]
    /\ phase[d] # "idle"
Ended(d) ==
    /\ promise[d] = "pending" /\ promise'[d] # "pending"
    /\ signal'[d] = signal[d]
    /\ Ends(handle[d], handle'[d])
    /\ phase[d] # "idle"
Made(d) ==
    /\ phase[d] = "idle"
    /\ handle'[d].status = "processing"
    /\ signal'[d] = signal[d]
    /\ promise'[d] = "pending"
StatusStep == \A d \in Calls : Left(d) \/ Stopped(d) \/ Ended(d) \/ Made(d)

\* handle.abort() of a set of calls stops those that live and were not yet
\* told, and does nothing to the others.
LEMMA AbortStatus ==
    ASSUME TypeOK, NEW S, NEW d \in Calls
    PROVE  \/ AbortedHandles(S)[d] = handle[d] /\ AbortSignals(S)[d] = signal[d]
           \/ /\ Live(handle[d]) /\ d \in S
              /\ AbortedHandles(S)[d].status = "aborted"
              /\ AbortSignals(S)[d]
  <1>1. Live(handle[d]) => HandleAbort(handle[d]).status = "aborted"
    BY StatusSettled DEF TypeOK
  <1>2. signal[d] \in BOOLEAN
    BY DEF TypeOK
  <1>3. QED
    BY <1>1, <1>2 DEF AbortedHandles, AbortSignals, Fired, Hit

LEMMA IncomingStatus ==
    ASSUME AgreeInv, NEW c \in Calls, Incoming(c)
    PROVE  StatusStep
  <1> USE DEF AgreeInv, WellFormed
  <1>1. ASSUME NEW i \in Ids, Refuse(c, i)
        PROVE  StatusStep
    <2>1. \A d \in Calls : handle'[d].status = handle[d].status
      BY <1>1, CleanupEffect DEF Refuse, TypeOK
    <2>2. QED
      BY <1>1, <2>1 DEF Refuse, StatusStep, Left
  <1>2. ASSUME NEW i \in Ids, NEW t \in Tools, Track(c, i, t)
        PROVE  StatusStep
    <2>1. NewHandle(t, RuntimeLimit).status = "processing"
      BY DEF NewHandle
    <2>2. QED
      BY <1>2, <2>1 DEF Track, Execute, StatusStep, Left, Made, TypeOK
  <1>3. ASSUME NEW i \in Ids, NEW t \in Tools, Conflict(c, i, t)
        PROVE  StatusStep
    <2> DEFINE hs == [handle EXCEPT ![c] = NewHandle(t, RuntimeLimit)]
    <2>1. NewHandle(t, RuntimeLimit) \in Handle /\ NewHandle(t, RuntimeLimit).status = "processing"
      BY NewHandleType, HandleAssumption, DispatcherAssumption
    <2>2. /\ hs \in [Calls -> Handle] /\ hs[c].status = "processing"
          /\ \A d \in Calls \ {c} : hs[d] = handle[d]
      BY <2>1 DEF TypeOK
    <2>3. CheckImmediateCleanup(hs, i)
      BY <1>3 DEF Conflict
    <2> HIDE DEF hs
    <2>4. \A d \in Calls : handle'[d].status = hs[d].status
      BY <2>2, <2>3, CleanupEffect
    <2>5. QED
      BY <1>3, <2>2, <2>4 DEF Conflict, Execute, StatusStep, Left, Made, TypeOK
  <1>4. QED
    BY <1>1, <1>2, <1>3 DEF Incoming

LEMMA SettleStatus ==
    ASSUME AgreeInv, NEW c \in Calls, Settle(c)
    PROVE  StatusStep
  <1> USE DEF AgreeInv, WellFormed
  <1>1. PICK hs \in [Calls -> Handle], a \in Answers \ {"conflict", "refused"} : Settled(c, hs, a)
    BY SettleOutcome DEF SettledSomehow
  <1>2. /\ signal' = signal
        /\ promise[c] = "pending" /\ phase[c] # "idle"
        /\ \E p \in {"value", "stream", "failed"} : promise' = [promise EXCEPT ![c] = p]
    BY DEF Settle, SettleValue, SettleError, SettleStream, Quiet
  <1>3. \A d \in Calls : handle'[d].status = hs[d].status
    <2>1. CASE Late(c, hs)
      BY <2>1 DEF Late
    <2>2. CASE phase[c] = "waiting" /\ Answer(c, a, hs)
      BY <1>2, <2>2, CleanupEffect DEF Answer, Addressed
    <2>3. QED
      BY <1>1, <2>1, <2>2 DEF Settled
  <1>4. QED
    BY <1>1, <1>2, <1>3 DEF StatusStep, Left, Ended, Settled, Ends, TypeOK

LEMMA DeadlineStatus ==
    ASSUME AgreeInv, NEW c \in Calls, Deadline(c) \/ RuntimeExpired(c)
    PROVE  StatusStep
  <1> USE DEF AgreeInv, WellFormed
  <1>0. TypeOK
    OBVIOUS
  <1>1. CASE SoftDeadline(c) \/ GraceExpired(c)
    <2>1. phase[c] # "idle" /\ UNCHANGED <<promise, signal>>
      BY <1>1 DEF SoftDeadline, GraceExpired, Quiet
    <2>2. \A d \in Calls : handle'[d].status = handle[d].status
      BY <1>1, <2>1, CleanupEffect DEF SoftDeadline, GraceExpired, Answer, Addressed, TypeOK
    <2>3. QED
      BY <2>1, <2>2 DEF StatusStep, Left
  <1>2. CASE HardDeadline(c)
    <2>1. phase[c] = "waiting" /\ promise[c] = "pending"
      BY <1>2 DEF HardDeadline, GuardArmedWhileWaiting, WaitPending
    <2>2. handle[c].status = "processing" \/ signal[c]
      BY <2>1 DEF PendingStatus, SignalAndStatusAgree
    <2>3. /\ handle' = AbortedHandles({c})
          /\ signal' = [signal EXCEPT ![c] = TRUE] /\ promise' = promise
      BY <1>2 DEF HardDeadline
    <2>4. \A d \in Calls \ {c} : Left(d)
      BY <1>0, <2>3 DEF Left, AbortedHandles, Fired, Hit, TypeOK
    <2>5. CASE signal[c]
      BY <1>0, <2>3, <2>4, <2>5 DEF StatusStep, Left, AbortedHandles, Fired, TypeOK
    <2>6. CASE ~signal[c]
      <3>1. Live(handle[c]) /\ handle'[c].status = "aborted" /\ signal'[c]
        BY <1>0, <2>2, <2>3, <2>6, StatusSettled DEF AbortedHandles, Fired, Hit, TypeOK
      <3>2. QED
        BY <2>1, <2>3, <2>4, <3>1 DEF StatusStep, Stopped
    <2>7. QED
      BY <2>5, <2>6
  <1>3. CASE RuntimeExpired(c)
    <2>1. phase[c] # "idle"
      BY <1>3 DEF RuntimeExpired, Quiet
    <2> DEFINE hs == AbortedHandles({c})
    <2>2. hs \in [Calls -> Handle] /\ handle' = [hs EXCEPT ![c].timer = FALSE]
      BY <1>0, <1>3, AbortType DEF RuntimeExpired
    <2>3. \A d \in Calls : \/ hs[d] = handle[d] /\ AbortSignals({c})[d] = signal[d]
                           \/ /\ Live(handle[d]) /\ d \in {c}
                              /\ hs[d].status = "aborted"
                              /\ AbortSignals({c})[d]
      BY <1>0, AbortStatus
    <2> HIDE DEF hs
    <2>4. \A d \in Calls : handle'[d].status = hs[d].status
      BY <2>2, StatusKept
    <2>5. signal' = AbortSignals({c}) /\ promise' = promise
      BY <1>3 DEF RuntimeExpired
    <2>6. QED
      BY <2>1, <2>3, <2>4, <2>5 DEF StatusStep, Left, Stopped
  <1>4. QED
    BY <1>1, <1>2, <1>3 DEF Deadline

\* A step that aborts the calls in S, whatever else it does to their handles.
LEMMA AbortingStatus ==
    ASSUME WellFormed, NEW S, \A d \in S : phase[d] # "idle",
           NEW hs, hs = AbortedHandles(S), \A d \in Calls : handle'[d].status = hs[d].status,
           signal' = AbortSignals(S), promise' = promise
    PROVE  StatusStep
  <1>1. \A d \in Calls : \/ hs[d] = handle[d] /\ AbortSignals(S)[d] = signal[d]
                         \/ /\ Live(handle[d]) /\ d \in S
                            /\ hs[d].status = "aborted"
                            /\ AbortSignals(S)[d]
    BY AbortStatus DEF WellFormed
  <1>2. QED
    BY <1>1 DEF StatusStep, Left, Stopped

LEMMA StreamingStatus ==
    ASSUME AgreeInv, NEW c \in Calls, Streaming(c)
    PROVE  StatusStep
  <1> USE DEF AgreeInv, WellFormed
  <1>0. TypeOK
    OBVIOUS
  <1>1. CASE StartSending(c)
    BY <1>1 DEF StartSending, StatusStep, Left
  <1>2. CASE StreamEnd(c)
    <2>1. UNCHANGED <<signal, promise>>
      BY <1>2 DEF StreamEnd
    <2>2. \A d \in Calls : handle'[d].status = handle[d].status
      <3>1. CASE target[c] = NoCall
        BY <1>2, <3>1 DEF StreamEnd
      <3>2. CASE target[c] # NoCall
        <4>1. target[c] \in Calls /\ handle' = [handle EXCEPT ![target[c]] = StreamClosed(@)]
          BY <1>0, <1>2, <3>2 DEF StreamEnd, TypeOK
        <4>2. StreamClosed(handle[target[c]]).status = handle[target[c]].status
          BY <1>0, <4>1, StatusKept DEF TypeOK
        <4>3. QED
          BY <1>0, <4>1, <4>2 DEF TypeOK
      <3>3. QED
        BY <3>1, <3>2
    <2>3. QED
      BY <2>1, <2>2 DEF StatusStep, Left
  <1>3. CASE ResponseClosed(c)
    <2> DEFINE h  == ledger[reqId[c]]
               S  == IF h = NoCall THEN {} ELSE {h}
               hs == AbortedHandles(S)
    <2>1. h \in Calls \cup {NoCall} /\ (h # NoCall => phase[h] # "idle")
      BY <1>3 DEF ResponseClosed, Quiet, Addressed, TypeOK, LedgerSound, Accepted
    <2>2. hs \in [Calls -> Handle] /\ \A d \in S : phase[d] # "idle"
      BY <1>0, <2>1, AbortType
    <2>3. /\ handle' = IF h = NoCall THEN hs ELSE [hs EXCEPT ![h] = Touch(@)]
          /\ signal' = AbortSignals(S) /\ promise' = promise
      BY <1>3 DEF ResponseClosed
    <2>4. \A d \in Calls : handle'[d].status = hs[d].status
      <3> HIDE DEF hs, S, h
      <3>1. QED
        BY <2>1, <2>2, <2>3, StatusKept
    <2> HIDE DEF S, h
    <2>5. QED
      BY <2>2, <2>3, <2>4, AbortingStatus
  <1>4. QED
    BY <1>1, <1>2, <1>3 DEF Streaming

LEMMA PollStatus ==
    ASSUME AgreeInv, NEW i \in Ids, PollGet(i) \/ PollCancel(i)
    PROVE  StatusStep
  <1> USE DEF AgreeInv, WellFormed
  <1>0. TypeOK
    OBVIOUS
  <1> DEFINE h == ledger[i]
  <1>1. h \in Calls /\ phase[h] # "idle" /\ promise' = promise
    BY DEF TypeOK, PollGet, PollCancel, LedgerSound, Accepted
  <1>2. CASE PollGet(i)
    <2>1. Fetch(handle[h]).status = handle[h].status /\ Touch(handle[h]).status = handle[h].status
      BY <1>0, <1>1, StatusKept DEF TypeOK
    <2>2. /\ signal' = signal
          /\ handle' = [handle EXCEPT ![h] = IF @.status = "completed" THEN Fetch(@) ELSE Touch(@)]
      BY <1>2 DEF PollGet
    <2> HIDE DEF h
    <2>3. QED
      BY <1>0, <1>1, <2>1, <2>2 DEF StatusStep, Left, TypeOK
  <1>3. CASE PollCancel(i)
    <2> DEFINE hs == AbortedHandles({h})
    <2>1. hs \in [Calls -> Handle]
      BY <1>0, AbortType
    <2>2. handle' = [hs EXCEPT ![h] = Touch(@)] /\ signal' = AbortSignals({h})
      BY <1>3 DEF PollCancel
    <2>3. \A d \in Calls : handle'[d].status = hs[d].status
      <3> HIDE DEF hs, h
      <3>1. QED
        BY <1>1, <2>1, <2>2, StatusKept
    <2> HIDE DEF h
    <2>4. QED
      BY <1>1, <2>2, <2>3, AbortingStatus
  <1>4. QED
    BY <1>2, <1>3

LEMMA TrackerStatus ==
    ASSUME AgreeInv, Sweep \/ Stop \/ Tick
    PROVE  StatusStep
  <1> USE DEF AgreeInv, WellFormed
  <1>1. CASE Sweep \/ Stop
    <2>1. PICK S \in SUBSET {c \in Calls : Holds(c)} : Abort(S) /\ promise' = promise
      BY <1>1 DEF Sweep, Stop
    <2>2. \A d \in S : phase[d] # "idle"
      BY DispatcherAssumption DEF Holds, LedgerSound, Accepted
    <2>3. QED
      BY <2>1, <2>2, AbortingStatus DEF Abort
  <1>2. CASE Tick
    <2>1. \A d \in Calls : handle'[d].status = handle[d].status
      BY <1>2, StatusKept DEF Tick, TypeOK
    <2>2. QED
      BY <1>2, <2>1 DEF Tick, StatusStep, Left
  <1>3. QED
    BY <1>1, <1>2

\* Every step leaves, stops, ends or makes each task.
LEMMA NextStatus == AgreeInv /\ [Next]_vars => StatusStep
  <1> SUFFICES ASSUME AgreeInv, [Next]_vars PROVE StatusStep
    OBVIOUS
  <1>1. CASE UNCHANGED vars
    BY <1>1 DEF vars, StatusStep, Left
  <1>2. QED
    BY <1>1, IncomingStatus, SettleStatus, DeadlineStatus, StreamingStatus, PollStatus, TrackerStatus
    DEF Next

\* A call begins to wait with its promise, and stops when the promise settles.
LEMMA NextWaits ==
    ASSUME AgreeInv, [Next]_vars
    PROVE  WaitPending'
  <1> USE DEF AgreeInv, WellFormed
  <1>0. TypeOK
    OBVIOUS
  <1>1. CASE UNCHANGED <<phase, promise>>
    BY <1>1 DEF WaitPending
  <1>2. ASSUME NEW c \in Calls, Incoming(c)
        PROVE  WaitPending'
    <2>1. \/ /\ phase' = [phase EXCEPT ![c] = "refused"]
             /\ promise' = promise
          \/ /\ promise' = [promise EXCEPT ![c] = "pending"]
             /\ \E a \in {"waiting", "conflict"} : phase' = [phase EXCEPT ![c] = a]
      BY <1>2 DEF Incoming, Refuse, Track, Conflict, Execute
    <2>2. QED
      BY <1>0, <2>1 DEF WaitPending, TypeOK
  <1>3. ASSUME NEW c \in Calls, NEW a \in Answers, phase' = [phase EXCEPT ![c] = a],
               \A d \in Calls \ {c} : promise'[d] = promise[d]
        PROVE  WaitPending'
    BY <1>0, <1>3 DEF WaitPending, TypeOK, Answers
  <1>4. ASSUME NEW c \in Calls, Settle(c)
        PROVE  WaitPending'
    <2>1. \A d \in Calls \ {c} : promise'[d] = promise[d]
      BY <1>0, <1>4 DEF Settle, SettleValue, SettleError, SettleStream, TypeOK
    <2>2. \/ phase' = phase /\ phase[c] # "waiting"
          \/ \E a \in Answers : phase' = [phase EXCEPT ![c] = a]
      BY <1>4 DEF Settle, SettleValue, SettleError, SettleStream, Late, Answer, Answers
    <2>3. QED
      BY <1>3, <2>1, <2>2 DEF WaitPending
  <1>5. ASSUME NEW c \in Calls, Deadline(c)
        PROVE  WaitPending'
    <2>1. promise' = promise
      BY <1>5 DEF Deadline, SoftDeadline, HardDeadline, GraceExpired
    <2>2. phase' = phase \/ \E a \in Answers : phase' = [phase EXCEPT ![c] = a]
      BY <1>5 DEF Deadline, SoftDeadline, HardDeadline, GraceExpired, Answer, Answers
    <2>3. QED
      BY <1>1, <1>3, <2>1, <2>2
  <1>6. QED
    BY <1>1, <1>2, <1>4, <1>5
    DEF Next, RuntimeExpired, Streaming, StartSending, StreamEnd, ResponseClosed,
        PollGet, PollCancel, Sweep, Stop, Tick, vars

LEMMA NextAgrees == AgreeInv /\ [Next]_vars => AgreeInv'
  <1> SUFFICES ASSUME AgreeInv, [Next]_vars PROVE AgreeInv'
    OBVIOUS
  <1>1. WellFormed' /\ GuardArmedWhileWaiting' /\ WaitPending' /\ StatusStep
    BY NextWellFormed, NextGuards, NextWaits, NextStatus DEF AgreeInv
  <1>2. \A d \in Calls : phase[d] = "idle" => ~signal[d]
    BY DEF AgreeInv, WellFormed, Quiet
  <1>3. PendingStatus'
    BY <1>1 DEF AgreeInv, PendingStatus, StatusStep, Left, Stopped, Ended, Made
  <1>4. SignalAndStatusAgree'
    BY <1>1, <1>2
    DEF AgreeInv, SignalAndStatusAgree, StatusStep, Left, Stopped, Ended, Made
  <1>5. QED
    BY <1>1, <1>3, <1>4 DEF AgreeInv

(***************************************************************************)
(* The inductive invariant behind the agreement holds in every reachable   *)
(* state, whether or not ids are reused: waiting calls have pending        *)
(* promises, and a pending promise an unfinished or an aborted task.       *)
(***************************************************************************)
THEOREM AgreementInvariant == Spec => []AgreeInv
  <1>1. Init => AgreeInv
    BY InitWellFormed
    DEF Init, AgreeInv, GuardArmedWhileWaiting, WaitPending, PendingStatus, SignalAndStatusAgree
  <1>2. QED
    BY <1>1, NextAgrees, PTL DEF Spec

\* SignalAndStatusAgree: while a tool runs, its abort signal has fired exactly
\* when its handle says 'aborted'.
THEOREM SignalsAgree == Spec => []SignalAndStatusAgree
  <1>1. AgreeInv => SignalAndStatusAgree
    BY DEF AgreeInv
  <1>2. QED
    BY <1>1, AgreementInvariant, PTL

(***************************************************************************)
(* A task that failed has no stream left that an abort could still stop.   *)
(* Only setOutputStream could break that, and where ids are not reused it  *)
(* is called on the handle of the call that has just been resolved.        *)
(***************************************************************************)
Silent(h) == h.status = "error" => ~h.streamPending
ErrorSilent == \A c \in Calls : Silent(handle[c])
ContractInv == SafetyInv /\ AgreeInv /\ ErrorSilent

LEMMA SilentKept ==
    ASSUME NEW h \in Handle, Silent(h)
    PROVE  /\ Silent(Touch(h))
           /\ Silent(HandleAbort(h))
           /\ Silent(Resolve(h))
           /\ \A b \in BOOLEAN : Silent(Reject(h, b))
           /\ Silent(StreamClosed(h))
           /\ Silent(Fetch(h))
           /\ Silent(Elapse(h))
           /\ Silent([h EXCEPT !.timer = FALSE])
  <1>1. Silent(Touch(h)) /\ Silent(Fetch(h)) /\ Silent(Elapse(h)) /\ Silent([h EXCEPT !.timer = FALSE])
    BY DEF Handle, Silent, Touch, Fetch, Elapse
  <1>2. Silent(HandleAbort(h)) /\ Silent(Resolve(h)) /\ Silent(StreamClosed(h))
    BY DEF Handle, Silent, HandleAbort, Resolve, StreamClosed
  <1>3. \A b \in BOOLEAN : Silent(Reject(h, b))
    BY DEF Handle, Silent, Reject
  <1>4. QED
    BY <1>1, <1>2, <1>3

LEMMA AbortedSilent ==
    ASSUME TypeOK, ErrorSilent, NEW S
    PROVE  \A d \in Calls : Silent(AbortedHandles(S)[d])
  BY SilentKept DEF TypeOK, ErrorSilent, AbortedHandles

\* Looking at the ledger leaves silent handles silent.
LEMMA CleanedSilent ==
    ASSUME TypeOK, NEW hs \in [Calls -> Handle], \A d \in Calls : Silent(hs[d]),
           NEW i \in Ids, CheckImmediateCleanup(hs, i)
    PROVE  ErrorSilent'
  <1>1. handle' = CleanedHandles(hs, i)
    BY DEF CheckImmediateCleanup
  <1>2. \A d \in Calls : Silent(Touch(hs[d]))
    BY SilentKept
  <1>3. QED
    BY <1>1, <1>2 DEF CleanedHandles, ErrorSilent, TypeOK

LEMMA IncomingSilent ==
    ASSUME ContractInv, NEW c \in Calls, Incoming(c)
    PROVE  ErrorSilent'
  <1> USE DEF ContractInv, SafetyInv, WellFormed
  <1>1. ASSUME NEW t \in Tools
        PROVE  NewHandle(t, RuntimeLimit) \in Handle /\ Silent(NewHandle(t, RuntimeLimit))
    BY NewHandleType, HandleAssumption, DispatcherAssumption DEF Silent
  <1>2. ASSUME NEW i \in Ids, Refuse(c, i)
        PROVE  ErrorSilent'
    BY <1>2, CleanedSilent DEF Refuse, ErrorSilent, TypeOK
  <1>3. ASSUME NEW i \in Ids, NEW t \in Tools, Track(c, i, t)
        PROVE  ErrorSilent'
    BY <1>1, <1>3 DEF Track, ErrorSilent, TypeOK
  <1>4. ASSUME NEW i \in Ids, NEW t \in Tools, Conflict(c, i, t)
        PROVE  ErrorSilent'
    <2> DEFINE hs == [handle EXCEPT ![c] = NewHandle(t, RuntimeLimit)]
    <2>1. hs \in [Calls -> Handle] /\ \A d \in Calls : Silent(hs[d])
      BY <1>1 DEF TypeOK, ErrorSilent
    <2>2. CheckImmediateCleanup(hs, i)
      BY <1>4 DEF Conflict
    <2> HIDE DEF hs
    <2>3. QED
      BY <2>1, <2>2, CleanedSilent
  <1>5. QED
    BY <1>2, <1>3, <1>4 DEF Incoming

\* The handles hs after a promise has settled are silent, and so is what is
\* left of them when the call is answered.
LEMMA AnsweredSilent ==
    ASSUME WellFormed, NEW c \in Calls, phase[c] # "idle", NEW a,
           NEW hs \in [Calls -> Handle], \A d \in Calls : Silent(hs[d]),
           Late(c, hs) \/ Answer(c, a, hs)
    PROVE  ErrorSilent'
  <1>1. CASE Late(c, hs)
    BY <1>1 DEF Late, ErrorSilent
  <1>2. CASE Answer(c, a, hs)
    BY <1>2, CleanedSilent DEF Answer, WellFormed, Addressed
  <1>3. QED
    BY <1>1, <1>2

LEMMA SettleSilent ==
    ASSUME ContractInv, NEW c \in Calls, Settle(c)
    PROVE  ErrorSilent'
  <1> USE DEF ContractInv, SafetyInv, WellFormed
  <1>1. phase[c] # "idle" /\ promise[c] = "pending" /\ handle[c].status \in {"processing", "aborted"}
    BY DEF Settle, SettleValue, SettleError, SettleStream, Quiet, AgreeInv, PendingStatus
  <1>2. handle[c] \in Handle /\ Silent(handle[c])
    BY DEF TypeOK, ErrorSilent
  <1>3. CASE SettleValue(c)
    <2> DEFINE hs == [handle EXCEPT ![c] = Resolve(@)]
    <2>1. hs \in [Calls -> Handle] /\ \A d \in Calls : Silent(hs[d])
      BY <1>2, SilentKept, HandleOperations DEF TypeOK, ErrorSilent
    <2>2. Late(c, hs) \/ Answer(c, "ok", hs)
      BY <1>3 DEF SettleValue
    <2> HIDE DEF hs
    <2>3. QED
      BY <1>1, <2>1, <2>2, AnsweredSilent
  <1>4. ASSUME NEW b \in BOOLEAN, SettleError(c, b)
        PROVE  ErrorSilent'
    <2> DEFINE hs == [handle EXCEPT ![c] = Reject(@, b \/ signal[c])]
    <2>1. (b \/ signal[c]) \in BOOLEAN
      OBVIOUS
    <2>2. hs \in [Calls -> Handle] /\ \A d \in Calls : Silent(hs[d])
      BY <1>2, <2>1, SilentKept, HandleOperations DEF TypeOK, ErrorSilent
    <2>3. PICK a : Late(c, hs) \/ Answer(c, a, hs)
      BY <1>4 DEF SettleError
    <2> HIDE DEF hs
    <2>4. QED
      BY <1>1, <2>2, <2>3, AnsweredSilent
  <1>5. CASE SettleStream(c)
    <2> DEFINE hs == [handle EXCEPT ![c] = Resolve(@)]
               gs == [hs EXCEPT ![c] = SetOutputStream(@)]
               h  == ledger[reqId[c]]
    <2>1. hs \in [Calls -> Handle] /\ \A d \in Calls : Silent(hs[d])
      BY <1>2, SilentKept, HandleOperations DEF TypeOK, ErrorSilent
    <2>2. hs[c] \in Handle /\ hs[c].status # "error"
      BY <1>1, <1>2, <2>1, StatusSettled DEF TypeOK
    <2>3. SetOutputStream(hs[c]) \in Handle /\ Silent(SetOutputStream(hs[c]))
      <3> HIDE DEF hs
      <3>1. QED
        BY <2>2, HandleOperations, StatusKept DEF Silent
    <2>4. gs \in [Calls -> Handle] /\ \A d \in Calls : Silent(gs[d])
      <3> HIDE DEF hs
      <3>1. QED
        BY <2>1, <2>3
    <2>5. phase[c] = "waiting" => h \in {c, NoCall}
      BY DispatcherAssumption DEF Addressed, LedgerSound, UniqueIds, TypeOK, Accepted
    <2>6. \/ Late(c, hs) \/ Answer(c, "stream", hs)
          \/ Late(c, gs) \/ Answer(c, "stream", gs)
      BY <1>5, <2>5 DEF SettleStream
    <2> HIDE DEF gs, hs
    <2>7. QED
      BY <1>1, <2>1, <2>4, <2>6, AnsweredSilent
  <1>6. QED
    BY <1>3, <1>4, <1>5 DEF Settle

\* One handle of hs is touched, or has its timer cleared: all stay silent.
LEMMA OneSilent ==
    ASSUME NEW hs \in [Calls -> Handle], \A d \in Calls : Silent(hs[d]), NEW c \in Calls,
           handle' \in {hs, [hs EXCEPT ![c] = Touch(@)], [hs EXCEPT ![c] = Fetch(@)],
                        [hs EXCEPT ![c].timer = FALSE]}
    PROVE  ErrorSilent'
  <1>1. Silent(Touch(hs[c])) /\ Silent(Fetch(hs[c])) /\ Silent([hs[c] EXCEPT !.timer = FALSE])
    BY SilentKept
  <1>2. QED
    BY <1>1 DEF ErrorSilent

LEMMA DeadlineSilent ==
    ASSUME ContractInv, NEW c \in Calls, Deadline(c) \/ RuntimeExpired(c)
    PROVE  ErrorSilent'
  <1> USE DEF ContractInv, SafetyInv, WellFormed
  <1>1. CASE SoftDeadline(c) \/ GraceExpired(c)
    <2>1. phase[c] # "idle" /\ handle \in [Calls -> Handle]
      BY <1>1 DEF SoftDeadline, GraceExpired, Quiet, TypeOK
    <2>2. QED
      BY <1>1, <2>1, AnsweredSilent DEF SoftDeadline, GraceExpired, ErrorSilent
  <1>2. ASSUME NEW hs, hs = AbortedHandles({c}), handle' \in {hs, [hs EXCEPT ![c].timer = FALSE]}
        PROVE  ErrorSilent'
    <2>1. hs \in [Calls -> Handle] /\ \A d \in Calls : Silent(hs[d])
      BY <1>2, AbortType, AbortedSilent
    <2>2. QED
      BY <1>2, <2>1, OneSilent
  <1>3. CASE HardDeadline(c) \/ RuntimeExpired(c)
    BY <1>2, <1>3 DEF HardDeadline, RuntimeExpired
  <1>4. QED
    BY <1>1, <1>3 DEF Deadline

LEMMA StreamingSilent ==
    ASSUME ContractInv, NEW c \in Calls, Streaming(c)
    PROVE  ErrorSilent'
  <1> USE DEF ContractInv, SafetyInv, WellFormed
  <1>1. CASE StartSending(c)
    BY <1>1 DEF StartSending, ErrorSilent
  <1>2. CASE StreamEnd(c)
    <2>1. \A d \in Calls : Silent(StreamClosed(handle[d]))
      BY SilentKept DEF TypeOK, ErrorSilent
    <2>2. handle' \in {handle, [handle EXCEPT ![target[c]] = StreamClosed(@)]}
      BY <1>2 DEF StreamEnd
    <2>3. QED
      BY <2>1, <2>2 DEF ErrorSilent, TypeOK
  <1>3. CASE ResponseClosed(c)
    <2>1. phase[c] # "idle" /\ reqId[c] \in Ids
      BY <1>3 DEF ResponseClosed, Quiet, Addressed
    <2> DEFINE h  == ledger[reqId[c]]
               S  == IF h = NoCall THEN {} ELSE {h}
               hs == AbortedHandles(S)
    <2>2. hs \in [Calls -> Handle] /\ \A d \in Calls : Silent(hs[d])
      BY AbortType, AbortedSilent
    <2>3. h \in Calls \cup {NoCall} /\ handle' = IF h = NoCall THEN hs ELSE [hs EXCEPT ![h] = Touch(@)]
      BY <1>3, <2>1 DEF ResponseClosed, TypeOK
    <2> HIDE DEF hs, S, h
    <2>4. QED
      BY <2>2, <2>3, OneSilent
  <1>4. QED
    BY <1>1, <1>2, <1>3 DEF Streaming

LEMMA PollSilent ==
    ASSUME ContractInv, NEW i \in Ids, PollGet(i) \/ PollCancel(i)
    PROVE  ErrorSilent'
  <1> USE DEF ContractInv, SafetyInv, WellFormed
  <1> DEFINE h == ledger[i]
  <1>1. h \in Calls /\ handle \in [Calls -> Handle]
    BY DEF TypeOK, PollGet, PollCancel
  <1>2. CASE PollGet(i)
    <2>1. handle' \in {[handle EXCEPT ![h] = Fetch(@)], [handle EXCEPT ![h] = Touch(@)]}
      BY <1>2 DEF PollGet
    <2> HIDE DEF h
    <2>2. QED
      BY <1>1, <2>1, OneSilent DEF ErrorSilent
  <1>3. CASE PollCancel(i)
    <2> DEFINE hs == AbortedHandles({h})
    <2>1. hs \in [Calls -> Handle] /\ \A d \in Calls : Silent(hs[d])
      BY AbortType, AbortedSilent
    <2>2. handle' = [hs EXCEPT ![h] = Touch(@)]
      BY <1>3 DEF PollCancel
    <2> HIDE DEF hs, h
    <2>3. QED
      BY <1>1, <2>1, <2>2, OneSilent
  <1>4. QED
    BY <1>2, <1>3

LEMMA TrackerSilent ==
    ASSUME ContractInv, Sweep \/ Stop \/ Tick
    PROVE  ErrorSilent'
  <1> USE DEF ContractInv, SafetyInv, WellFormed
  <1>1. CASE Sweep \/ Stop
    <2>1. PICK S : handle' = AbortedHandles(S)
      BY <1>1 DEF Sweep, Stop, Abort
    <2>2. QED
      BY <2>1, AbortedSilent DEF ErrorSilent
  <1>2. CASE Tick
    <2>1. \A d \in Calls : Silent(handle[d]) /\ Silent(Elapse(handle[d]))
      BY SilentKept DEF TypeOK, ErrorSilent
    <2>2. QED
      BY <1>2, <2>1 DEF Tick, ErrorSilent
  <1>3. QED
    BY <1>1, <1>2

LEMMA NextContractInv ==
    ASSUME ContractInv, [Next]_vars, ReleasedIdsReused = FALSE
    PROVE  ContractInv'
  <1>1. CASE UNCHANGED vars
    <2>1. ErrorSilent'
      BY <1>1 DEF vars, ContractInv, ErrorSilent
    <2>2. QED
      BY <2>1, NextSafety, NextAgrees DEF ContractInv
  <1>2. CASE Next
    <2>1. ErrorSilent'
      BY <1>2, IncomingSilent, SettleSilent, DeadlineSilent, StreamingSilent, PollSilent, TrackerSilent
      DEF Next
    <2>2. QED
      BY <2>1, NextSafety, NextAgrees DEF ContractInv
  <1>3. QED
    BY <1>1, <1>2

LEMMA InitContractInv == Init => ContractInv
  <1>1. Init => AgreeInv
    BY InitWellFormed
    DEF Init, AgreeInv, GuardArmedWhileWaiting, WaitPending, PendingStatus, SignalAndStatusAgree
  <1>2. Init => ErrorSilent
    BY DEF Init, ErrorSilent, Silent, NewHandle
  <1>3. QED
    BY <1>1, <1>2, InitSafety DEF ContractInv
-----------------------------------------------------------------------------
(***************************************************************************)
(* The refinement.  A registered request is Register, one that is refused  *)
(* or conflicts TurnAway, and every other step Progress.                   *)
(***************************************************************************)
\* Only Track enters a call into the ledger.
LEMMA OnlyTrackEnters ==
    ASSUME WellFormed, [Next]_vars,
           ~ \E c \in Calls, i \in Ids, t \in Tools : Track(c, i, t)
    PROVE  \A j \in Ids : ledger'[j] \in {ledger[j], NoCall}
  <1> USE DEF WellFormed
  <1>0. TypeOK
    OBVIOUS
  <1>1. ASSUME NEW hs \in [Calls -> Handle], NEW i \in Ids, CheckImmediateCleanup(hs, i)
        PROVE  \A j \in Ids : ledger'[j] \in {ledger[j], NoCall}
    BY <1>1, CleanupEffect
  <1>2. ASSUME NEW c \in Calls, Incoming(c)
        PROVE  \A j \in Ids : ledger'[j] \in {ledger[j], NoCall}
    BY <1>0, <1>2 DEF Incoming, Refuse, Conflict, CheckImmediateCleanup, CleanedLedger, TypeOK
  <1>3. ASSUME NEW c \in Calls, Settle(c) \/ Deadline(c)
        PROVE  \A j \in Ids : ledger'[j] \in {ledger[j], NoCall}
    <2>1. ledger' = ledger \/ \E hs : ledger' = CleanedLedger(hs, reqId[c])
      BY <1>3 DEF Settle, SettleValue, SettleError, SettleStream, Late, Answer, CheckImmediateCleanup,
         Deadline, SoftDeadline, HardDeadline, GraceExpired
    <2>2. QED
      BY <1>0, <2>1 DEF CleanedLedger, TypeOK
  <1>4. ASSUME NEW c \in Calls, Streaming(c) \/ RuntimeExpired(c)
        PROVE  \A j \in Ids : ledger'[j] \in {ledger[j], NoCall}
    BY <1>0, <1>4 DEF Streaming, StartSending, StreamEnd, ResponseClosed, RuntimeExpired, TypeOK
  <1>5. ASSUME Sweep \/ Stop \/ Tick \/ \E i \in Ids : PollGet(i) \/ PollCancel(i)
        PROVE  \A j \in Ids : ledger'[j] \in {ledger[j], NoCall}
    BY <1>5 DEF Sweep, Stop, Tick, PollGet, PollCancel
  <1>6. QED
    BY <1>2, <1>3, <1>4, <1>5 DEF Next, vars

\* What the ledger gives up is no running task.
LEMMA LedgerReleases ==
    ASSUME ContractInv, SafeStep, \A j \in Ids : ledger'[j] \in {ledger[j], NoCall}
    PROVE  Contract!Released
  <1> SUFFICES ASSUME NEW i \in Ids, ledger'[i] # ledger[i]
               PROVE  ledger[i] # NoCall /\ Stages'[ledger[i]] # "running" /\ ledger'[i] = NoCall
    BY DEF Contract!Released
  <1>1. ledger[i] # NoCall /\ ledger'[i] = NoCall /\ handle'[ledger[i]].status # "processing"
    BY DEF SafeStep, LedgerStep
  <1>2. PICK c \in Calls : c = ledger[i]
    BY <1>1 DEF ContractInv, SafetyInv, WellFormed, TypeOK
  <1>3. Stage(c)' # "running"
    BY <1>1, <1>2 DEF Stage, StageOf
  <1>4. QED
    BY <1>1, <1>2, <1>3 DEF Stages

\* Track registers.
LEMMA TrackRegisters ==
    ASSUME ContractInv, NEW c \in Calls, NEW i \in Ids, NEW t \in Tools, Track(c, i, t)
    PROVE  Contract!Register(c, i)
  <1> USE DEF ContractInv, SafetyInv, WellFormed
  <1>1. NewHandle(t, RuntimeLimit).status = "processing"
    BY DEF NewHandle
  <1>2. /\ phase[c] = "idle" /\ ledger[i] = NoCall
        /\ phase' = [phase EXCEPT ![c] = "waiting"]
        /\ handle' = [handle EXCEPT ![c] = NewHandle(t, RuntimeLimit)]
        /\ ledger' = [ledger EXCEPT ![i] = c]
    BY DEF Track, Execute
  <1>3. Stage(c) = "absent" /\ Stage(c)' = "running"
    BY <1>1, <1>2 DEF Stage, StageOf, TypeOK
  <1>4. \A d \in Calls \ {c} : Stage(d)' = Stage(d)
    BY <1>2 DEF Stage, StageOf, TypeOK
  <1>5. Stages' = [Stages EXCEPT ![c] = "running"]
    BY <1>3, <1>4 DEF Stages
  <1>6. QED
    BY <1>2, <1>3, <1>5 DEF Contract!Register, Stages

\* A request that is refused, or conflicts, is turned away.
LEMMA RefusalTurnsAway ==
    ASSUME ContractInv, SafeStep, NEW c \in Calls, NEW i \in Ids,
           Refuse(c, i) \/ \E t \in Tools : Conflict(c, i, t)
    PROVE  Contract!TurnAway(c)
  <1> USE DEF ContractInv, SafetyInv, WellFormed
  <1>1. phase[c] = "idle" /\ \E a \in {"refused", "conflict"} : phase' = [phase EXCEPT ![c] = a]
    BY DEF Refuse, Conflict, Execute
  <1>2. \A d \in Calls \ {c} : handle'[d].status = handle[d].status
    <2>1. CASE Refuse(c, i)
      BY <2>1, CleanupEffect DEF Refuse, TypeOK
    <2>2. ASSUME NEW t \in Tools, Conflict(c, i, t)
          PROVE  \A d \in Calls \ {c} : handle'[d].status = handle[d].status
      <3> DEFINE hs == [handle EXCEPT ![c] = NewHandle(t, RuntimeLimit)]
      <3>1. NewHandle(t, RuntimeLimit) \in Handle
        BY NewHandleType, HandleAssumption, DispatcherAssumption
      <3>2. hs \in [Calls -> Handle] /\ \A d \in Calls \ {c} : hs[d] = handle[d]
        BY <3>1 DEF TypeOK
      <3>3. CheckImmediateCleanup(hs, i)
        BY <2>2 DEF Conflict
      <3> HIDE DEF hs
      <3>4. QED
        BY <3>2, <3>3, CleanupEffect
    <2>3. QED
      BY <2>1, <2>2
  <1>3. Stage(c) = "absent" /\ Stage(c)' = "turnedAway"
    BY <1>1 DEF Stage, TypeOK
  <1>4. \A d \in Calls \ {c} : Stage(d)' = Stage(d)
    BY <1>1, <1>2 DEF Stage, StageOf, TypeOK
  <1>5. Stages' = [Stages EXCEPT ![c] = "turnedAway"]
    BY <1>3, <1>4 DEF Stages
  <1>6. \A j \in Ids : ledger'[j] \in {ledger[j], NoCall}
    BY DEF Refuse, Conflict, CheckImmediateCleanup, CleanedLedger, TypeOK
  <1>7. QED
    BY <1>3, <1>5, <1>6, LedgerReleases DEF Contract!TurnAway, Stages

\* Everything else makes progress, or leaves all tasks where they are.
LEMMA OthersProgress ==
    ASSUME ContractInv, SafeStep, StatusStep, [Next]_vars,
           ~ \E c \in Calls : Incoming(c)
    PROVE  Contract!Progress
  <1> USE DEF ContractInv, SafetyInv, WellFormed
  <1>1. Contract!Released
    BY OnlyTrackEnters, LedgerReleases DEF Incoming
  <1>2. ASSUME NEW d \in Calls
        PROVE  Stage(d)' = Stage(d) \/ <<Stage(d), Stage(d)'>> \in Contract!Moves
    <2>1. CASE phase[d] = "idle"
      <3>1. ASSUME NEW c \in Calls, Settle(c) \/ Deadline(c)
            PROVE  c # d => phase'[d] = phase[d]
        BY <3>1 DEF Settle, SettleValue, SettleError, SettleStream, Late, Answer,
           Deadline, SoftDeadline, HardDeadline, GraceExpired, TypeOK
      <3>2. ~ (Settle(d) \/ Deadline(d))
        BY <2>1 DEF Settle, SettleValue, SettleError, SettleStream,
           Deadline, SoftDeadline, HardDeadline, GraceExpired, Quiet
      <3>3. phase'[d] = phase[d]
        BY <3>1, <3>2 DEF Next, RuntimeExpired, Streaming, StartSending, StreamEnd, ResponseClosed,
           PollGet, PollCancel, Sweep, Stop, Tick, vars
      <3>4. QED
        BY <2>1, <3>3 DEF Stage
    <2>2. CASE phase[d] \in {"conflict", "refused"}
      <3>1. phase'[d] \in {"conflict", "refused"}
        BY <2>2 DEF SafeStep, CallStep, Accepted
      <3>2. QED
        BY <2>2, <3>1 DEF Stage
    <2>3. CASE Accepted(d)
      <3>1. Accepted(d)'
        BY <2>3, AcceptedForGood
      <3>2. Stage(d) = StageOf(handle[d].status) /\ Stage(d)' = StageOf(handle'[d].status)
        BY <2>3, <3>1 DEF Stage, Accepted
      <3>3. handle[d].status \in Statuses /\ Silent(handle[d])
        BY DEF TypeOK, Handle, ErrorSilent
      <3>4. handle'[d] \in Handle
        BY NextWellFormed DEF TypeOK
      <3>5. \/ handle'[d].status = handle[d].status
            \/ handle[d].status = "processing" /\ handle'[d].status \in {"completed", "error", "aborted"}
            \/ handle[d].status = "completed" /\ handle'[d].status = "aborted"
        <4>1. Left(d) \/ Stopped(d) \/ Ended(d)
          BY <2>3 DEF StatusStep, Made, Accepted
        <4>2. CASE Left(d)
          BY <4>2 DEF Left
        <4>3. CASE Stopped(d)
          BY <3>3, <4>3 DEF Stopped, Live, Silent, Statuses
        <4>4. CASE Ended(d)
          BY <3>3, <3>4, <4>4 DEF Ended, Ends, Statuses, Handle
        <4>5. QED
          BY <4>1, <4>2, <4>3, <4>4
      <3>6. QED
        BY <3>2, <3>5 DEF StageOf, Contract!Moves
    <2>4. QED
      BY <2>1, <2>2, <2>3 DEF Accepted
  <1>3. \A d \in Calls : Stages[d] = Stage(d) /\ Stages'[d] = Stage(d)'
    BY DEF Stages
  <1>4. QED
    BY <1>1, <1>2, <1>3 DEF Contract!Progress

LEMMA StepsImplement ==
    ASSUME ContractInv, [Next]_vars
    PROVE  [Contract!Next]_(Contract!cvars)
  <1>1. SafeStep /\ StatusStep
    BY NextSafe, NextStatus DEF ContractInv
  <1>2. ASSUME NEW c \in Calls, NEW i \in Ids, NEW t \in Tools, Track(c, i, t)
        PROVE  Contract!Next
    BY <1>2, TrackRegisters DEF Contract!Next
  <1>3. ASSUME NEW c \in Calls, NEW i \in Ids, Refuse(c, i) \/ \E t \in Tools : Conflict(c, i, t)
        PROVE  Contract!Next
    BY <1>1, <1>3, RefusalTurnsAway DEF Contract!Next
  <1>4. CASE ~ \E c \in Calls : Incoming(c)
    BY <1>1, <1>4, OthersProgress DEF Contract!Next
  <1>5. QED
    BY <1>2, <1>3, <1>4 DEF Incoming

(***************************************************************************)
(* ImplementsContract: where the id of a task that has left the ledger is  *)
(* not reused, the dispatcher implements TaskContract, for any numbers of  *)
(* calls and ids and any tools: initial states map to initial states, and  *)
(* every step to a step of the contract or to none.                        *)
(***************************************************************************)
THEOREM DispatcherImplementsContract ==
    ASSUME ReleasedIdsReused = FALSE
    PROVE  Spec => ImplementsContract
  <1>1. Init => Contract!Init
    BY DEF Init, Contract!Init, Stages, Stage
  <1>2. ContractInv /\ [Next]_vars => [Contract!Next]_(Contract!cvars)
    BY StepsImplement
  <1>3. Init => ContractInv
    BY InitContractInv
  <1>4. ContractInv /\ [Next]_vars => ContractInv'
    BY NextContractInv
  <1>5. QED
    BY <1>1, <1>2, <1>3, <1>4, PTL DEF Spec, ImplementsContract, Contract!Spec
-----------------------------------------------------------------------------
(***************************************************************************)
(* Retention.  An entry leaves the ledger when its handle's retention is   *)
(* over, when its task ran and is aborted, or when the tracker stops.      *)
(***************************************************************************)
RetainStep ==
    \A i \in Ids : LET c == ledger[i] IN
        c # NoCall /\ handle[c].status # "processing" /\ ledger'[i] # c
          => ShouldCleanup(handle'[c], tool[c]) \/ ~sweeping'

\* checkImmediateCleanup removes an entry only when its retention is over.
LEMMA CleanupRetains ==
    ASSUME TypeOK, NEW hs \in [Calls -> Handle], NEW i \in Ids, CheckImmediateCleanup(hs, i)
    PROVE  RetainStep
  <1> SUFFICES ASSUME NEW j \in Ids, ledger[j] # NoCall, ledger'[j] # ledger[j]
               PROVE  ShouldCleanup(handle'[ledger[j]], tool[ledger[j]])
    BY DEF RetainStep
  <1>1. j = i /\ ledger[i] \in Calls /\ ShouldCleanup(hs[ledger[i]], tool[ledger[i]])
    BY DEF CheckImmediateCleanup, CleanedLedger, TypeOK
  <1>2. handle'[ledger[i]] = Touch(hs[ledger[i]])
    BY <1>1 DEF CheckImmediateCleanup, CleanedHandles
  <1>3. \A h \in Handle : \A t : ShouldCleanup(h, t) => ShouldCleanup(Touch(h), t)
    BY DEF Handle, Touch, ShouldCleanup
  <1>4. QED
    BY <1>1, <1>2, <1>3

LEMMA NextRetains ==
    ASSUME SafetyInv, Next
    PROVE  RetainStep
  <1> USE DEF SafetyInv, WellFormed
  <1>0. TypeOK
    OBVIOUS
  <1>1. CASE UNCHANGED ledger
    BY <1>1 DEF RetainStep
  <1>2. ASSUME NEW c \in Calls, Incoming(c)
        PROVE  RetainStep
    <2>1. ASSUME NEW i \in Ids, Refuse(c, i)
          PROVE  RetainStep
      BY <1>0, <2>1, CleanupRetains DEF Refuse, TypeOK
    <2>2. ASSUME NEW i \in Ids, NEW t \in Tools, Track(c, i, t)
          PROVE  RetainStep
      BY <1>0, <2>2 DEF Track, RetainStep, TypeOK
    <2>3. ASSUME NEW i \in Ids, NEW t \in Tools, Conflict(c, i, t)
          PROVE  RetainStep
      <3> DEFINE hs == [handle EXCEPT ![c] = NewHandle(t, RuntimeLimit)]
      <3>1. NewHandle(t, RuntimeLimit) \in Handle
        BY NewHandleType, HandleAssumption, DispatcherAssumption
      <3>2. hs \in [Calls -> Handle] /\ CheckImmediateCleanup(hs, i)
        BY <1>0, <2>3, <3>1 DEF Conflict, TypeOK
      <3> HIDE DEF hs
      <3>3. QED
        BY <1>0, <3>2, CleanupRetains
    <2>4. QED
      BY <1>2, <2>1, <2>2, <2>3 DEF Incoming
  <1>3. ASSUME NEW c \in Calls, Settle(c)
        PROVE  RetainStep
    <2>1. PICK hs \in [Calls -> Handle], a \in Answers \ {"conflict", "refused"} : Settled(c, hs, a)
      BY <1>3, SettleOutcome DEF SettledSomehow
    <2>2. CASE Late(c, hs)
      BY <1>1, <2>2 DEF Late
    <2>3. CASE phase[c] = "waiting" /\ Answer(c, a, hs)
      BY <1>0, <2>3, CleanupRetains DEF Answer, Addressed
    <2>4. QED
      BY <2>1, <2>2, <2>3 DEF Settled
  <1>4. ASSUME NEW c \in Calls, SoftDeadline(c) \/ GraceExpired(c)
        PROVE  RetainStep
    <2>1. phase[c] = "waiting" /\ handle \in [Calls -> Handle]
      BY <1>0, <1>4, GuardsWait DEF SoftDeadline, GraceExpired, TypeOK
    <2>2. QED
      BY <1>0, <1>4, <2>1, CleanupRetains DEF SoftDeadline, GraceExpired, Answer, Addressed
  <1>5. ASSUME NEW c \in Calls, StreamEnd(c), ledger' # ledger
        PROVE  RetainStep
    <2>1. /\ target[c] # NoCall
          /\ ledger' = [ledger EXCEPT ![reqId[c]] = NoCall]
          /\ handle' = [handle EXCEPT ![target[c]] = StreamClosed(@)]
          /\ ShouldCleanup([handle EXCEPT ![target[c]] = StreamClosed(@)][target[c]], tool[target[c]])
      BY <1>5 DEF StreamEnd
    <2>2. target[c] = c /\ phase[c] # "idle" /\ Accepted(c)
      BY <1>5, <2>1 DEF StreamEnd, StreamsStayHome, StreamsAnswered
    <2>3. reqId[c] \in Ids /\ ledger[reqId[c]] \in {c, NoCall}
      BY <1>0, <2>2, DispatcherAssumption DEF Addressed, LedgerSound, UniqueIds, TypeOK
    <2>4. QED
      BY <1>0, <2>1, <2>2, <2>3 DEF RetainStep, TypeOK
  <1>6. CASE Sweep
    <2> DEFINE held    == {c \in Calls : Holds(c)}
               due     == {c \in held : Due(c)}
               expired == {c \in held \ due : HeartbeatExpired(handle[c])}
    <2>1. /\ handle' = AbortedHandles(expired)
          /\ ledger' = [i \in Ids |-> IF ledger[i] \in due \cup expired THEN NoCall ELSE ledger[i]]
      BY <1>6 DEF Sweep, Abort
    <2>2. \A c \in expired : handle[c].status = "processing"
      BY DEF HeartbeatExpired
    <2>3. \A c \in due : c \in Calls /\ c \notin expired /\ ShouldCleanup(handle[c], tool[c])
      BY DEF Due
    <2>4. \A c \in due : handle'[c] = handle[c]
      BY <2>1, <2>3 DEF AbortedHandles, Fired, Hit
    <2> HIDE DEF due, expired
    <2>5. QED
      BY <2>1, <2>2, <2>3, <2>4 DEF RetainStep
  <1>7. CASE Stop
    BY <1>7 DEF Stop, RetainStep
  <1>8. QED
    BY <1>1, <1>2, <1>3, <1>4, <1>5, <1>6, <1>7
    DEF Next, Deadline, HardDeadline, RuntimeExpired, Streaming, StartSending, ResponseClosed,
        PollGet, PollCancel, Tick

\* ResultsKept: a finished task whose retention is not over stays in the
\* ledger until the tracker stops, where released ids are not reused.
THEOREM ResultsAreKept ==
    ASSUME ReleasedIdsReused = FALSE
    PROVE  Spec => ResultsKept
  <1>1. SafetyInv /\ [Next]_vars => [RetainStep]_vars
    BY NextRetains
  <1>2. QED
    BY <1>1, SafetyInvariant, PTL DEF Spec, ResultsKept, RetainStep
=============================================================================
