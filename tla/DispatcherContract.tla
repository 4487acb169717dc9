------------------------- MODULE DispatcherContract -------------------------
(***************************************************************************)
(* Dispatcher as an implementation of TaskContract: the owner of an id is  *)
(* the call the ledger leads to, and the stage of a task is read off the   *)
(* call's answer and its handle's status.                                  *)
(***************************************************************************)
EXTENDS Dispatcher

StageOf(status) ==
    CASE status = "processing" -> "running"
      [] status = "completed" -> "finished"
      [] status = "error" -> "failed"
      [] OTHER -> "aborted"

Stage(c) ==
    CASE phase[c] = "idle" -> "absent"
      [] phase[c] \in {"conflict", "refused"} -> "turnedAway"
      [] OTHER -> StageOf(handle[c].status)

Stages == [c \in Calls |-> Stage(c)]

Contract == INSTANCE TaskContract WITH owner <- ledger, stage <- Stages

(***************************************************************************)
(* Whatever timers, clients, streams and the sweep do, an id belongs to    *)
(* one task at a time, a running task keeps its id, a task that has ended  *)
(* never runs again, and a request turned away never takes an id.          *)
(***************************************************************************)
ImplementsContract == Contract!Spec
=============================================================================
