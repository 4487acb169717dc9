---------------------------- MODULE TaskContract ----------------------------
(***************************************************************************)
(* What the dispatcher promises of tasks and request ids, without timers,  *)
(* streams, retention or answers: an id belongs to one task at a time, a   *)
(* running task keeps its id, a task that has ended never runs again, and  *)
(* a request turned away never takes an id.                                *)
(***************************************************************************)
CONSTANTS Calls, Ids, NoCall

VARIABLES
    owner,  \* the task an id stands for
    stage   \* where each request's task is

cvars == <<owner, stage>>

Init ==
    /\ owner = [i \in Ids |-> NoCall]
    /\ stage = [c \in Calls |-> "absent"]

\* Ids may be given up, but not those of tasks that (still) run.
Released ==
    \A i \in Ids : \/ owner'[i] = owner[i]
                   \/ owner[i] # NoCall /\ stage'[owner[i]] # "running" /\ owner'[i] = NoCall

Register(c, i) ==
    /\ stage[c] = "absent"
    /\ owner[i] = NoCall
    /\ stage' = [stage EXCEPT ![c] = "running"]
    /\ owner' = [owner EXCEPT ![i] = c]

TurnAway(c) ==
    /\ stage[c] = "absent"
    /\ stage' = [stage EXCEPT ![c] = "turnedAway"]
    /\ Released

\* Tasks finish, fail or are aborted; a finished one whose stream still
\* flows can be aborted as well.
Moves == {<<"running", "finished">>, <<"running", "failed">>,
          <<"running", "aborted">>, <<"finished", "aborted">>}

Progress ==
    /\ \A c \in Calls : stage'[c] = stage[c] \/ <<stage[c], stage'[c]>> \in Moves
    /\ Released

Next ==
    \/ \E c \in Calls : TurnAway(c) \/ \E i \in Ids : Register(c, i)
    \/ Progress

Spec == Init /\ [][Next]_cvars
=============================================================================
