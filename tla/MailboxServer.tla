--------------------------- MODULE MailboxServer ---------------------------
(***************************************************************************)
(* A MailboxServerTransport (mailbox-server.ts) with the request pipeline  *)
(* of its base class (server.ts): messages are pushed to a subscription,   *)
(* read from the backlog by start(), or fetched by a pull loop, and are    *)
(* acknowledged once the pipeline has answered them.                       *)
(*                                                                         *)
(* An activation is one running async function of the transport: a stop(), *)
(* a start() that becomes its drainBacklog(), a pull loop, or an           *)
(* onReceive() for a pushed message.  Its pc names the await it is in.     *)
(* The mailbox is external: a message fetched with manualAck is held until *)
(* it is acknowledged, and comes back when whoever held it has given up;   *)
(* some mailboxes give it to another fetch even before that (Hides).       *)
(***************************************************************************)
EXTENDS Naturals, FiniteSets

CONSTANTS
    Configurations, \* how a transport may be constructed
    Activations,
    Subscriptions, NoSubscription,
    Messages, NoMessage,
    Broken,     \* messages that name no tool or no request id
    Calls,      \* how start() and stop() are called (MayCall, MayStart)
    Hides,      \* does the mailbox hide a held message from other fetches?
    MaxFaults   \* bound on crashes and on calls of the mailbox that fail

ASSUME MailboxAssumption ==
    /\ Configurations \subseteq [mode: {"push", "pull"}, internal: BOOLEAN,
                                policy: BOOLEAN, timeless: SUBSET Messages]
    /\ IsFiniteSet(Activations)
    /\ NoSubscription \notin Subscriptions
    /\ NoMessage \notin Messages
    /\ Broken \subseteq Messages
    /\ Calls \in {"alone", "in turn", "freely"}
    /\ Hides \in BOOLEAN
    /\ MaxFaults \in Nat

VARIABLES
    config,        \* mode, isInternalMailbox, is a policy installed, and the
                   \* messages whose calls have no deadline
    running,       \* isRunning
    subscription,  \* subscription
    pc,            \* of an activation: the await it is in
    role,          \* of an activation: what it is
    leaving,       \* the subscription a stop() is ending
    held,          \* the message an activation handles
    live,          \* subscriptions the mailbox pushes to
    up,            \* is the mailbox started?
    box,           \* where a message is
    answered,      \* messages to which an answer was posted
    handled,       \* how often a message was given to onReceive
    refused,       \* subscriptions that would not end and still push
    faults         \* how many faults there have been

transport == <<running, subscription>>
activation == <<pc, role, leaving, held>>
mailbox == <<live, up, box>>
history == <<answered, handled, refused, faults>>
vars == <<config, transport, activation, mailbox, history>>

Pipeline == {"identifying", "dispatching", "replying", "reporting"}

\* Every variable has its type, an activation has a role while it runs, and
\* it holds a message exactly while it handles one (onReceive and ack).
TypeOK ==
    /\ config \in Configurations
    /\ running \in BOOLEAN
    /\ subscription \in Subscriptions \cup {NoSubscription}
    /\ pc \in [Activations -> Pipeline \cup {"idle", "unsubscribing", "closing",
                                "stopped", "booting", "fetching", "acking", "sleeping"}]
    /\ role \in [Activations -> {"none", "stop", "start", "drain", "pull", "push"}]
    /\ leaving \in [Activations -> Subscriptions \cup {NoSubscription}]
    /\ held \in [Activations -> Messages \cup {NoMessage}]
    /\ live \subseteq Subscriptions
    /\ up \in BOOLEAN
    /\ box \in [Messages -> {"unsent", "queued", "held", "pushed", "acked"}]
    /\ answered \subseteq Messages
    /\ handled \in [Messages -> Nat]
    /\ refused \subseteq live
    /\ faults \in 0..MaxFaults
    /\ \A f \in Activations :
        /\ role[f] = "none" <=> pc[f] = "idle"
        /\ held[f] # NoMessage <=> pc[f] \in Pipeline \cup {"acking"}

Init ==
    /\ config \in Configurations
    /\ running = FALSE
    /\ subscription = NoSubscription
    /\ pc = [f \in Activations |-> "idle"]
    /\ role = [f \in Activations |-> "none"]
    /\ leaving = [f \in Activations |-> NoSubscription]
    /\ held = [f \in Activations |-> NoMessage]
    /\ live = {}
    /\ up = ~config.internal
    /\ box = [m \in Messages |-> "unsent"]
    /\ answered = {}
    /\ handled = [m \in Messages |-> 0]
    /\ refused = {}
    /\ faults = 0

Idle(f) == pc[f] = "idle"

\* n new activations; which of the idle ones they are is immaterial.
CanBegin(n) == Cardinality({f \in Activations : Idle(f)}) >= n
Fresh(n) == CHOOSE F \in SUBSET {f \in Activations : Idle(f)} : Cardinality(F) = n
-----------------------------------------------------------------------------
(***************************************************************************)
(* start() and stop().  stop() awaits only what there is to undo: the end  *)
(* of the subscription, then that of a mailbox of its own.  A start() of a *)
(* running transport awaits a stop() first.                                *)
(***************************************************************************)
\* Unless they are called freely, nothing overlaps a start() or a stop() that
\* waits, except where it owns nothing ...
MayCall ==
    \/ Calls = "freely"
    \/ (config.mode = "pull" /\ ~config.internal)
    \/ \A f \in Activations : role[f] \notin {"start", "stop"}

\* ... and alone, a start() also waits for the loops before it to end.
MayStart ==
    /\ MayCall
    /\ Calls = "alone" =>
        \A f \in Activations : role[f] \notin {"start", "stop", "drain", "pull"}

\* The await that follows, once undoing has come as far as p.
Onward(kind, p) ==
    IF p # "undone" THEN p ELSE IF kind = "start" THEN "stopped" ELSE "idle"

\* What stop() awaits first.
ToUndo ==
    IF subscription # NoSubscription THEN "unsubscribing"
    ELSE IF config.internal THEN "closing" ELSE "undone"

At(f, kind, p) ==
    /\ pc' = [pc EXCEPT ![f] = p]
    /\ role' = [role EXCEPT ![f] = IF p = "idle" THEN "none" ELSE kind]

Stop(f) ==
    /\ MayCall /\ CanBegin(1) /\ f \in Fresh(1)
    /\ running' = FALSE
    /\ leaving' = [leaving EXCEPT ![f] = subscription]
    /\ At(f, "stop", Onward("stop", ToUndo))
    /\ UNCHANGED <<config, subscription, held, mailbox, history>>

StartStopped(f) ==
    /\ MayStart /\ CanBegin(1) /\ f \in Fresh(1) /\ ~running
    /\ running' = TRUE
    /\ At(f, "start", "booting")
    /\ UNCHANGED <<config, subscription, leaving, held, mailbox, history>>

\* Variant: a start() of a running transport goes straight on.
StartTwice(f) ==
    /\ MayStart /\ CanBegin(1) /\ f \in Fresh(1) /\ running
    /\ At(f, "start", "booting")
    /\ UNCHANGED <<config, transport, leaving, held, mailbox, history>>

\* A start() of a running transport stops it first.
StartRunning(f) ==
    /\ MayStart /\ CanBegin(1) /\ f \in Fresh(1) /\ running
    /\ running' = FALSE
    /\ leaving' = [leaving EXCEPT ![f] = subscription]
    /\ At(f, "start", Onward("start", ToUndo))
    /\ UNCHANGED <<config, subscription, held, mailbox, history>>

\* The subscription has ended; whatever the field holds by now is forgotten.
Unsubscribed(f) ==
    /\ pc[f] = "unsubscribing"
    /\ live' = live \ {leaving[f]}
    /\ refused' = refused \ {leaving[f]}
    /\ leaving' = [leaving EXCEPT ![f] = NoSubscription]
    /\ subscription' = NoSubscription
    /\ At(f, role[f], Onward(role[f], IF config.internal THEN "closing" ELSE "undone"))
    /\ UNCHANGED <<config, running, held, up, box, answered, handled, faults>>

Closed(f) ==
    /\ pc[f] = "closing"
    /\ up' = FALSE
    /\ At(f, role[f], Onward(role[f], "undone"))
    /\ UNCHANGED <<config, transport, leaving, held, live, box, history>>

\* The stop() in a start() has returned.
Restarted(f) ==
    /\ pc[f] = "stopped"
    /\ running' = TRUE
    /\ At(f, "start", "booting")
    /\ UNCHANGED <<config, subscription, leaving, held, mailbox, history>>

\* Variant: the flag is not asked again.
NextRoundAlways == "fetching"

\* Both loops ask isRunning before each fetch, the first included.
NextRound == IF running THEN "fetching" ELSE "idle"

Booted(f) ==
    /\ pc[f] = "booting"
    /\ up' = TRUE
    /\ IF config.mode = "push"
       THEN LET Unused == Subscriptions \ (live \cup {subscription}) IN
            /\ Unused # {}
            /\ subscription' = CHOOSE k \in Unused : TRUE
            /\ live' = live \cup {subscription'}
       ELSE UNCHANGED <<subscription, live>>
    /\ At(f, IF config.mode = "push" THEN "drain" ELSE "pull", NextRound)
    /\ UNCHANGED <<config, running, leaving, held, box, history>>
-----------------------------------------------------------------------------
(***************************************************************************)
(* Receiving.  processIncomingCall addresses the message, has the policy   *)
(* judge it, validates, dispatches and posts the answer; what fails goes   *)
(* to sendPipelineError, which posts the error.                            *)
(***************************************************************************)
\* Where handling first waits; validation may refuse at once.
First(m) ==
    IF m \in Broken THEN {"reporting"}
    ELSE IF config.policy THEN {"identifying"} ELSE {"dispatching", "reporting"}

\* The mailbox hands m over: to the subscriptions S, or it keeps it.
Post(m) ==
    /\ box[m] = "unsent"
    /\ \E S \in SUBSET live :
        /\ {k \in live : \A f \in Activations : leaving[f] # k} \subseteq S
        /\ up \/ S = {}
        /\ IF S = {}
           THEN /\ box' = [box EXCEPT ![m] = "queued"]
                /\ UNCHANGED <<activation, handled>>
           ELSE LET F == Fresh(Cardinality(S)) IN \E p \in First(m) :
                /\ CanBegin(Cardinality(S))
                /\ box' = [box EXCEPT ![m] = "pushed"]
                /\ pc' = [f \in Activations |-> IF f \in F THEN p ELSE pc[f]]
                /\ role' = [f \in Activations |-> IF f \in F THEN "push" ELSE role[f]]
                /\ held' = [f \in Activations |-> IF f \in F THEN m ELSE held[f]]
                /\ handled' = [handled EXCEPT ![m] = @ + Cardinality(S)]
                /\ UNCHANGED leaving
    /\ UNCHANGED <<config, transport, live, up, answered, refused, faults>>

Available(m) == up /\ (box[m] = "queued" \/ (~Hides /\ box[m] = "held"))

Fetched(f) ==
    /\ pc[f] = "fetching"
    /\ \E m \in Messages : \E p \in First(m) :
        /\ Available(m)
        /\ box' = [box EXCEPT ![m] = "held"]
        /\ held' = [held EXCEPT ![f] = m]
        /\ handled' = [handled EXCEPT ![m] = @ + 1]
        /\ pc' = [pc EXCEPT ![f] = p]
    /\ UNCHANGED <<config, transport, role, leaving, live, up, answered, refused, faults>>

FetchedNothing(f) ==
    /\ pc[f] = "fetching"
    /\ \A m \in Messages : ~Available(m)
    /\ At(f, role[f], IF role[f] = "pull" THEN "sleeping" ELSE "idle")
    /\ UNCHANGED <<config, transport, leaving, held, mailbox, history>>

Wake(f) ==
    /\ pc[f] = "sleeping"
    /\ At(f, role[f], NextRound)
    /\ UNCHANGED <<config, transport, leaving, held, mailbox, history>>

Step(f, from, to) ==
    /\ pc[f] = from
    /\ pc' = [pc EXCEPT ![f] = to]
    /\ UNCHANGED <<config, transport, role, leaving, held, mailbox, history>>

\* The policy knows the caller or makes a new identity, or it throws; so may
\* validation, which follows without an await.
Identify(f) == \E p \in {"dispatching", "reporting"} : Step(f, "identifying", p)

\* dispatch() has answered, a stream being answered by an error; nothing says
\* that it does if the call has no deadline (Timely).
Dispatched(f) == Step(f, "dispatching", "replying")

\* What follows onReceive(): a fetched message is acknowledged.
Handled(f) ==
    IF role[f] = "push"
    THEN At(f, "push", "idle") /\ held' = [held EXCEPT ![f] = NoMessage]
    ELSE At(f, role[f], "acking") /\ UNCHANGED held

\* Variant: an error ends the pull loop.
GivesUpForGood(f) ==
    /\ At(f, role[f], "idle")
    /\ held' = [held EXCEPT ![f] = NoMessage]

\* Variant: the message stays with the activation.
GivesUpHolding(f) ==
    /\ At(f, role[f], IF role[f] = "pull" THEN "sleeping" ELSE "idle")
    /\ UNCHANGED held

\* What follows an error: the pull loop tries again, start() rejects, and
\* the mailbox learns that its subscriber failed.
GivesUp(f) ==
    /\ At(f, role[f], IF role[f] = "pull" THEN "sleeping" ELSE "idle")
    /\ held' = [held EXCEPT ![f] = NoMessage]

Sent(f) ==
    /\ pc[f] \in {"replying", "reporting"}
    /\ answered' = answered \cup {held[f]}
    /\ Handled(f)
    /\ UNCHANGED <<config, transport, leaving, mailbox, handled, refused, faults>>

\* Variant: an error that cannot be reported is dropped.
ReportDropped(f) ==
    /\ pc[f] = "reporting"
    /\ faults < MaxFaults
    /\ faults' = faults + 1
    /\ Handled(f)
    /\ UNCHANGED <<config, transport, leaving, mailbox, answered, handled, refused>>

Acked(f) ==
    /\ pc[f] = "acking"
    /\ box' = [box EXCEPT ![held[f]] = "acked"]
    /\ held' = [held EXCEPT ![f] = NoMessage]
    /\ At(f, role[f], NextRound)
    /\ UNCHANGED <<config, transport, leaving, live, up, history>>
-----------------------------------------------------------------------------
(***************************************************************************)
(* Faults, at most MaxFaults of them.                                      *)
(***************************************************************************)
Fault == faults < MaxFaults /\ faults' = faults + 1

\* What an error in start() or stop() leaves: it rejects, and no more is done.
Rejects(f) ==
    /\ Fault
    /\ At(f, role[f], "idle")
    /\ UNCHANGED <<config, transport, held, box, answered, handled>>

\* unsubscribe() rejects: the field stays, and its own mailbox is not stopped.
UnsubscribeFails(f) ==
    /\ pc[f] = "unsubscribing"
    /\ Rejects(f)
    /\ live' \in {live, live \ {leaving[f]}}
    /\ refused' = (refused \cup {leaving[f]}) \cap live'
    /\ leaving' = [leaving EXCEPT ![f] = NoSubscription]
    /\ UNCHANGED up

\* mailbox.stop() rejects; over a running transport, start() does with it.
CloseFails(f) ==
    /\ pc[f] = "closing"
    /\ Rejects(f)
    /\ up' \in {up, FALSE}
    /\ UNCHANGED <<leaving, live, refused>>

\* mailbox.start() rejects, or subscribe() throws: isRunning remains true,
\* without a subscription or a loop of its own.
BootFails(f) ==
    /\ pc[f] = "booting"
    /\ Rejects(f)
    /\ up' \in {up, TRUE}
    /\ UNCHANGED <<leaving, live, refused>>

\* fetch() or ack() rejects, or the report of an error cannot be posted.
CallFails(f) ==
    /\ pc[f] \in {"fetching", "acking"}
    /\ Fault
    /\ GivesUp(f)
    /\ UNCHANGED <<config, transport, leaving, mailbox, answered, handled, refused>>

ReportFails(f) ==
    /\ pc[f] = "reporting"
    /\ Fault
    /\ GivesUp(f)
    /\ UNCHANGED <<config, transport, leaving, mailbox, answered, handled, refused>>

\* The answer cannot be posted: an error is, in its place.
ReplyFails(f) ==
    /\ pc[f] = "replying"
    /\ Fault
    /\ pc' = [pc EXCEPT ![f] = "reporting"]
    /\ UNCHANGED <<config, transport, role, leaving, held, mailbox, answered, handled, refused>>

\* The process dies.  A mailbox of its own would die with it.
Crash ==
    /\ ~config.internal
    /\ Fault
    /\ running' = FALSE
    /\ subscription' = NoSubscription
    /\ pc' = [f \in Activations |-> "idle"]
    /\ role' = [f \in Activations |-> "none"]
    /\ leaving' = [f \in Activations |-> NoSubscription]
    /\ held' = [f \in Activations |-> NoMessage]
    /\ live' = {}
    /\ refused' = {}
    /\ UNCHANGED <<config, up, box, answered, handled>>

\* A message nobody holds any more is delivered again.
Redeliver(m) ==
    /\ box[m] = "held"
    /\ \A f \in Activations : held[f] # m
    /\ box' = [box EXCEPT ![m] = "queued"]
    /\ UNCHANGED <<config, transport, activation, live, up, history>>
-----------------------------------------------------------------------------
\* The steps of an activation that come by themselves.
Advance(f) ==
    \/ Unsubscribed(f) \/ Closed(f) \/ Restarted(f) \/ Booted(f)
    \/ UnsubscribeFails(f) \/ CloseFails(f) \/ BootFails(f)
    \/ Fetched(f) \/ FetchedNothing(f) \/ Wake(f)
    \/ Identify(f) \/ Dispatched(f)
    \/ Sent(f) \/ Acked(f)
    \/ CallFails(f) \/ ReportFails(f) \/ ReplyFails(f)

Next ==
    \/ \E f \in Activations :
        Stop(f) \/ StartStopped(f) \/ StartRunning(f) \/ Advance(f)
    \/ \E m \in Messages : Post(m) \/ Redeliver(m)
    \/ Crash

\* It awaits a call without a deadline (dispatcher.ts:208, 292-298).
Stuck(f) == pc[f] = "dispatching" /\ held[f] \in config.timeless

Timely(f) == ~Stuck(f) /\ Advance(f)

\* Every await ends but that of a call without a deadline, and the mailbox
\* gives back what was left.
Fairness ==
    /\ \A f \in Activations : WF_vars(Timely(f))
    /\ \A m \in Messages : WF_vars(Redeliver(m))

Spec == Init /\ [][Next]_vars
FairSpec == Spec /\ Fairness
-----------------------------------------------------------------------------
(***************************************************************************)
(* Properties                                                              *)
(***************************************************************************)
\* A message leaves the mailbox only after an answer to it, be it an error,
\* was posted: one whose answer could not be posted, or that was in the
\* hands of a process that died, is still there.
AckedIsAnswered == \A m \in Messages : box[m] = "acked" => m \in answered

\* Each time a message is handled again, something had failed: restarts,
\* second pull loops that outlive them, and a start() that subscribes before
\* it reads the backlog never have a message handled twice.  This is so where
\* the mailbox hides a message that is held, or a server is started again
\* only once its loops have ended; else two loops may both handle it.
OnceUnlessFault == \A m \in Messages : handled[m] <= 1 + faults

Loop(f) == role[f] \in {"drain", "pull"}

\* A start() over its mailbox succeeded, and nothing has ended it since.
Serving ==
    /\ running /\ up
    /\ IF config.mode = "push" THEN subscription \in live
       ELSE \E f \in Activations : role[f] = "pull"

\* A call without a deadline keeps m, or every loop that could fetch it.
HeldUp(m) ==
    \/ \E f \in Activations : Stuck(f) /\ held[f] = m
    \/ /\ box[m] = "queued"
       /\ \E f \in Activations : Loop(f)
       /\ \A f \in Activations : Loop(f) => Stuck(f)

\* A server that serves answers every message that is in its mailbox, unless
\* a call without a deadline keeps it from it for ever.  In push mode a fault
\* may lose the message, or leave the backlog to the next start.
Served ==
    \A m \in Messages :
        (box[m] \in {"queued", "held", "pushed"} /\ Serving)
            ~> (\/ m \in answered \/ ~running
                \/ config.mode = "push" /\ faults > 0
                \/ []HeldUp(m))

\* Once a server is stopped for good, every loop and every call of it that
\* has a deadline comes to an end, and the mailbox pushes it nothing more, but
\* through a subscription whose unsubscribe() rejected.
Quiesces ==
    <>[](~running) =>
        /\ <>[](live \subseteq refused)
        /\ \A f \in Activations : []<>Idle(f) \/ <>[]Stuck(f)
=============================================================================
