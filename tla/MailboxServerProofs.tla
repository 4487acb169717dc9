-------------------------- MODULE MailboxServerProofs --------------------------
(***************************************************************************)
(* The mailbox server's safety, for any sets of messages, activations and  *)
(* subscriptions and any number of faults.                                 *)
(***************************************************************************)
EXTENDS MailboxServer, FiniteSetTheorems, TLAPS

-----------------------------------------------------------------------------
(***************************************************************************)
(* Acknowledgements.  They need no assumption about who calls start() and  *)
(* stop() when, or about what the mailbox hides.                           *)
(***************************************************************************)
\* What an activation acknowledges, it has answered.
AckFollowsAnswer ==
    /\ DOMAIN pc = Activations /\ DOMAIN held = Activations
    /\ DOMAIN box = Messages
    /\ \A f \in Activations : pc[f] = "acking" => held[f] \in answered
    /\ AckedIsAnswered

LEMMA HandledKeepsAck ==
    ASSUME AckFollowsAnswer, NEW f \in Activations, Handled(f), UNCHANGED box,
           answered \subseteq answered', role[f] # "push" => held[f] \in answered'
    PROVE  AckFollowsAnswer'
  BY DEF AckFollowsAnswer, AckedIsAnswered, Handled, At

LEMMA GivesUpKeepsAck ==
    ASSUME AckFollowsAnswer, NEW f \in Activations, GivesUp(f), UNCHANGED <<box, answered>>
    PROVE  AckFollowsAnswer'
  BY DEF AckFollowsAnswer, AckedIsAnswered, GivesUp, At

\* No step but Sent brings an activation to its acknowledgement.
LEMMA AckStep ==
    ASSUME AckFollowsAnswer, [Next]_vars
    PROVE  AckFollowsAnswer'
  <1> USE DEF AckFollowsAnswer, AckedIsAnswered, history, mailbox, transport, activation
  <1>1. ASSUME NEW f \in Activations, Stop(f) \/ StartStopped(f) \/ StartRunning(f)
        PROVE  AckFollowsAnswer'
    BY <1>1 DEF Stop, StartStopped, StartRunning, At, Onward, ToUndo
  <1>2. ASSUME NEW f \in Activations, Unsubscribed(f) \/ Closed(f) \/ Restarted(f) \/ Booted(f)
        PROVE  AckFollowsAnswer'
    BY <1>2 DEF Unsubscribed, Closed, Restarted, Booted, At, Onward, NextRound
  <1>3. ASSUME NEW f \in Activations, Fetched(f)
        PROVE  AckFollowsAnswer'
    BY <1>3 DEF Fetched, First
  <1>4. ASSUME NEW f \in Activations, FetchedNothing(f) \/ Wake(f)
        PROVE  AckFollowsAnswer'
    BY <1>4 DEF FetchedNothing, Wake, At, NextRound
  <1>5. ASSUME NEW f \in Activations, Identify(f) \/ Dispatched(f) \/ ReplyFails(f)
        PROVE  AckFollowsAnswer'
    BY <1>5 DEF Identify, Dispatched, ReplyFails, Step
  <1>6. ASSUME NEW f \in Activations, Sent(f)
        PROVE  AckFollowsAnswer'
    BY <1>6, HandledKeepsAck DEF Sent
  <1>7. ASSUME NEW f \in Activations, Acked(f)
        PROVE  AckFollowsAnswer'
    BY <1>7 DEF Acked, At, NextRound
  <1>8. ASSUME NEW f \in Activations, CallFails(f) \/ ReportFails(f)
        PROVE  AckFollowsAnswer'
    BY <1>8, GivesUpKeepsAck DEF CallFails, ReportFails
  <1>9. ASSUME NEW f \in Activations, UnsubscribeFails(f) \/ CloseFails(f) \/ BootFails(f)
        PROVE  AckFollowsAnswer'
    BY <1>9 DEF UnsubscribeFails, CloseFails, BootFails, Rejects, At
  <1>10. ASSUME NEW m \in Messages, Post(m)
        PROVE  AckFollowsAnswer'
    BY <1>10 DEF Post, First
  <1>11. ASSUME NEW m \in Messages, Redeliver(m)
         PROVE  AckFollowsAnswer'
    BY <1>11 DEF Redeliver
  <1>12. CASE Crash
    BY <1>12 DEF Crash
  <1>13. CASE UNCHANGED vars
    BY <1>13 DEF vars
  <1>14. QED
    BY <1>1, <1>2, <1>3, <1>4, <1>5, <1>6, <1>7, <1>8, <1>9, <1>10, <1>11, <1>12, <1>13
       DEF Next, Advance

\* A message leaves the mailbox only once an answer to it was posted.
THEOREM NothingIsLost == Spec => []AckedIsAnswered
  <1>1. Init => AckFollowsAnswer
    BY DEF Init, AckFollowsAnswer, AckedIsAnswered
  <1>2. AckFollowsAnswer => AckedIsAnswered
    BY DEF AckFollowsAnswer
  <1>3. QED
    BY <1>1, <1>2, AckStep, PTL DEF Spec
-----------------------------------------------------------------------------
(***************************************************************************)
(* Deliveries, where start() and stop() take turns, and either the mailbox *)
(* hides what is held or a start() comes only once no loop is left.        *)
(***************************************************************************)
Orderly == Calls = "alone" \/ (Calls = "in turn" /\ Hides)

Switching == {"start", "stop"}

\* The awaits of a start() or stop() belong to one, those of a loop and of
\* an acknowledgement never to a pushed message.
RolesFit ==
    \A f \in Activations :
        /\ pc[f] \in {"unsubscribing", "closing"} => role[f] \in Switching
        /\ pc[f] \in {"stopped", "booting"} => role[f] = "start"
        /\ pc[f] \in {"fetching", "sleeping", "acking"} => role[f] \in {"drain", "pull"}
        /\ pc[f] \in Pipeline => role[f] \in {"push", "drain", "pull"}

\* A fault is behind every subscription that would not end.
FewRefused == IsFiniteSet(refused) /\ Cardinality(refused) <= faults

\* The mailbox pushes to the subscription the transport knows of, if to any,
\* and to those that would not end.
LiveKnown == live \subseteq refused \cup ({subscription} \ {NoSubscription})

\* Starts and stops take turns, ...
OneSwitch ==
    \A f, g \in Activations :
        role[f] \in Switching /\ role[g] \in Switching => f = g

\* ... each knows what it leaves and opens, ...
Knows(f) ==
    /\ pc[f] = "unsubscribing" => leaving[f] = subscription
    /\ pc[f] \in {"closing", "stopped"} => subscription = NoSubscription
    /\ pc[f] = "booting" => running /\ subscription \notin live \ refused

\* ... and a transport that is not running pushes to nothing, or a stop() is
\* about to end it.
Accounted ==
    \/ running \/ subscription \notin live \ refused
    \/ \E f \in Activations : pc[f] = "unsubscribing"

\* One subscription, and one for each that would not end.
OneSubscription ==
    /\ LiveKnown
    /\ config.mode = "pull" => subscription = NoSubscription
    /\ config.mode = "push" => OneSwitch /\ (\A f \in Activations : Knows(f)) /\ Accounted

\* Where a start() waits for the loops before it, there is one loop at most.
OneLoop ==
    LET Beginning(f) == role[f] \in {"start", "drain", "pull"} IN
    Calls = "alone" => \A f, g \in Activations : Beginning(f) /\ Beginning(g) => f = g

\* A message with an activation is not unsent, and it was pushed exactly if
\* the activation is an onReceive() of the mailbox.
HoldersFit ==
    \A f \in Activations : held[f] # NoMessage =>
        /\ box[held[f]] # "unsent"
        /\ role[f] = "push" <=> box[held[f]] = "pushed"

\* Each delivery but the one in hand was ended by a fault.
FaultsPay ==
    \A m \in Messages :
        /\ box[m] = "unsent" => handled[m] = 0
        /\ box[m] = "queued" => handled[m] <= faults
        /\ (box[m] = "held" /\ \A f \in Activations : held[f] # m) => handled[m] <= faults
        /\ handled[m] <= 1 + faults

ServerInv == TypeOK /\ RolesFit /\ FewRefused /\ OneSubscription /\ OneLoop /\ HoldersFit /\ FaultsPay
-----------------------------------------------------------------------------
\* What the steps need of the constants.
LEMMA Constants ==
    /\ NoSubscription \notin Subscriptions /\ NoMessage \notin Messages /\ MaxFaults \in Nat
    /\ \A c \in Configurations : c.mode \in {"push", "pull"}
  BY MailboxAssumption

\* A finite set has subsets of every smaller size.
LEMMA SmallerSubset ==
    ASSUME NEW T, IsFiniteSet(T), NEW n \in Nat, Cardinality(T) >= n
    PROVE  \E F \in SUBSET T : Cardinality(F) = n
  <1>1. Cardinality(T) \in Nat /\ ExistsBijection(1..Cardinality(T), T)
    BY FS_CardinalityType
  <1>2. PICK g : g \in Bijection(1..Cardinality(T), T)
    BY <1>1 DEF ExistsBijection
  <1>3. g \in [1..Cardinality(T) -> T]
        /\ \A i, j \in 1..Cardinality(T) : g[i] = g[j] => i = j
    BY <1>2 DEF Bijection, Injection, IsInjective
  <1> DEFINE F == {g[i] : i \in 1..n}
             h == [i \in 1..n |-> g[i]]
  <1>4. 1..n \subseteq 1..Cardinality(T)
    BY <1>1
  <1>5. h \in Bijection(1..n, F)
    BY <1>3, <1>4 DEF Bijection, Injection, IsInjective, Surjection
  <1>6. IsFiniteSet(1..n) /\ Cardinality(1..n) = n
    BY FS_Interval
  <1>7. Cardinality(F) = n
    BY <1>5, <1>6, FS_Bijection DEF ExistsBijection
  <1>8. QED
    BY <1>3, <1>4, <1>7

\* New activations are idle ones.
LEMMA FreshAreIdle ==
    ASSUME NEW n \in Nat, CanBegin(n)
    PROVE  Fresh(n) \subseteq {f \in Activations : Idle(f)}
  <1> DEFINE I == {f \in Activations : Idle(f)}
  <1>1. IsFiniteSet(I)
    BY FS_Subset, MailboxAssumption
  <1>2. \E F \in SUBSET I : Cardinality(F) = n
    BY <1>1, SmallerSubset DEF CanBegin
  <1>3. QED
    BY <1>2 DEF Fresh

LEMMA FreshIsIdle ==
    ASSUME CanBegin(1)
    PROVE  Fresh(1) \subseteq {f \in Activations : Idle(f)}
  BY FreshAreIdle

\* No more than one subscription is pushed to for which no fault can answer.
LEMMA PushedToFew ==
    ASSUME ServerInv, NEW S \in SUBSET live
    PROVE  Cardinality(S) \in 0..(1 + faults)
  <1>1. IsFiniteSet(refused) /\ Cardinality(refused) <= faults /\ faults \in Nat
    <2>1. faults \in 0..MaxFaults
      BY DEF ServerInv, TypeOK
    <2>2. QED
      BY <2>1, Constants DEF ServerInv, FewRefused
  <1>2. /\ IsFiniteSet(refused \cup {subscription})
        /\ Cardinality(refused \cup {subscription}) <= 1 + faults
    <2>1. Cardinality(refused) \in Nat
      BY <1>1, FS_CardinalityType
    <2>2. Cardinality(refused \cup {subscription}) \in {Cardinality(refused),
         Cardinality(refused) + 1}
      BY <1>1, FS_AddElement
    <2>3. QED
      BY <1>1, <2>1, <2>2, FS_AddElement
  <1>3. S \subseteq refused \cup {subscription}
    BY DEF ServerInv, OneSubscription, LiveKnown
  <1>4. IsFiniteSet(S) /\ Cardinality(S) <= Cardinality(refused \cup {subscription})
    BY <1>2, <1>3, FS_Subset
  <1>5. Cardinality(S) \in Nat /\ Cardinality(refused \cup {subscription}) \in Nat
    BY <1>2, <1>4, FS_CardinalityType
  <1>6. QED
    BY <1>1, <1>2, <1>4, <1>5

\* What Post(m) does if nobody takes m, and if n activations F do.
Queued(m) ==
    /\ box' = [box EXCEPT ![m] = "queued"]
    /\ UNCHANGED <<activation, handled>>

Pushed(m, F, n, p) ==
    /\ \A f \in F : Idle(f)
    /\ p \in {"identifying", "dispatching", "reporting"}
    /\ box' = [box EXCEPT ![m] = "pushed"]
    /\ pc' = [f \in Activations |-> IF f \in F THEN p ELSE pc[f]]
    /\ role' = [f \in Activations |-> IF f \in F THEN "push" ELSE role[f]]
    /\ held' = [f \in Activations |-> IF f \in F THEN m ELSE held[f]]
    /\ handled' = [handled EXCEPT ![m] = @ + n]
    /\ UNCHANGED leaving

LEMMA Posted ==
    ASSUME ServerInv, NEW m \in Messages, Post(m)
    PROVE  /\ box[m] = "unsent"
           /\ UNCHANGED <<config, transport, live, up, answered, refused, faults>>
           /\ \/ Queued(m)
              \/ \E F \in SUBSET Activations, n \in 0..(1 + faults), p \in Pipeline : Pushed(m,
                   F, n, p)
  <1>1. box[m] = "unsent" /\ UNCHANGED <<config, transport, live, up, answered, refused, faults>>
    BY DEF Post
  <1>2. ASSUME ~Queued(m)
        PROVE  \E F \in SUBSET Activations, n \in 0..(1 + faults), p \in Pipeline : Pushed(m,
             F, n, p)
    <2>1. PICK S \in SUBSET live, p \in First(m) :
            /\ CanBegin(Cardinality(S))
            /\ box' = [box EXCEPT ![m] = "pushed"]
            /\ pc' = [f \in Activations |-> IF f \in Fresh(Cardinality(S)) THEN p ELSE pc[f]]
            /\ role' = [f \in Activations |-> IF f \in Fresh(Cardinality(S)) THEN "push" ELSE role[f]]
            /\ held' = [f \in Activations |-> IF f \in Fresh(Cardinality(S)) THEN m ELSE held[f]]
            /\ handled' = [handled EXCEPT ![m] = @ + Cardinality(S)]
            /\ UNCHANGED leaving
      BY <1>2, Zenon DEF Post, Queued
    <2> DEFINE n == Cardinality(S)
               F == Fresh(n)
    <2>2. n \in 0..(1 + faults) /\ n \in Nat
      BY PushedToFew
    <2>3. F \in SUBSET Activations /\ (\A f \in F : Idle(f))
      BY <2>1, <2>2, FreshAreIdle
    <2>4. p \in {"identifying", "dispatching", "reporting"}
      BY DEF First
    <2>5. Pushed(m, F, n, p) /\ p \in Pipeline
      BY <2>1, <2>3, <2>4 DEF Pushed, Pipeline
    <2>6. QED
      BY <2>2, <2>3, <2>5
  <1>3. QED
    BY <1>1, <1>2

\* Every step keeps the types.
LEMMA TypeStep ==
    ASSUME ServerInv, [Next]_vars
    PROVE  TypeOK'
  <1> USE Constants DEF ServerInv, TypeOK, Pipeline, transport, activation, mailbox, history
  <1>1. ASSUME NEW f \in Activations, Stop(f) \/ StartStopped(f) \/ StartRunning(f)
        PROVE  TypeOK'
    <2>1. f \in Activations /\ Idle(f)
      BY <1>1, FreshIsIdle DEF Stop, StartStopped, StartRunning
    <2>2. CASE Stop(f)
      BY <2>1, <2>2 DEF Stop, At, Onward, ToUndo, Idle
    <2>3. CASE StartStopped(f)
      BY <2>1, <2>3 DEF StartStopped, At, Idle
    <2>4. CASE StartRunning(f)
      BY <2>1, <2>4 DEF StartRunning, At, Onward, ToUndo, Idle
    <2>5. QED
      BY <1>1, <2>2, <2>3, <2>4
  <1>2. ASSUME NEW f \in Activations, Unsubscribed(f)
        PROVE  TypeOK'
    BY <1>2 DEF Unsubscribed, At, Onward
  <1>3. ASSUME NEW f \in Activations, Closed(f)
        PROVE  TypeOK'
    BY <1>3 DEF Closed, At, Onward
  <1>4. ASSUME NEW f \in Activations, Restarted(f)
        PROVE  TypeOK'
    BY <1>4 DEF Restarted, At
  <1>5. ASSUME NEW f \in Activations, Booted(f)
        PROVE  TypeOK'
    BY <1>5 DEF Booted, At, NextRound
  <1>6. ASSUME NEW f \in Activations, UnsubscribeFails(f)
        PROVE  TypeOK'
    BY <1>6 DEF UnsubscribeFails, Rejects, At, Fault
  <1>7. ASSUME NEW f \in Activations, CloseFails(f)
        PROVE  TypeOK'
    <2>1. faults' \in 0..MaxFaults
      BY <1>7 DEF CloseFails, Rejects, Fault
    <2>2. up' \in BOOLEAN
      BY <1>7, Zenon DEF CloseFails
    <2>3. pc' = [pc EXCEPT ![f] = "idle"] /\ role' = [role EXCEPT ![f] = "none"] /\ held[f] = NoMessage
      BY <1>7 DEF CloseFails, Rejects, At
    <2>4. UNCHANGED <<config, transport, held, leaving, live, refused, box, answered, handled>>
      BY <1>7 DEF CloseFails, Rejects
    <2>5. QED
      BY <2>1, <2>2, <2>3, <2>4
  <1>8. ASSUME NEW f \in Activations, BootFails(f)
        PROVE  TypeOK'
    <2>1. faults' \in 0..MaxFaults
      BY <1>8 DEF BootFails, Rejects, Fault
    <2>2. up' \in BOOLEAN
      BY <1>8, Zenon DEF BootFails
    <2>3. pc' = [pc EXCEPT ![f] = "idle"] /\ role' = [role EXCEPT ![f] = "none"] /\ held[f] = NoMessage
      BY <1>8 DEF BootFails, Rejects, At
    <2>4. UNCHANGED <<config, transport, held, leaving, live, refused, box, answered, handled>>
      BY <1>8 DEF BootFails, Rejects
    <2>5. QED
      BY <2>1, <2>2, <2>3, <2>4
  <1>9. ASSUME NEW f \in Activations, Fetched(f)
        PROVE  TypeOK'
    BY <1>9 DEF Fetched, First, Available
  <1>10. ASSUME NEW f \in Activations, FetchedNothing(f) \/ Wake(f)
         PROVE  TypeOK'
    BY <1>10 DEF FetchedNothing, Wake, At, NextRound
  <1>11. ASSUME NEW f \in Activations, Identify(f) \/ Dispatched(f) \/ ReplyFails(f)
         PROVE  TypeOK'
    BY <1>11 DEF Identify, Dispatched, ReplyFails, Step, Fault
  <1>12. ASSUME NEW f \in Activations, Sent(f)
         PROVE  TypeOK'
    BY <1>12 DEF Sent, Handled, At
  <1>13. ASSUME NEW f \in Activations, Acked(f)
         PROVE  TypeOK'
    BY <1>13 DEF Acked, At, NextRound
  <1>14. ASSUME NEW f \in Activations, CallFails(f) \/ ReportFails(f)
         PROVE  TypeOK'
    BY <1>14 DEF CallFails, ReportFails, GivesUp, At, Fault
  <1>15. ASSUME NEW m \in Messages, Post(m)
         PROVE  TypeOK'
    <2>1. box[m] = "unsent" /\ UNCHANGED <<config, transport, live, up, answered, refused,
         faults>>
      BY <1>15, Posted
    <2>2. CASE Queued(m)
      BY <2>1, <2>2 DEF Queued
    <2>3. ASSUME NEW F \in SUBSET Activations, NEW n \in 0..(1 + faults), NEW p \in Pipeline,
                Pushed(m, F, n, p)
          PROVE  TypeOK'
      BY <2>1, <2>3 DEF Pushed, Idle
    <2> HIDE DEF TypeOK
    <2>4. QED
      BY <1>15, <2>2, <2>3, Posted
  <1>16. ASSUME NEW m \in Messages, Redeliver(m)
         PROVE  TypeOK'
    BY <1>16 DEF Redeliver
  <1>17. ASSUME Crash
         PROVE  TypeOK'
    <2>1. /\ pc' = [f \in Activations |-> "idle"]
          /\ role' = [f \in Activations |-> "none"]
          /\ leaving' = [f \in Activations |-> NoSubscription]
          /\ held' = [f \in Activations |-> NoMessage]
      BY <1>17 DEF Crash
    <2>2. subscription' = NoSubscription /\ live' = {} /\ refused' = {} /\ faults' \in 0..MaxFaults
      BY <1>17 DEF Crash, Fault
    <2>3. running' = FALSE /\ UNCHANGED <<config, up, box, answered, handled>>
      BY <1>17 DEF Crash
    <2>4. QED
      BY <2>1, <2>2, <2>3
  <1>18. CASE UNCHANGED vars
    BY <1>18 DEF vars
  <1>19. QED
    BY <1>1, <1>2, <1>3, <1>4, <1>5, <1>6, <1>7, <1>8, <1>9,
       <1>10, <1>11, <1>12, <1>13, <1>14, <1>15, <1>16, <1>17, <1>18 DEF Next, Advance

\* Every step keeps awaits and roles together.
LEMMA RolesStep ==
    ASSUME ServerInv, [Next]_vars
    PROVE  RolesFit'
  <1> USE
     DEF ServerInv, TypeOK, RolesFit, Switching, Pipeline, transport, activation, mailbox, history
  <1>1. ASSUME NEW f \in Activations, Stop(f) \/ StartStopped(f) \/ StartRunning(f)
        PROVE  RolesFit'
    BY <1>1, FreshIsIdle DEF Stop, StartStopped, StartRunning, At, Onward, ToUndo, Idle
  <1>2. ASSUME NEW f \in Activations, Unsubscribed(f)
        PROVE  RolesFit'
    BY <1>2 DEF Unsubscribed, At, Onward
  <1>3. ASSUME NEW f \in Activations, Closed(f)
        PROVE  RolesFit'
    BY <1>3 DEF Closed, At, Onward
  <1>4. ASSUME NEW f \in Activations, Restarted(f)
        PROVE  RolesFit'
    BY <1>4 DEF Restarted, At
  <1>5. ASSUME NEW f \in Activations, Booted(f)
        PROVE  RolesFit'
    BY <1>5 DEF Booted, At, NextRound
  <1>6. ASSUME NEW f \in Activations, UnsubscribeFails(f)
        PROVE  RolesFit'
    BY <1>6 DEF UnsubscribeFails, Rejects, At, Fault
  <1>7. ASSUME NEW f \in Activations, CloseFails(f)
        PROVE  RolesFit'
    BY <1>7 DEF CloseFails, Rejects, At, Fault
  <1>8. ASSUME NEW f \in Activations, BootFails(f)
        PROVE  RolesFit'
    BY <1>8 DEF BootFails, Rejects, At, Fault
  <1>9. ASSUME NEW f \in Activations, Fetched(f)
        PROVE  RolesFit'
    BY <1>9 DEF Fetched, First, Available
  <1>10. ASSUME NEW f \in Activations, FetchedNothing(f) \/ Wake(f)
         PROVE  RolesFit'
    BY <1>10 DEF FetchedNothing, Wake, At, NextRound
  <1>11. ASSUME NEW f \in Activations, Identify(f) \/ Dispatched(f) \/ ReplyFails(f)
         PROVE  RolesFit'
    BY <1>11 DEF Identify, Dispatched, ReplyFails, Step, Fault
  <1>12. ASSUME NEW f \in Activations, Sent(f)
         PROVE  RolesFit'
    BY <1>12 DEF Sent, Handled, At
  <1>13. ASSUME NEW f \in Activations, Acked(f)
         PROVE  RolesFit'
    BY <1>13 DEF Acked, At, NextRound
  <1>14. ASSUME NEW f \in Activations, CallFails(f) \/ ReportFails(f)
         PROVE  RolesFit'
    BY <1>14 DEF CallFails, ReportFails, GivesUp, At, Fault
  <1>15. ASSUME NEW m \in Messages, Post(m)
         PROVE  RolesFit'
    <2>1. box[m] = "unsent" /\ UNCHANGED <<config, transport, live, up, answered, refused,
         faults>>
      BY <1>15, Posted
    <2>2. CASE Queued(m)
      BY <2>1, <2>2 DEF Queued
    <2>3. ASSUME NEW F \in SUBSET Activations, NEW n \in 0..(1 + faults), NEW p \in Pipeline,
                Pushed(m, F, n, p)
          PROVE  RolesFit'
      BY <2>1, <2>3 DEF Pushed, Idle
    <2> HIDE DEF RolesFit
    <2>4. QED
      BY <1>15, <2>2, <2>3, Posted
  <1>16. ASSUME NEW m \in Messages, Redeliver(m)
         PROVE  RolesFit'
    BY <1>16 DEF Redeliver
  <1>17. ASSUME Crash
         PROVE  RolesFit'
    BY <1>17 DEF Crash, Fault
  <1>18. CASE UNCHANGED vars
    BY <1>18 DEF vars
  <1>19. QED
    BY <1>1, <1>2, <1>3, <1>4, <1>5, <1>6, <1>7, <1>8, <1>9,
       <1>10, <1>11, <1>12, <1>13, <1>14, <1>15, <1>16, <1>17, <1>18 DEF Next, Advance

\* A subscription that will not end is a fault.
LEMMA RefusedStep ==
    ASSUME ServerInv, [Next]_vars
    PROVE  FewRefused'
  <1> USE DEF transport, activation, mailbox, history
  <1>1. IsFiniteSet(refused) /\ Cardinality(refused) \in Nat /\ Cardinality(refused) <= faults /\ faults \in Nat
    <2>1. faults \in 0..MaxFaults
      BY DEF ServerInv, TypeOK
    <2>2. QED
      BY <2>1, Constants, FS_CardinalityType DEF ServerInv, FewRefused
  <1>2. ASSUME NEW f \in Activations, UnsubscribeFails(f)
        PROVE  FewRefused'
    <2> DEFINE R == refused \cup {leaving[f]}
    <2>1. refused' \in SUBSET R /\ faults' = faults + 1
      BY <1>2 DEF UnsubscribeFails, Rejects, Fault
    <2>2. IsFiniteSet(R) /\ Cardinality(R) \in {Cardinality(refused), Cardinality(refused) + 1}
      BY <1>1, FS_AddElement
    <2>3. IsFiniteSet(refused') /\ Cardinality(refused') <= Cardinality(R)
      BY <2>1, <2>2, FS_Subset
    <2>4. Cardinality(refused') \in Nat
      BY <2>3, FS_CardinalityType
    <2>5. QED
      BY <1>1, <2>1, <2>2, <2>3, <2>4 DEF FewRefused
  <1>3. ASSUME \A f \in Activations : ~UnsubscribeFails(f)
        PROVE  refused' \in SUBSET refused /\ faults' \in {faults, faults + 1}
    <2>1. CASE UNCHANGED vars
      BY <2>1 DEF vars
    <2>2. ASSUME NEW f \in Activations, Stop(f) \/ StartStopped(f) \/ StartRunning(f)
          PROVE  UNCHANGED <<refused, faults>>
      BY <2>2 DEF Stop, StartStopped, StartRunning
    <2>3. ASSUME NEW m \in Messages, Post(m) \/ Redeliver(m)
          PROVE  UNCHANGED <<refused, faults>>
      BY <2>3 DEF Post, Redeliver
    <2>4. CASE Crash
      BY <2>4 DEF Crash, Fault
    <2>5. ASSUME NEW f \in Activations,
                CloseFails(f) \/ BootFails(f) \/ CallFails(f) \/ ReportFails(f) \/ ReplyFails(f)
          PROVE  UNCHANGED refused /\ faults' = faults + 1
      BY <2>5 DEF CloseFails, BootFails, CallFails, ReportFails, ReplyFails, Rejects, Fault
    <2>6. ASSUME NEW f \in Activations,
                 Unsubscribed(f) \/ Closed(f) \/ Restarted(f) \/ Booted(f) \/ Fetched(f) \/ FetchedNothing(f)
                 \/ Wake(f) \/ Identify(f) \/ Dispatched(f) \/ Sent(f) \/ Acked(f)
          PROVE  refused' \in SUBSET refused /\ faults' = faults
      BY <2>6 DEF Unsubscribed, Closed, Restarted, Booted, Fetched, FetchedNothing, Wake,
                  Identify, Dispatched, Step, Sent, Acked
    <2>7. QED
      BY <1>3, <2>1, <2>2, <2>3, <2>4, <2>5, <2>6 DEF Next, Advance
  <1>4. ASSUME refused' \in SUBSET refused, faults' \in {faults, faults + 1}
        PROVE  FewRefused'
    <2>1. IsFiniteSet(refused') /\ Cardinality(refused') <= Cardinality(refused)
      BY <1>1, <1>4, FS_Subset
    <2>2. Cardinality(refused') \in Nat
      BY <2>1, FS_CardinalityType
    <2>3. QED
      BY <1>1, <1>4, <2>1, <2>2 DEF FewRefused
  <1>5. QED
    BY <1>2, <1>3, <1>4

\* The awaits of a start() or a stop().
Awaits == {"unsubscribing", "closing", "stopped", "booting"}

\* What a step of a loop or of a pushed message leaves alone.
Elsewhere ==
    /\ UNCHANGED <<config, transport, leaving, live, refused>>
    /\ \A f \in Activations :
        /\ role'[f] \in Switching => role[f] = role'[f]
        /\ pc[f] \in Awaits \/ pc'[f] \in Awaits => pc[f] = pc'[f]

LEMMA ElsewhereKeeps ==
    ASSUME OneSubscription, Elsewhere
    PROVE  OneSubscription'
  <1> USE DEF OneSubscription, Elsewhere, Switching, Awaits, transport
  <1>1. LiveKnown' /\ (config'.mode = "pull" => subscription' = NoSubscription)
    BY DEF LiveKnown
  <1>2. config.mode = "push" => OneSwitch'
    BY DEF OneSwitch
  <1>3. config.mode = "push" => \A f \in Activations : Knows(f)'
    BY DEF Knows
  <1>4. config.mode = "push" => Accounted'
    BY DEF Accounted
  <1>5. QED
    BY <1>1, <1>2, <1>3, <1>4

\* Steps of loops and of pushed messages.
LEMMA LoopsAreElsewhere ==
    ASSUME ServerInv, NEW f \in Activations,
           \/ Fetched(f) \/ FetchedNothing(f) \/ Wake(f) \/ Identify(f) \/ Dispatched(f)
           \/ Sent(f) \/ Acked(f) \/ CallFails(f) \/ ReportFails(f) \/ ReplyFails(f)
    PROVE  Elsewhere
  <1> USE DEF Elsewhere, Switching, Awaits, transport, activation, mailbox, history
  <1>1. /\ DOMAIN pc = Activations /\ DOMAIN role = Activations
        /\ pc[f] \in {"fetching", "sleeping", "acking"} => role[f] \in {"drain", "pull"}
        /\ pc[f] \in Pipeline => role[f] \in {"push", "drain", "pull"}
    BY DEF ServerInv, TypeOK, RolesFit
  <1>2. CASE Fetched(f)
    <2>1. PICK m \in Messages : \E p \in First(m) : pc' = [pc EXCEPT ![f] = p]
      BY <1>2 DEF Fetched
    <2>2. QED
      BY <1>1, <1>2, <2>1 DEF Fetched, First
  <1>3. CASE FetchedNothing(f) \/ Wake(f)
    BY <1>1, <1>3 DEF FetchedNothing, Wake, At, NextRound
  <1>4. CASE Identify(f) \/ Dispatched(f) \/ ReplyFails(f)
    BY <1>1, <1>4 DEF Identify, Dispatched, ReplyFails, Step
  <1>5. CASE Sent(f)
    BY <1>1, <1>5 DEF Sent, Handled, At, Pipeline
  <1>6. CASE Acked(f)
    BY <1>1, <1>6 DEF Acked, At, NextRound
  <1>7. CASE CallFails(f) \/ ReportFails(f)
    BY <1>1, <1>7 DEF CallFails, ReportFails, GivesUp, At, Pipeline
  <1>8. QED
    BY <1>2, <1>3, <1>4, <1>5, <1>6, <1>7


\* A start() and a stop() that take turns leave one subscription at most, and
\* one for each that would not end.
LEMMA SubscriptionStep ==
    ASSUME ServerInv, Orderly, [Next]_vars
    PROVE  OneSubscription'
  <1> USE DEF transport, activation, mailbox, history
  <1>1. /\ DOMAIN pc = Activations /\ DOMAIN role = Activations
        /\ DOMAIN leaving = Activations
        /\ \A f \in Activations : role[f] = "none" <=> pc[f] = "idle"
        /\ refused \subseteq live /\ NoSubscription \notin live
        /\ config.mode \in {"push", "pull"}
    BY Constants DEF ServerInv, TypeOK
  <1>2. RolesFit /\ OneSubscription
    BY DEF ServerInv
  <1>3. ASSUME NEW f \in Activations, Stop(f)
        PROVE  OneSubscription'
    <2> USE <1>1, <1>2, <1>3, FreshIsIdle
       DEF Stop, At, Onward, ToUndo, Idle, MayCall, Orderly, OneSubscription, RolesFit, Switching
    <2>1. LiveKnown' /\ (config'.mode = "pull" => subscription' = NoSubscription)
      BY DEF LiveKnown, Knows
    <2>2. config.mode = "push" => OneSwitch'
      BY DEF OneSwitch
    <2>3. config.mode = "push" => \A g \in Activations : Knows(g)'
      <3> SUFFICES ASSUME config.mode = "push", NEW g \in Activations
                   PROVE  Knows(g)'
        OBVIOUS
      <3>1. CASE g = f
        <4>1. leaving'[f] = subscription /\ pc'[f] # "booting" /\ subscription' = subscription
          BY <3>1
        <4>2. pc'[f] \in {"closing", "stopped"} => subscription = NoSubscription
          BY <3>1
        <4>3. QED
          BY <3>1, <4>1, <4>2 DEF Knows
      <3>2. CASE g # f
        BY <3>2 DEF Knows, OneSwitch
      <3>3. QED
        BY <3>1, <3>2
    <2>4. config.mode = "push" => Accounted'
      BY DEF Accounted, Knows, LiveKnown, OneSwitch
    <2>5. config' = config
      OBVIOUS
    <2> HIDE DEF Stop, At, Onward, ToUndo, Idle, MayCall, Orderly
    <2>6. QED
      BY <2>1, <2>2, <2>3, <2>4, <2>5
  <1>4. ASSUME NEW f \in Activations, StartStopped(f)
        PROVE  OneSubscription'
    <2> USE <1>1, <1>2, <1>4, FreshIsIdle
       DEF StartStopped, At, Idle, MayStart, MayCall, Orderly, OneSubscription, RolesFit,
           Switching
    <2>1. LiveKnown' /\ (config'.mode = "pull" => subscription' = NoSubscription)
      BY DEF LiveKnown, Knows
    <2>2. config.mode = "push" => OneSwitch'
      BY DEF OneSwitch
    <2>3. config.mode = "push" => \A g \in Activations : Knows(g)'
      <3> SUFFICES ASSUME config.mode = "push", NEW g \in Activations
                   PROVE  Knows(g)'
        OBVIOUS
      <3>1. CASE g = f
        <4>1. \A h \in Activations : pc[h] # "unsubscribing"
          BY <3>1
        <4>2. ~running /\ running' /\ pc'[f] = "booting" /\ UNCHANGED <<subscription, live,
             refused>>
          BY <3>1
        <4>3. subscription \notin live \ refused
          BY <3>1, <4>1, <4>2 DEF Accounted
        <4>4. QED
          BY <3>1, <4>2, <4>3 DEF Knows
      <3>2. CASE g # f
        BY <3>2 DEF Knows, OneSwitch
      <3>3. QED
        BY <3>1, <3>2
    <2>4. config.mode = "push" => Accounted'
      BY DEF Accounted, Knows, LiveKnown, OneSwitch
    <2>5. config' = config
      OBVIOUS
    <2> HIDE DEF StartStopped, At, Idle, MayStart, MayCall, Orderly
    <2>6. QED
      BY <2>1, <2>2, <2>3, <2>4, <2>5
  <1>5. ASSUME NEW f \in Activations, StartRunning(f)
        PROVE  OneSubscription'
    <2> USE <1>1, <1>2, <1>5, FreshIsIdle
       DEF StartRunning, At, Onward, ToUndo, Idle, MayStart, MayCall, Orderly, OneSubscription,
           RolesFit, Switching
    <2>1. LiveKnown' /\ (config'.mode = "pull" => subscription' = NoSubscription)
      BY DEF LiveKnown, Knows
    <2>2. config.mode = "push" => OneSwitch'
      BY DEF OneSwitch
    <2>3. config.mode = "push" => \A g \in Activations : Knows(g)'
      <3> SUFFICES ASSUME config.mode = "push", NEW g \in Activations
                   PROVE  Knows(g)'
        OBVIOUS
      <3>1. CASE g = f
        <4>1. leaving'[f] = subscription /\ pc'[f] # "booting" /\ subscription' = subscription
          BY <3>1
        <4>2. pc'[f] \in {"closing", "stopped"} => subscription = NoSubscription
          BY <3>1
        <4>3. QED
          BY <3>1, <4>1, <4>2 DEF Knows
      <3>2. CASE g # f
        BY <3>2 DEF Knows, OneSwitch
      <3>3. QED
        BY <3>1, <3>2
    <2>4. config.mode = "push" => Accounted'
      BY DEF Accounted, Knows, LiveKnown, OneSwitch
    <2>5. config' = config
      OBVIOUS
    <2> HIDE DEF StartRunning, At, Onward, ToUndo, Idle, MayStart, MayCall, Orderly
    <2>6. QED
      BY <2>1, <2>2, <2>3, <2>4, <2>5
  <1>6. ASSUME NEW f \in Activations, Unsubscribed(f)
        PROVE  OneSubscription'
    <2> USE <1>1, <1>2, <1>6 DEF Unsubscribed, At, Onward, OneSubscription, RolesFit, Switching
    <2>1. LiveKnown' /\ (config'.mode = "pull" => subscription' = NoSubscription)
      <3>1. CASE config.mode = "pull"
        BY <3>1 DEF LiveKnown
      <3>2. CASE config.mode = "push"
        BY <3>2 DEF LiveKnown, Knows
      <3>3. QED
        BY <3>1, <3>2
    <2>2. config.mode = "push" => OneSwitch'
      BY DEF OneSwitch
    <2>3. config.mode = "push" => \A g \in Activations : Knows(g)'
      <3> SUFFICES ASSUME config.mode = "push", NEW g \in Activations
                   PROVE  Knows(g)'
        OBVIOUS
      <3>1. CASE g = f
        BY <3>1 DEF Knows, LiveKnown
      <3>2. CASE g # f
        BY <3>2 DEF Knows, OneSwitch
      <3>3. QED
        BY <3>1, <3>2
    <2>4. config.mode = "push" => Accounted'
      BY DEF Accounted, Knows, LiveKnown, OneSwitch
    <2>5. config' = config
      OBVIOUS
    <2> HIDE DEF Unsubscribed, At, Onward
    <2>6. QED
      BY <2>1, <2>2, <2>3, <2>4, <2>5
  <1>7. ASSUME NEW f \in Activations, Closed(f)
        PROVE  OneSubscription'
    <2> USE <1>1, <1>2, <1>7 DEF Closed, At, Onward, OneSubscription, RolesFit, Switching
    <2>1. LiveKnown' /\ (config'.mode = "pull" => subscription' = NoSubscription)
      BY DEF LiveKnown, Knows
    <2>2. config.mode = "push" => OneSwitch'
      BY DEF OneSwitch
    <2>3. config.mode = "push" => \A g \in Activations : Knows(g)'
      <3> SUFFICES ASSUME config.mode = "push", NEW g \in Activations
                   PROVE  Knows(g)'
        OBVIOUS
      <3>1. CASE g = f
        BY <3>1 DEF Knows, LiveKnown
      <3>2. CASE g # f
        BY <3>2 DEF Knows, OneSwitch
      <3>3. QED
        BY <3>1, <3>2
    <2>4. config.mode = "push" => Accounted'
      BY DEF Accounted, Knows, LiveKnown, OneSwitch
    <2>5. config' = config
      OBVIOUS
    <2> HIDE DEF Closed, At, Onward
    <2>6. QED
      BY <2>1, <2>2, <2>3, <2>4, <2>5
  <1>8. ASSUME NEW f \in Activations, Restarted(f)
        PROVE  OneSubscription'
    <2> USE <1>1, <1>2, <1>8 DEF Restarted, At, OneSubscription, RolesFit, Switching
    <2>1. LiveKnown' /\ (config'.mode = "pull" => subscription' = NoSubscription)
      BY DEF LiveKnown, Knows
    <2>2. config.mode = "push" => OneSwitch'
      BY DEF OneSwitch
    <2>3. config.mode = "push" => \A g \in Activations : Knows(g)'
      <3> SUFFICES ASSUME config.mode = "push", NEW g \in Activations
                   PROVE  Knows(g)'
        OBVIOUS
      <3>1. CASE g = f
        BY <3>1 DEF Knows, LiveKnown
      <3>2. CASE g # f
        BY <3>2 DEF Knows, OneSwitch
      <3>3. QED
        BY <3>1, <3>2
    <2>4. config.mode = "push" => Accounted'
      BY DEF Accounted, Knows, LiveKnown, OneSwitch
    <2>5. config' = config
      OBVIOUS
    <2> HIDE DEF Restarted, At
    <2>6. QED
      BY <2>1, <2>2, <2>3, <2>4, <2>5
  <1>9. ASSUME NEW f \in Activations, Booted(f)
        PROVE  OneSubscription'
    <2> USE <1>1, <1>2, <1>9 DEF Booted, At, NextRound, OneSubscription, RolesFit, Switching
    <2>1. LiveKnown' /\ (config'.mode = "pull" => subscription' = NoSubscription)
      <3>1. CASE config.mode = "pull"
        BY <3>1 DEF LiveKnown
      <3>2. CASE config.mode = "push"
        <4>1. /\ Subscriptions \ (live \cup {subscription}) # {}
              /\ subscription' = CHOOSE k \in Subscriptions \ (live \cup {subscription}) : TRUE
              /\ live' = live \cup {subscription'} /\ refused' = refused
          BY <3>2
        <4>2. live \subseteq refused
          BY <3>2 DEF LiveKnown, Knows
        <4>3. QED
          BY <3>2, <4>1, <4>2, Constants DEF LiveKnown
      <3>3. QED
        BY <3>1, <3>2
    <2>2. config.mode = "push" => OneSwitch'
      BY DEF OneSwitch
    <2>3. config.mode = "push" => \A g \in Activations : Knows(g)'
      <3> SUFFICES ASSUME config.mode = "push", NEW g \in Activations
                   PROVE  Knows(g)'
        OBVIOUS
      <3>1. CASE g = f
        BY <3>1 DEF Knows, LiveKnown
      <3>2. CASE g # f
        BY <3>2 DEF Knows, OneSwitch
      <3>3. QED
        BY <3>1, <3>2
    <2>4. config.mode = "push" => Accounted'
      BY DEF Accounted, Knows, LiveKnown, OneSwitch
    <2>5. config' = config
      OBVIOUS
    <2> HIDE DEF Booted, At, NextRound
    <2>6. QED
      BY <2>1, <2>2, <2>3, <2>4, <2>5
  <1>10. ASSUME NEW f \in Activations, UnsubscribeFails(f)
         PROVE  OneSubscription'
    <2> USE <1>1, <1>2, <1>10
       DEF UnsubscribeFails, Rejects, At, OneSubscription, RolesFit, Switching
    <2>1. LiveKnown' /\ (config'.mode = "pull" => subscription' = NoSubscription)
      BY DEF LiveKnown, Knows
    <2>2. config.mode = "push" => OneSwitch'
      BY DEF OneSwitch
    <2>3. config.mode = "push" => \A g \in Activations : Knows(g)'
      <3> SUFFICES ASSUME config.mode = "push", NEW g \in Activations
                   PROVE  Knows(g)'
        OBVIOUS
      <3>1. CASE g = f
        BY <3>1 DEF Knows, LiveKnown
      <3>2. CASE g # f
        BY <3>2 DEF Knows, OneSwitch
      <3>3. QED
        BY <3>1, <3>2
    <2>4. config.mode = "push" => Accounted'
      BY DEF Accounted, Knows, LiveKnown, OneSwitch
    <2>5. config' = config
      OBVIOUS
    <2> HIDE DEF UnsubscribeFails, Rejects, At
    <2>6. QED
      BY <2>1, <2>2, <2>3, <2>4, <2>5
  <1>11. ASSUME NEW f \in Activations, CloseFails(f)
         PROVE  OneSubscription'
    <2> USE <1>1, <1>2, <1>11 DEF CloseFails, Rejects, At, OneSubscription, RolesFit, Switching
    <2>1. LiveKnown' /\ (config'.mode = "pull" => subscription' = NoSubscription)
      BY DEF LiveKnown, Knows
    <2>2. config.mode = "push" => OneSwitch'
      BY DEF OneSwitch
    <2>3. config.mode = "push" => \A g \in Activations : Knows(g)'
      <3> SUFFICES ASSUME config.mode = "push", NEW g \in Activations
                   PROVE  Knows(g)'
        OBVIOUS
      <3>1. CASE g = f
        BY <3>1 DEF Knows, LiveKnown
      <3>2. CASE g # f
        BY <3>2 DEF Knows, OneSwitch
      <3>3. QED
        BY <3>1, <3>2
    <2>4. config.mode = "push" => Accounted'
      BY DEF Accounted, Knows, LiveKnown, OneSwitch
    <2>5. config' = config
      OBVIOUS
    <2> HIDE DEF CloseFails, Rejects, At
    <2>6. QED
      BY <2>1, <2>2, <2>3, <2>4, <2>5
  <1>12. ASSUME NEW f \in Activations, BootFails(f)
         PROVE  OneSubscription'
    <2> USE <1>1, <1>2, <1>12 DEF BootFails, Rejects, At, OneSubscription, RolesFit, Switching
    <2>1. LiveKnown' /\ (config'.mode = "pull" => subscription' = NoSubscription)
      BY DEF LiveKnown, Knows
    <2>2. config.mode = "push" => OneSwitch'
      BY DEF OneSwitch
    <2>3. config.mode = "push" => \A g \in Activations : Knows(g)'
      <3> SUFFICES ASSUME config.mode = "push", NEW g \in Activations
                   PROVE  Knows(g)'
        OBVIOUS
      <3>1. CASE g = f
        BY <3>1 DEF Knows, LiveKnown
      <3>2. CASE g # f
        BY <3>2 DEF Knows, OneSwitch
      <3>3. QED
        BY <3>1, <3>2
    <2>4. config.mode = "push" => Accounted'
      BY DEF Accounted, Knows, LiveKnown, OneSwitch
    <2>5. config' = config
      OBVIOUS
    <2> HIDE DEF BootFails, Rejects, At
    <2>6. QED
      BY <2>1, <2>2, <2>3, <2>4, <2>5
  <1>13. ASSUME NEW m \in Messages, Post(m)
         PROVE  OneSubscription'
    <2>1. UNCHANGED <<config, transport, live, up, answered, refused, faults>>
      BY <1>13, Posted
    <2>2. CASE Queued(m)
      BY <2>1, <2>2, <1>2, ElsewhereKeeps DEF Queued, Elsewhere
    <2>3. ASSUME NEW F \in SUBSET Activations, NEW n \in 0..(1 + faults), NEW p \in Pipeline,
                Pushed(m, F, n, p)
          PROVE  Elsewhere
      BY <2>1, <2>3, <1>1 DEF Pushed, Idle, Elsewhere, Switching, Awaits
    <2>4. QED
      BY <1>13, <2>2, <2>3, <1>2, Posted, ElsewhereKeeps
  <1>14. ASSUME NEW m \in Messages, Redeliver(m)
         PROVE  OneSubscription'
    BY <1>14, <1>2, ElsewhereKeeps DEF Redeliver, Elsewhere
  <1>15. ASSUME Crash
         PROVE  OneSubscription'
    BY <1>15 DEF Crash, OneSubscription, Switching, LiveKnown, OneSwitch, Knows, Accounted
  <1>16. CASE UNCHANGED vars
    BY <1>16, <1>2, ElsewhereKeeps DEF vars, Elsewhere
  <1>17. QED
    BY <1>2, <1>3, <1>4, <1>5, <1>6, <1>7, <1>8, <1>9, <1>10, <1>11, <1>12, <1>13, <1>14,
       <1>15, <1>16, LoopsAreElsewhere, ElsewhereKeeps DEF Next, Advance

\* A start() that waits for every loop begins the only one.
LEMMA LoopStep ==
    ASSUME ServerInv, [Next]_vars
    PROVE  OneLoop'
  <1> USE
     DEF ServerInv, TypeOK, RolesFit, Switching, OneLoop, Pipeline, MayStart, transport,
         activation, mailbox, history
  <1>1. ASSUME NEW f \in Activations, Stop(f) \/ StartStopped(f) \/ StartRunning(f)
        PROVE  OneLoop'
    BY <1>1, FreshIsIdle DEF Stop, StartStopped, StartRunning, At, Onward, ToUndo, Idle
  <1>2. ASSUME NEW f \in Activations, Unsubscribed(f)
        PROVE  OneLoop'
    BY <1>2 DEF Unsubscribed, At, Onward
  <1>3. ASSUME NEW f \in Activations, Closed(f)
        PROVE  OneLoop'
    BY <1>3 DEF Closed, At, Onward
  <1>4. ASSUME NEW f \in Activations, Restarted(f)
        PROVE  OneLoop'
    BY <1>4 DEF Restarted, At
  <1>5. ASSUME NEW f \in Activations, Booted(f)
        PROVE  OneLoop'
    BY <1>5 DEF Booted, At, NextRound
  <1>6. ASSUME NEW f \in Activations, UnsubscribeFails(f)
        PROVE  OneLoop'
    BY <1>6 DEF UnsubscribeFails, Rejects, At, Fault
  <1>7. ASSUME NEW f \in Activations, CloseFails(f)
        PROVE  OneLoop'
    BY <1>7 DEF CloseFails, Rejects, At, Fault
  <1>8. ASSUME NEW f \in Activations, BootFails(f)
        PROVE  OneLoop'
    BY <1>8 DEF BootFails, Rejects, At, Fault
  <1>9. ASSUME NEW f \in Activations, Fetched(f)
        PROVE  OneLoop'
    BY <1>9 DEF Fetched, First, Available
  <1>10. ASSUME NEW f \in Activations, FetchedNothing(f) \/ Wake(f)
         PROVE  OneLoop'
    BY <1>10 DEF FetchedNothing, Wake, At, NextRound
  <1>11. ASSUME NEW f \in Activations, Identify(f) \/ Dispatched(f) \/ ReplyFails(f)
         PROVE  OneLoop'
    BY <1>11 DEF Identify, Dispatched, ReplyFails, Step, Fault
  <1>12. ASSUME NEW f \in Activations, Sent(f)
         PROVE  OneLoop'
    BY <1>12 DEF Sent, Handled, At
  <1>13. ASSUME NEW f \in Activations, Acked(f)
         PROVE  OneLoop'
    BY <1>13 DEF Acked, At, NextRound
  <1>14. ASSUME NEW f \in Activations, CallFails(f) \/ ReportFails(f)
         PROVE  OneLoop'
    BY <1>14 DEF CallFails, ReportFails, GivesUp, At, Fault
  <1>15. ASSUME NEW m \in Messages, Post(m)
         PROVE  OneLoop'
    <2>1. box[m] = "unsent" /\ UNCHANGED <<config, transport, live, up, answered, refused,
         faults>>
      BY <1>15, Posted
    <2>2. CASE Queued(m)
      BY <2>1, <2>2 DEF Queued
    <2>3. ASSUME NEW F \in SUBSET Activations, NEW n \in 0..(1 + faults), NEW p \in Pipeline,
                Pushed(m, F, n, p)
          PROVE  OneLoop'
      BY <2>1, <2>3 DEF Pushed, Idle
    <2> HIDE DEF OneLoop
    <2>4. QED
      BY <1>15, <2>2, <2>3, Posted
  <1>16. ASSUME NEW m \in Messages, Redeliver(m)
         PROVE  OneLoop'
    BY <1>16 DEF Redeliver
  <1>17. ASSUME Crash
         PROVE  OneLoop'
    BY <1>17 DEF Crash, Fault
  <1>18. CASE UNCHANGED vars
    BY <1>18 DEF vars
  <1>19. QED
    BY <1>1, <1>2, <1>3, <1>4, <1>5, <1>6, <1>7, <1>8, <1>9,
       <1>10, <1>11, <1>12, <1>13, <1>14, <1>15, <1>16, <1>17, <1>18 DEF Next, Advance

\* Every step keeps what the mailbox has of a message in agreement with its holders.
LEMMA HoldersStep ==
    ASSUME ServerInv, Orderly, [Next]_vars
    PROVE  HoldersFit'
  <1> USE Constants
     DEF ServerInv, TypeOK, RolesFit, HoldersFit, Switching, Pipeline, transport, activation,
         mailbox, history
  <1>1. ASSUME NEW f \in Activations, Stop(f) \/ StartStopped(f) \/ StartRunning(f)
        PROVE  HoldersFit'
    BY <1>1, FreshIsIdle DEF Stop, StartStopped, StartRunning, At, Onward, ToUndo, Idle
  <1>2. ASSUME NEW f \in Activations, Unsubscribed(f)
        PROVE  HoldersFit'
    BY <1>2 DEF Unsubscribed, At, Onward
  <1>3. ASSUME NEW f \in Activations, Closed(f)
        PROVE  HoldersFit'
    BY <1>3 DEF Closed, At, Onward
  <1>4. ASSUME NEW f \in Activations, Restarted(f)
        PROVE  HoldersFit'
    BY <1>4 DEF Restarted, At
  <1>5. ASSUME NEW f \in Activations, Booted(f)
        PROVE  HoldersFit'
    BY <1>5 DEF Booted, At, NextRound
  <1>6. ASSUME NEW f \in Activations, UnsubscribeFails(f)
        PROVE  HoldersFit'
    BY <1>6 DEF UnsubscribeFails, Rejects, At, Fault
  <1>7. ASSUME NEW f \in Activations, CloseFails(f)
        PROVE  HoldersFit'
    BY <1>7 DEF CloseFails, Rejects, At, Fault
  <1>8. ASSUME NEW f \in Activations, BootFails(f)
        PROVE  HoldersFit'
    BY <1>8 DEF BootFails, Rejects, At, Fault
  <1>9. ASSUME NEW f \in Activations, Fetched(f)
        PROVE  HoldersFit'
    BY <1>9 DEF Fetched, First, Available
  <1>10. ASSUME NEW f \in Activations, FetchedNothing(f) \/ Wake(f)
         PROVE  HoldersFit'
    BY <1>10 DEF FetchedNothing, Wake, At, NextRound
  <1>11. ASSUME NEW f \in Activations, Identify(f) \/ Dispatched(f) \/ ReplyFails(f)
         PROVE  HoldersFit'
    BY <1>11 DEF Identify, Dispatched, ReplyFails, Step, Fault
  <1>12. ASSUME NEW f \in Activations, Sent(f)
         PROVE  HoldersFit'
    BY <1>12 DEF Sent, Handled, At
  <1>13. ASSUME NEW f \in Activations, Acked(f)
         PROVE  HoldersFit'
    BY <1>13 DEF Acked, At, NextRound
  <1>14. ASSUME NEW f \in Activations, CallFails(f) \/ ReportFails(f)
         PROVE  HoldersFit'
    BY <1>14 DEF CallFails, ReportFails, GivesUp, At, Fault
  <1>15. ASSUME NEW m \in Messages, Post(m)
         PROVE  HoldersFit'
    <2>1. box[m] = "unsent" /\ UNCHANGED <<config, transport, live, up, answered, refused,
         faults>>
      BY <1>15, Posted
    <2>2. CASE Queued(m)
      BY <2>1, <2>2 DEF Queued
    <2>3. ASSUME NEW F \in SUBSET Activations, NEW n \in 0..(1 + faults), NEW p \in Pipeline,
                Pushed(m, F, n, p)
          PROVE  HoldersFit'
      BY <2>1, <2>3 DEF Pushed, Idle
    <2> HIDE DEF HoldersFit
    <2>4. QED
      BY <1>15, <2>2, <2>3, Posted
  <1>16. ASSUME NEW m \in Messages, Redeliver(m)
         PROVE  HoldersFit'
    BY <1>16 DEF Redeliver
  <1>17. ASSUME Crash
         PROVE  HoldersFit'
    BY <1>17 DEF Crash, Fault
  <1>18. CASE UNCHANGED vars
    BY <1>18 DEF vars
  <1>19. QED
    BY <1>1, <1>2, <1>3, <1>4, <1>5, <1>6, <1>7, <1>8, <1>9,
       <1>10, <1>11, <1>12, <1>13, <1>14, <1>15, <1>16, <1>17, <1>18 DEF Next, Advance

\* An activation that lets go of a message unacknowledged does so after a fault.
LEMMA FaultsStep ==
    ASSUME ServerInv, Orderly, [Next]_vars
    PROVE  FaultsPay'
  <1> USE Constants
     DEF ServerInv, TypeOK, RolesFit, HoldersFit, FaultsPay, Switching, Pipeline, transport,
         activation, mailbox, history
  <1>1. ASSUME NEW f \in Activations, Stop(f) \/ StartStopped(f) \/ StartRunning(f)
        PROVE  FaultsPay'
    BY <1>1, FreshIsIdle DEF Stop, StartStopped, StartRunning, At, Onward, ToUndo, Idle
  <1>2. ASSUME NEW f \in Activations, Unsubscribed(f)
        PROVE  FaultsPay'
    BY <1>2 DEF Unsubscribed, At, Onward
  <1>3. ASSUME NEW f \in Activations, Closed(f)
        PROVE  FaultsPay'
    BY <1>3 DEF Closed, At, Onward
  <1>4. ASSUME NEW f \in Activations, Restarted(f)
        PROVE  FaultsPay'
    BY <1>4 DEF Restarted, At
  <1>5. ASSUME NEW f \in Activations, Booted(f)
        PROVE  FaultsPay'
    BY <1>5 DEF Booted, At, NextRound
  <1>6. ASSUME NEW f \in Activations, UnsubscribeFails(f)
        PROVE  FaultsPay'
    BY <1>6 DEF UnsubscribeFails, Rejects, At, Fault
  <1>7. ASSUME NEW f \in Activations, CloseFails(f)
        PROVE  FaultsPay'
    BY <1>7 DEF CloseFails, Rejects, At, Fault
  <1>8. ASSUME NEW f \in Activations, BootFails(f)
        PROVE  FaultsPay'
    BY <1>8 DEF BootFails, Rejects, At, Fault
  <1>9. ASSUME NEW f \in Activations, Fetched(f)
        PROVE  FaultsPay'
    <2>1. PICK m \in Messages :
            /\ Available(m)
            /\ box' = [box EXCEPT ![m] = "held"]
            /\ held' = [held EXCEPT ![f] = m]
            /\ handled' = [handled EXCEPT ![m] = @ + 1]
      BY <1>9 DEF Fetched
    <2>2. UNCHANGED faults /\ role[f] \in {"drain", "pull"} /\ held[f] = NoMessage
      BY <1>9 DEF Fetched
    <2>3. handled[m] <= faults
      <3>1. CASE box[m] = "queued"
        BY <3>1
      <3>2. CASE box[m] = "held" /\ ~Hides
        <4>1. ASSUME NEW g \in Activations, held[g] = m
              PROVE  FALSE
          <5>1. role[g] \in {"drain", "pull"}
            BY <3>2, <4>1
          <5>2. Calls = "alone"
            <6> HIDE DEF ServerInv, TypeOK
            <6>1. QED
              BY <3>2, Zenon DEF Orderly
          <5>3. g = f
            BY <2>2, <5>1, <5>2 DEF OneLoop
          <5>4. QED
            BY <2>2, <4>1, <5>3
        <4>2. QED
          BY <3>2, <4>1
      <3>3. QED
        BY <2>1, <3>1, <3>2 DEF Available
    <2>4. QED
      BY <2>1, <2>2, <2>3
  <1>10. ASSUME NEW f \in Activations, FetchedNothing(f) \/ Wake(f)
         PROVE  FaultsPay'
    BY <1>10 DEF FetchedNothing, Wake, At, NextRound
  <1>11. ASSUME NEW f \in Activations, Identify(f) \/ Dispatched(f) \/ ReplyFails(f)
         PROVE  FaultsPay'
    BY <1>11 DEF Identify, Dispatched, ReplyFails, Step, Fault
  <1>12. ASSUME NEW f \in Activations, Sent(f)
         PROVE  FaultsPay'
    BY <1>12 DEF Sent, Handled, At
  <1>13. ASSUME NEW f \in Activations, Acked(f)
         PROVE  FaultsPay'
    BY <1>13 DEF Acked, At, NextRound
  <1>14. ASSUME NEW f \in Activations, CallFails(f) \/ ReportFails(f)
         PROVE  FaultsPay'
    BY <1>14 DEF CallFails, ReportFails, GivesUp, At, Fault
  <1>15. ASSUME NEW m \in Messages, Post(m)
         PROVE  FaultsPay'
    <2>1. box[m] = "unsent" /\ UNCHANGED <<config, transport, live, up, answered, refused,
         faults>>
      BY <1>15, Posted
    <2>2. CASE Queued(m)
      BY <2>1, <2>2 DEF Queued
    <2>3. ASSUME NEW F \in SUBSET Activations, NEW n \in 0..(1 + faults), NEW p \in Pipeline,
                Pushed(m, F, n, p)
          PROVE  FaultsPay'
      BY <2>1, <2>3 DEF Pushed, Idle
    <2> HIDE DEF FaultsPay
    <2>4. QED
      BY <1>15, <2>2, <2>3, Posted
  <1>16. ASSUME NEW m \in Messages, Redeliver(m)
         PROVE  FaultsPay'
    BY <1>16 DEF Redeliver
  <1>17. ASSUME Crash
         PROVE  FaultsPay'
    BY <1>17 DEF Crash, Fault
  <1>18. CASE UNCHANGED vars
    BY <1>18 DEF vars
  <1>19. QED
    BY <1>1, <1>2, <1>3, <1>4, <1>5, <1>6, <1>7, <1>8, <1>9,
       <1>10, <1>11, <1>12, <1>13, <1>14, <1>15, <1>16, <1>17, <1>18 DEF Next, Advance
-----------------------------------------------------------------------------
LEMMA ServerInvStep ==
    ASSUME Orderly, ServerInv, [Next]_vars
    PROVE  ServerInv'
  <1>1. TypeOK' /\ RolesFit' /\ FewRefused' /\ OneSubscription' /\ OneLoop'
    BY TypeStep, RolesStep, RefusedStep, SubscriptionStep, LoopStep
  <1>2. HoldersFit' /\ FaultsPay'
    BY HoldersStep, FaultsStep
  <1>3. QED
    BY <1>1, <1>2 DEF ServerInv

LEMMA ServerInvInit == Init => ServerInv
  <1> SUFFICES ASSUME Init
               PROVE  ServerInv
    OBVIOUS
  <1>1. TypeOK
    <2>1. up \in BOOLEAN
      BY DEF Init
    <2>2. faults \in 0..MaxFaults /\ handled \in [Messages -> Nat]
      BY Constants DEF Init
    <2>3. QED
      BY <2>1, <2>2 DEF Init, TypeOK, Pipeline
  <1>2. RolesFit /\ FewRefused /\ OneSubscription /\ OneLoop
    BY FS_EmptySet
       DEF Init, RolesFit, FewRefused, OneSubscription, LiveKnown, OneSwitch, Knows, Accounted,
                          OneLoop, Switching, Pipeline
  <1>3. HoldersFit /\ FaultsPay
    BY DEF Init, HoldersFit, FaultsPay
  <1>4. QED
    BY <1>1, <1>2, <1>3 DEF ServerInv

\* Where start() and stop() take turns, and held messages are hidden or no
\* loop is left when start() is called, the inductive invariant holds: one
\* subscription and one for each that a fault kept, one loop in the second
\* case, and a fault behind every delivery of a message but one.
THEOREM ServerInvariant == Orderly => (Spec => []ServerInv)
  <1> SUFFICES ASSUME Orderly
               PROVE  Spec => []ServerInv
    OBVIOUS
  <1>1. ServerInv /\ [Next]_vars => ServerInv'
    BY ServerInvStep
  <1>2. QED
    BY <1>1, ServerInvInit, PTL DEF Spec

\* In such a server everything is well typed.
THEOREM TypesFit == Orderly => (Spec => []TypeOK)
  <1>1. ServerInv => TypeOK
    BY DEF ServerInv
  <1>2. QED
    BY <1>1, ServerInvariant, PTL

\* In such a server no message is handled more often than 1 + faults: not
\* after a restart, not from the backlog as well, not by a subscription that
\* would not end and, where held messages are hidden, not beside an older loop.
THEOREM HandledOnceUnlessFault == Orderly => (Spec => []OnceUnlessFault)
  <1>1. ServerInv => OnceUnlessFault
    BY DEF ServerInv, FaultsPay, OnceUnlessFault
  <1>2. QED
    BY <1>1, ServerInvariant, PTL
=============================================================================
