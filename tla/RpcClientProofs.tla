---------------------------- MODULE RpcClientProofs ----------------------------
(***************************************************************************)
(* The client's safety, for any sets of calls and ids, any timeouts and    *)
(* either transport, where the transport's options share no headers and no *)
(* timeout object between calls.                                           *)
(***************************************************************************)
EXTENDS RpcClient, TLAPS

\* Nothing is written into the options of the transport.
NothingShared == ~SharedDefaults /\ defaultId = NoId

\* A call that was not made has left no trace; one that was made has the id it
\* drew, and 0 for its limit if somebody declared that.
CallsFit ==
    \A c \in Calls :
        /\ at[c] = "idle" =>
            /\ request[c] = "none" /\ reply[c] = NoReply
            /\ ~awaited[c] /\ outcome[c] = "none"
        /\ at[c] # "idle" =>
            /\ id[c] = Drawn[c]
            /\ 0 \in {opt[c].timeout, opt[c].tool} => limit[c] = 0

\* The first request is under way before there can be any reply, a poll after
\* the first fetch.
RequestsFit ==
    \A c \in Calls :
        /\ request[c] = "call" =>
            at[c] \in {"fetching", "done"} /\ reply[c] = NoReply /\ ~awaited[c]
        /\ request[c] = "get" => at[c] # "fetching"

\* A reply is for the call or for its poll, and tells of its own task; it is
\* there while its body is read.
RepliesFit ==
    \A c \in Calls :
        /\ reply[c] # NoReply =>
            /\ reply[c][1] \in {id[c], c}
            /\ reply[c][2] = "value" => stage[c] = "finished"
        /\ at[c] = "reading" => kind = "http" /\ reply[c] # NoReply

\* The server knows a task under the id its call drew.
OwnersFit == \A i \in Ids : owner[i] # NoCall => at[owner[i]] # "idle" /\ i = Drawn[owner[i]]

\* An entry of the mailbox client's table is the outstanding fetch of its call.
EntriesFit ==
    /\ \A k \in Keys : pending[k] # NoCall =>
        kind = "mailbox" /\ Fetching(pending[k]) /\ k = Ticket(pending[k])
    /\ \A c \in Calls : kind = "mailbox" /\ Fetching(c) => pending[Ticket(c)] = c

\* An aborted call is over, unless it was not made yet.
AbortsFit == \A c \in Calls : aborted[c] => at[c] \in {"idle", "done"}

ClientInv ==
    /\ TypeOK /\ NothingShared /\ CallsFit /\ RequestsFit /\ RepliesFit /\ OwnersFit
    /\ EntriesFit /\ AbortsFit
    /\ TimerFollowsFetch /\ ValueIsEarned /\ NoDeadlineIsKept
-----------------------------------------------------------------------------
\* What a promise and its timer look like.
PromiseTypes ==
    /\ at \in [Calls -> {"idle", "fetching", "sleeping", "polling", "reading", "done"}]
    /\ armed \in [Calls -> BOOLEAN]
    /\ outcome \in [Calls -> Outcomes]

LEMMA SettleTypes ==
    ASSUME TypeOK, NEW S, NEW o \in Outcomes, Settle(S, o)
    PROVE  PromiseTypes'
  BY DEF TypeOK, PromiseTypes, Settle

LEMMA TakeTypes ==
    ASSUME TypeOK, NEW c \in Calls, NEW b \in Bodies, Take(c, b)
    PROVE  PromiseTypes'
  <1>1. CASE b = "moved"
    BY <1>1 DEF TypeOK, PromiseTypes, Take
  <1>2. CASE b # "moved"
    BY <1>2, SettleTypes DEF Take, Bodies, Outcomes
  <1>3. QED
    BY <1>1, <1>2

LEMMA TableTypes ==
    ASSUME TypeOK
    PROVE  /\ \A K : Struck(K) \in [Keys -> Calls \cup {NoCall}]
           /\ \A k \in Keys, c \in Calls : Registered(k, c) \in [Keys -> Calls \cup {NoCall}]
  BY DEF TypeOK, Struck, Registered

\* The smaller of two timeouts is one, and 0 if either is.
LEMMA NegotiatedFits ==
    ASSUME NEW u \in Nat \cup {Unset}, NEW t \in Nat \cup {Unset}
    PROVE  Negotiated(u, t) \in Nat \cup {Unset} /\ (0 \in {u, t} => Negotiated(u, t) = 0)
  BY ClientAssumption DEF Negotiated

LEMMA EntryIs ==
    ASSUME ClientInv, NEW k \in Keys, NEW d \in Calls, pending[k] = d
    PROVE  kind = "mailbox" /\ Fetching(d) /\ at[d] # "idle" /\ k = Ticket(d)
  BY ClientAssumption DEF ClientInv, EntriesFit, Fetching

LEMMA ReplyIs ==
    ASSUME TypeOK, NEW c \in Calls, reply[c] # NoReply
    PROVE  reply[c][1] \in Keys /\ reply[c][2] \in Bodies
  BY DEF TypeOK

\* What becomes of each call when some are settled, or one takes a body.
LEMMA SettleIs ==
    ASSUME TypeOK, NEW S, NEW o, Settle(S, o)
    PROVE  \A c \in Calls :
              /\ at'[c] = (IF c \in S THEN "done" ELSE at[c])
              /\ armed'[c] <=> c \notin S /\ armed[c]
              /\ outcome'[c] = (IF c \in S THEN o ELSE outcome[c])
  BY DEF TypeOK, Settle

LEMMA TakeIs ==
    ASSUME TypeOK, NEW c \in Calls, NEW b, Take(c, b)
    PROVE  \A d \in Calls :
              IF d = c
              THEN at'[d] \in {"sleeping", "done"} /\ ~armed'[d] /\ outcome'[d] \in {outcome[d], b}
              ELSE at'[d] = at[d] /\ (armed'[d] <=> armed[d]) /\ outcome'[d] = outcome[d]
  BY SettleIs DEF TypeOK, Take

\* Every step keeps the types.
LEMMA TypeStep ==
    ASSUME ClientInv, [Next]_vars
    PROVE  TypeOK'
  <1> USE DEF ClientInv, transportVars, callVars, serverVars
  <1>1. ASSUME NEW c \in Calls, Fetch(c)
        PROVE  TypeOK'
    <2>1. RequestId(c) \in Ids /\ Effective(c) \in Nat \cup {Unset}
      BY ClientAssumption DEF TypeOK, RequestId, Effective
    <2>2. id' \in [Calls -> Ids \cup {NoId}] /\ defaultId' \in Ids \cup {NoId}
      BY <1>1, <2>1 DEF Fetch, TypeOK
    <2>3. limit' \in [Calls -> Nat \cup {Unset}] /\ defaultTimeout' \in Nat \cup {Unset}
      <3>1. opt[c].tool \in Nat \cup {Unset}
        BY ClientAssumption DEF TypeOK
      <3>2. Negotiated(Effective(c), opt[c].tool) \in Nat \cup {Unset}
        BY <2>1, <3>1, NegotiatedFits
      <3>3. QED
        BY <1>1, <3>2 DEF Fetch, TypeOK
    <2>4. pending' \in [Keys -> Calls \cup {NoCall}]
      BY <1>1, <2>1, TableTypes DEF Fetch, TypeOK, Keys
    <2>5. PromiseTypes' /\ request' \in [Calls -> {"none", "call", "get"}]
      BY <1>1, SettleTypes DEF Fetch, TypeOK, PromiseTypes, Arms, Outcomes
    <2>6. QED
      BY <1>1, <2>2, <2>3, <2>4, <2>5 DEF Fetch, TypeOK, PromiseTypes, serverVars
  <1>2. ASSUME NEW c \in Calls, Wake(c)
        PROVE  TypeOK'
    <2>1. pending' \in [Keys -> Calls \cup {NoCall}]
      BY <1>2, TableTypes DEF Wake, Keys
    <2>2. armed' \in [Calls -> BOOLEAN]
      BY <1>2 DEF Wake, PollTimer, Arms, TypeOK
    <2>3. QED
      BY <1>2, <2>1, <2>2 DEF Wake, TypeOK, transportVars, callVars, serverVars
  <1>3. ASSUME NEW c \in Calls, Headers(c)
        PROVE  TypeOK'
    BY <1>3 DEF Headers, TypeOK
  <1>4. ASSUME NEW c \in Calls, Body(c)
        PROVE  TypeOK'
    <2>1. at[c] = "reading" => reply[c][2] \in Bodies
      BY DEF TypeOK, RepliesFit
    <2>2. PromiseTypes'
      BY <1>4, <2>1, TakeTypes DEF Body, TypeOK, PromiseTypes
    <2>3. QED
      BY <1>4, <2>2 DEF Body, TypeOK, PromiseTypes, transportVars, callVars, serverVars
  <1>5. ASSUME NEW c \in Calls, OnResponse(c)
        PROVE  TypeOK'
    <2>1. reply[c][2] \in Bodies
      BY <1>5 DEF OnResponse, TypeOK
    <2>2. PromiseTypes' /\ pending' \in [Keys -> Calls \cup {NoCall}]
      BY <1>5, <2>1, TakeTypes, TableTypes DEF OnResponse, TypeOK, PromiseTypes
    <2>3. QED
      BY <1>5, <2>2 DEF OnResponse, TypeOK, PromiseTypes, transportVars, callVars, serverVars
  <1>6. ASSUME NEW c \in Calls, Timer(c)
        PROVE  TypeOK'
    <2>1. pending' \in [Keys -> Calls \cup {NoCall}]
      BY <1>6, TableTypes DEF Timer, TypeOK
    <2>2. CASE Settle({c}, "timeout")
      BY <1>6, <2>1, <2>2, SettleTypes DEF Timer, TypeOK, PromiseTypes, Outcomes, transportVars, callVars, serverVars
    <2>3. CASE armed' = [armed EXCEPT ![c] = FALSE] /\ UNCHANGED <<at, outcome>>
      BY <1>6, <2>1, <2>3 DEF Timer, TypeOK, transportVars, callVars, serverVars
    <2>4. QED
      BY <1>6, <2>2, <2>3 DEF Timer
  <1>7. ASSUME NEW c \in Calls, Reset(c)
        PROVE  TypeOK'
    <2>1. PromiseTypes' /\ pending' \in [Keys -> Calls \cup {NoCall}]
      BY <1>7, SettleTypes, TableTypes DEF Reset, TypeOK, PromiseTypes, Outcomes
    <2>2. QED
      BY <1>7, <2>1 DEF Reset, TypeOK, PromiseTypes, transportVars, callVars, serverVars
  <1>8. ASSUME NEW c \in Calls, PostFails(c)
        PROVE  TypeOK'
    <2>1. PromiseTypes' /\ pending' \in [Keys -> Calls \cup {NoCall}]
      BY <1>8, SettleTypes, TableTypes DEF PostFails, TypeOK, PromiseTypes, Outcomes
    <2>2. QED
      BY <1>8, <2>1 DEF PostFails, TypeOK, PromiseTypes, transportVars, callVars, serverVars
  <1>9. ASSUME NEW c \in Calls, Abort(c)
        PROVE  TypeOK'
    <2>1. PromiseTypes' /\ pending' \in [Keys -> Calls \cup {NoCall}]
      BY <1>9, SettleTypes, TableTypes DEF Abort, TypeOK, PromiseTypes, Outcomes
    <2>2. QED
      BY <1>9, <2>1 DEF Abort, TypeOK, PromiseTypes, transportVars, callVars, serverVars
  <1>10. ASSUME NEW c \in Calls, DeliverCall(c)
        PROVE  TypeOK'
    <2>1. owner' \in [Ids -> Calls \cup {NoCall}]
      BY <1>10 DEF DeliverCall, Server!Register, Server!TurnAway, Server!Released, TypeOK
    <2>2. stage' \in [Calls -> {"absent", "running", "finished", "failed", "aborted", "turnedAway"}]
      BY <1>10 DEF DeliverCall, Server!Register, Server!TurnAway, TypeOK
    <2>3. reply' \in [Calls -> (Keys \X Bodies) \cup {NoReply}]
      <3>1. id[c] \in Ids
        BY <1>10, ClientAssumption DEF DeliverCall, RequestsFit, CallsFit, TypeOK
      <3>2. QED
        BY <1>10, <3>1 DEF DeliverCall, TypeOK, Keys, Bodies
    <2>4. QED
      BY <1>10, <2>1, <2>2, <2>3 DEF DeliverCall, serverOnly, TypeOK, transportVars, callVars
  <1>11. ASSUME NEW c \in Calls, NEW s \in {"finished", "failed"}, TaskEnds(c, s)
        PROVE  TypeOK'
    BY <1>11 DEF TaskEnds, serverOnly, TypeOK
  <1>12. ASSUME NEW c \in Calls, Answer(c)
        PROVE  TypeOK'
    <2>1. id[c] \in Ids /\ AnswerOf(c) \in Bodies
      BY <1>12, ClientAssumption DEF Answer, CallsFit, TypeOK, AnswerOf, Bodies
    <2>2. <<id[c], AnswerOf(c)>> \in Keys \X Bodies
      BY <2>1 DEF Keys
    <2>3. QED
      BY <1>12, <2>2 DEF Answer, serverOnly, TypeOK, transportVars, callVars
  <1>13. ASSUME NEW c \in Calls, DeliverGet(c)
        PROVE  TypeOK'
    <2>1. StatusOf(owner[id[c]]) \in Bodies
      BY DEF StatusOf, Bodies
    <2>2. reply' \in [Calls -> (Keys \X Bodies) \cup {NoReply}]
      BY <1>13, <2>1 DEF DeliverGet, TypeOK, Keys, Bodies
    <2>3. QED
      BY <1>13, <2>2 DEF DeliverGet, serverOnly, serverVars, TypeOK, transportVars, callVars
  <1>14. ASSUME NEW c \in Calls, DeliverCancel(c)
        PROVE  TypeOK'
    BY <1>14 DEF DeliverCancel, CancelTarget, serverOnly, TypeOK
  <1>15. ASSUME NEW i \in Ids, Release(i)
        PROVE  TypeOK'
    BY <1>15 DEF Release, serverOnly, TypeOK
  <1>16. ASSUME Start \/ Stop
        PROVE  TypeOK'
    BY <1>16 DEF Start, Stop, TypeOK
  <1>17. ASSUME Stopped
        PROVE  TypeOK'
    <2>1. PromiseTypes'
      BY <1>17, SettleTypes DEF Stopped, Outcomes
    <2>2. QED
      BY <1>17, <2>1 DEF Stopped, TypeOK, PromiseTypes, transportVars, callVars, serverVars
  <1>18. CASE UNCHANGED vars
    BY <1>18 DEF vars, TypeOK
  <1>19. QED
    BY <1>1, <1>2, <1>3, <1>4, <1>5, <1>6, <1>7, <1>8, <1>9, <1>10, <1>11, <1>12, <1>13,
           <1>14, <1>15, <1>16, <1>17, <1>18 DEF Next, CallStep, ServerStep

\* No step writes into the options of the transport.
LEMMA SharingStep ==
    ASSUME ClientInv, [Next]_vars
    PROVE  NothingShared'
  <1> USE DEF ClientInv, NothingShared, transportVars, callVars, serverVars
  <1>1. ASSUME NEW c \in Calls, Fetch(c)
        PROVE  NothingShared'
    BY <1>1 DEF Fetch, RequestId, Registered, Settle, Effective
  <1>2. ASSUME NEW c \in Calls, Wake(c)
        PROVE  NothingShared'
    BY <1>2 DEF Wake, PollTimer, PollLimit, Registered
  <1>3. ASSUME NEW c \in Calls, Headers(c)
        PROVE  NothingShared'
    BY <1>3 DEF Headers
  <1>4. ASSUME NEW c \in Calls, Body(c)
        PROVE  NothingShared'
    BY <1>4 DEF Body, Take, Settle
  <1>5. ASSUME NEW c \in Calls, OnResponse(c)
        PROVE  NothingShared'
    BY <1>5 DEF OnResponse, Struck, Take, Settle
  <1>6. ASSUME NEW c \in Calls, Timer(c)
        PROVE  NothingShared'
    BY <1>6 DEF Timer, ExpiryKeys, Struck, Settle
  <1>7. ASSUME NEW c \in Calls, Reset(c)
        PROVE  NothingShared'
    BY <1>7 DEF Reset, Settle
  <1>8. ASSUME NEW c \in Calls, PostFails(c)
        PROVE  NothingShared'
    BY <1>8 DEF PostFails, Struck, Settle
  <1>9. ASSUME NEW c \in Calls, Abort(c)
        PROVE  NothingShared'
    BY <1>9 DEF Abort, Watching, Struck, Heeds, Settle
  <1>10. ASSUME NEW c \in Calls, DeliverCall(c)
        PROVE  NothingShared'
    BY <1>10 DEF DeliverCall, serverOnly, Server!Register, Server!TurnAway, Server!Released
  <1>11. ASSUME NEW c \in Calls, NEW s \in {"finished", "failed"}, TaskEnds(c, s)
        PROVE  NothingShared'
    BY <1>11 DEF TaskEnds, serverOnly
  <1>12. ASSUME NEW c \in Calls, Answer(c)
        PROVE  NothingShared'
    BY <1>12 DEF Answer, AnswerOf, serverOnly
  <1>13. ASSUME NEW c \in Calls, DeliverGet(c)
        PROVE  NothingShared'
    BY <1>13 DEF DeliverGet, StatusOf, serverOnly
  <1>14. ASSUME NEW c \in Calls, DeliverCancel(c)
        PROVE  NothingShared'
    BY <1>14 DEF DeliverCancel, CancelTarget, serverOnly
  <1>15. ASSUME NEW i \in Ids, Release(i)
        PROVE  NothingShared'
    BY <1>15 DEF Release, serverOnly
  <1>16. ASSUME Start \/ Stop
        PROVE  NothingShared'
    BY <1>16 DEF Start, Stop
  <1>17. ASSUME Stopped
        PROVE  NothingShared'
    BY <1>17 DEF Stopped, Settle
  <1>18. CASE UNCHANGED vars
    BY <1>18 DEF vars
  <1> HIDE DEF NothingShared
  <1>19. QED
    BY <1>1, <1>2, <1>3, <1>4, <1>5, <1>6, <1>7, <1>8, <1>9, <1>10, <1>11, <1>12, <1>13,
           <1>14, <1>15, <1>16, <1>17, <1>18 DEF Next, CallStep, ServerStep

\* A call leaves its traces only once it is made, and keeps its id and its limit.
LEMMA CallsStep ==
    ASSUME ClientInv, [Next]_vars
    PROVE  CallsFit'
  <1> USE DEF ClientInv, transportVars, callVars, serverVars
  <1>1. ASSUME NEW c \in Calls, Fetch(c)
        PROVE  CallsFit'
    <2>1. RequestId(c) = Drawn[c] /\ id'[c] = Drawn[c]
      BY <1>1 DEF Fetch, RequestId, NothingShared, TypeOK
    <2>2. Effective(c) \in Nat \cup {Unset} /\ opt[c].tool \in Nat \cup {Unset}
      BY ClientAssumption DEF TypeOK, Effective
    <2>3. 0 \in {opt[c].timeout, opt[c].tool} => 0 \in {Effective(c), opt[c].tool}
      BY ClientAssumption DEF Effective
    <2>4. 0 \in {opt[c].timeout, opt[c].tool} => limit'[c] = 0
      BY <1>1, <2>2, <2>3, NegotiatedFits DEF Fetch, TypeOK
    <2>5. at'[c] # "idle" /\ \A d \in Calls \ {c} : at'[d] = at[d] /\ outcome'[d] = outcome[d]
      BY <1>1 DEF Fetch, Settle, TypeOK
    <2>6. \A d \in Calls \ {c} : id'[d] = id[d] /\ limit'[d] = limit[d] /\ request'[d] = request[d]
      BY <1>1 DEF Fetch, TypeOK
    <2>7. UNCHANGED <<opt, reply, awaited>>
      BY <1>1 DEF Fetch, serverVars
    <2>8. QED
      BY <2>1, <2>4, <2>5, <2>6, <2>7 DEF CallsFit
  <1>2. ASSUME NEW c \in Calls, Wake(c)
        PROVE  CallsFit'
    BY <1>2 DEF Wake, PollTimer, PollLimit, Registered, CallsFit, TypeOK
  <1>3. ASSUME NEW c \in Calls, Headers(c)
        PROVE  CallsFit'
    BY <1>3 DEF Headers, CallsFit, TypeOK, Fetching, NoReply, Bodies, Keys
  <1>4. ASSUME NEW c \in Calls, Body(c)
        PROVE  CallsFit'
    BY <1>4 DEF Body, Take, Settle, CallsFit, TypeOK, Fetching, NoReply, Bodies, Keys
  <1>5. ASSUME NEW c \in Calls, OnResponse(c)
        PROVE  CallsFit'
    <2>1. \A d \in Calls : (at'[d] = at[d] /\ outcome'[d] = outcome[d]) \/ (at[d] # "idle" /\ at'[d] # "idle")
      BY <1>5, EntryIs, ReplyIs DEF OnResponse, Take, Settle, EntriesFit, Fetching, TypeOK
    <2>2. UNCHANGED <<opt, id, limit, awaited, request>> /\ \A d \in Calls : reply'[d] \in {reply[d], NoReply}
      BY <1>5 DEF OnResponse, Take, callVars, serverVars, TypeOK
    <2>3. QED
      BY <2>1, <2>2 DEF CallsFit
  <1>6. ASSUME NEW c \in Calls, Timer(c)
        PROVE  CallsFit'
    <2>1. \A d \in Calls : (at'[d] = at[d] /\ outcome'[d] = outcome[d]) \/ (at[d] # "idle" /\ at'[d] # "idle")
      BY <1>6, EntryIs, ReplyIs DEF Timer, Settle, TimerFollowsFetch, Fetching, TypeOK
    <2>2. UNCHANGED <<opt, id, limit, awaited, request>> /\ \A d \in Calls : reply'[d] \in {reply[d], NoReply}
      BY <1>6 DEF Timer, callVars, serverVars, TypeOK
    <2>3. QED
      BY <2>1, <2>2 DEF CallsFit
  <1>7. ASSUME NEW c \in Calls, Reset(c)
        PROVE  CallsFit'
    BY <1>7 DEF Reset, Settle, CallsFit, TypeOK, Fetching, NoReply, Bodies, Keys
  <1>8. ASSUME NEW c \in Calls, PostFails(c)
        PROVE  CallsFit'
    BY <1>8 DEF PostFails, Struck, Settle, CallsFit, TypeOK, Fetching, NoReply, Bodies, Keys
  <1>9. ASSUME NEW c \in Calls, Abort(c)
        PROVE  CallsFit'
    BY <1>9 DEF Abort, Watching, Struck, Heeds, Settle, CallsFit, TypeOK, Fetching,
           NoReply, Bodies, Keys
  <1>10. ASSUME NEW c \in Calls, DeliverCall(c)
        PROVE  CallsFit'
    BY <1>10 DEF DeliverCall, serverOnly, Server!Register, Server!TurnAway,
           Server!Released, CallsFit, RequestsFit, TypeOK
  <1>11. ASSUME NEW c \in Calls, NEW s \in {"finished", "failed"}, TaskEnds(c, s)
        PROVE  CallsFit'
    BY <1>11 DEF TaskEnds, serverOnly, CallsFit, TypeOK, Fetching, NoReply, Bodies, Keys
  <1>12. ASSUME NEW c \in Calls, Answer(c)
        PROVE  CallsFit'
    BY <1>12 DEF Answer, AnswerOf, serverOnly, CallsFit, TypeOK, Fetching, NoReply,
           Bodies, Keys
  <1>13. ASSUME NEW c \in Calls, DeliverGet(c)
        PROVE  CallsFit'
    BY <1>13 DEF DeliverGet, StatusOf, serverOnly, CallsFit, TypeOK, Fetching, NoReply,
           Bodies, Keys
  <1>14. ASSUME NEW c \in Calls, DeliverCancel(c)
        PROVE  CallsFit'
    BY <1>14 DEF DeliverCancel, CancelTarget, serverOnly, CallsFit, TypeOK, Fetching,
           NoReply, Bodies, Keys
  <1>15. ASSUME NEW i \in Ids, Release(i)
        PROVE  CallsFit'
    BY <1>15 DEF Release, serverOnly, CallsFit, TypeOK, Fetching, NoReply, Bodies, Keys
  <1>16. ASSUME Start \/ Stop
        PROVE  CallsFit'
    BY <1>16 DEF Start, Stop, CallsFit, TypeOK, Fetching, NoReply, Bodies, Keys
  <1>17. ASSUME Stopped
        PROVE  CallsFit'
    <2>1. \A d \in Calls : (at'[d] = at[d] /\ outcome'[d] = outcome[d]) \/ (at[d] # "idle" /\ at'[d] # "idle")
      BY <1>17, EntryIs, ReplyIs DEF Stopped, Settle, EntriesFit, Fetching, TypeOK
    <2>2. UNCHANGED <<opt, id, limit, awaited, request>> /\ \A d \in Calls : reply'[d] \in {reply[d], NoReply}
      BY <1>17 DEF Stopped, callVars, serverVars, TypeOK
    <2>3. QED
      BY <2>1, <2>2 DEF CallsFit
  <1>18. CASE UNCHANGED vars
    BY <1>18 DEF vars, CallsFit, TypeOK, Fetching, NoReply, Bodies, Keys
  <1>19. QED
    BY <1>1, <1>2, <1>3, <1>4, <1>5, <1>6, <1>7, <1>8, <1>9, <1>10, <1>11, <1>12, <1>13,
           <1>14, <1>15, <1>16, <1>17, <1>18 DEF Next, CallStep, ServerStep

\* The keys of a call only ever lead to its own fetch, so a reply does ...
LEMMA OwnKey ==
    ASSUME ClientInv, NEW c \in Calls, at[c] # "idle",
           NEW k \in {id[c], c}, NEW d \in Calls, pending[k] = d
    PROVE  d = c /\ Fetching(c)
  <1>1. id[c] = Drawn[c] /\ k \in Keys
    BY ClientAssumption DEF ClientInv, CallsFit, Keys
  <1>2. Fetching(d) /\ id[d] = Drawn[d] /\ k \in {id[d], d}
    BY <1>1, EntryIs DEF ClientInv, CallsFit, Ticket
  <1>3. QED
    BY <1>1, <1>2, ClientAssumption

LEMMA ReplyFindsOwn ==
    ASSUME ClientInv, NEW c \in Calls, reply[c] # NoReply,
           NEW d \in Calls, pending[reply[c][1]] = d
    PROVE  d = c /\ Fetching(c)
  BY OwnKey DEF ClientInv, CallsFit, RepliesFit

\* ... and a poll only ever finds its own task.
LEMMA PollFindsOwn ==
    ASSUME ClientInv, NEW c \in Calls, at[c] # "idle"
    PROVE  id[c] \in Ids /\ owner[id[c]] \in {c, NoCall}
  BY ClientAssumption DEF ClientInv, CallsFit, OwnersFit, TypeOK

\* The first request is sent once, before any reply; a poll is sent later.
LEMMA RequestsStep ==
    ASSUME ClientInv, [Next]_vars
    PROVE  RequestsFit'
  <1> USE DEF ClientInv, transportVars, callVars, serverVars
  <1>1. ASSUME NEW c \in Calls, Fetch(c)
        PROVE  RequestsFit'
    BY <1>1 DEF Fetch, RequestId, Registered, Settle, Effective, CallsFit, RequestsFit,
           TypeOK, Fetching, NoReply
  <1>2. ASSUME NEW c \in Calls, Wake(c)
        PROVE  RequestsFit'
    BY <1>2 DEF Wake, PollTimer, PollLimit, Registered, CallsFit, RequestsFit, TypeOK,
           Fetching, NoReply
  <1>3. ASSUME NEW c \in Calls, Headers(c)
        PROVE  RequestsFit'
    BY <1>3 DEF Headers, CallsFit, RequestsFit, TypeOK, Fetching, NoReply
  <1>4. ASSUME NEW c \in Calls, Body(c)
        PROVE  RequestsFit'
    BY <1>4 DEF Body, Take, Settle, RequestsFit, RepliesFit, TypeOK
  <1>5. ASSUME NEW c \in Calls, OnResponse(c)
        PROVE  RequestsFit'
    <2>1. \A d \in Calls : at'[d] = at[d] \/ (d = c /\ at'[d] # "fetching")
      BY <1>5, ReplyIs, ReplyFindsOwn DEF OnResponse, Take, Settle, TypeOK
    <2>2. request[c] # "call" /\ UNCHANGED <<request, awaited>>
      BY <1>5 DEF OnResponse, RequestsFit, serverVars
    <2>3. \A d \in Calls : reply'[d] \in {reply[d], NoReply}
      BY <1>5 DEF OnResponse, TypeOK
    <2>4. QED
      BY <2>1, <2>2, <2>3 DEF RequestsFit
  <1>6. ASSUME NEW c \in Calls, Timer(c)
        PROVE  RequestsFit'
    BY <1>6 DEF Timer, ExpiryKeys, Struck, Settle, CallsFit, RequestsFit, TypeOK,
           Fetching, NoReply
  <1>7. ASSUME NEW c \in Calls, Reset(c)
        PROVE  RequestsFit'
    BY <1>7 DEF Reset, Settle, CallsFit, RequestsFit, TypeOK, Fetching, NoReply
  <1>8. ASSUME NEW c \in Calls, PostFails(c)
        PROVE  RequestsFit'
    BY <1>8 DEF PostFails, Struck, Settle, CallsFit, RequestsFit, TypeOK, Fetching, NoReply
  <1>9. ASSUME NEW c \in Calls, Abort(c)
        PROVE  RequestsFit'
    BY <1>9 DEF Abort, Watching, Struck, Heeds, Settle, CallsFit, RequestsFit, TypeOK,
           Fetching, NoReply
  <1>10. ASSUME NEW c \in Calls, DeliverCall(c)
        PROVE  RequestsFit'
    BY <1>10 DEF DeliverCall, serverOnly, Server!Register, Server!TurnAway,
           Server!Released, CallsFit, RequestsFit, TypeOK, Fetching, NoReply
  <1>11. ASSUME NEW c \in Calls, NEW s \in {"finished", "failed"}, TaskEnds(c, s)
        PROVE  RequestsFit'
    BY <1>11 DEF TaskEnds, serverOnly, CallsFit, RequestsFit, TypeOK, Fetching, NoReply
  <1>12. ASSUME NEW c \in Calls, Answer(c)
        PROVE  RequestsFit'
    BY <1>12 DEF Answer, AnswerOf, serverOnly, CallsFit, RequestsFit, TypeOK, Fetching,
           NoReply
  <1>13. ASSUME NEW c \in Calls, DeliverGet(c)
        PROVE  RequestsFit'
    BY <1>13 DEF DeliverGet, StatusOf, serverOnly, CallsFit, RequestsFit, TypeOK,
           Fetching, NoReply
  <1>14. ASSUME NEW c \in Calls, DeliverCancel(c)
        PROVE  RequestsFit'
    BY <1>14 DEF DeliverCancel, CancelTarget, serverOnly, CallsFit, RequestsFit, TypeOK,
           Fetching, NoReply
  <1>15. ASSUME NEW i \in Ids, Release(i)
        PROVE  RequestsFit'
    BY <1>15 DEF Release, serverOnly, CallsFit, RequestsFit, TypeOK, Fetching, NoReply
  <1>16. ASSUME Start \/ Stop
        PROVE  RequestsFit'
    BY <1>16 DEF Start, Stop, CallsFit, RequestsFit, TypeOK, Fetching, NoReply
  <1>17. ASSUME Stopped
        PROVE  RequestsFit'
    BY <1>17 DEF Stopped, Settle, CallsFit, RequestsFit, TypeOK, Fetching, NoReply
  <1>18. CASE UNCHANGED vars
    BY <1>18 DEF vars, CallsFit, RequestsFit, TypeOK, Fetching, NoReply
  <1>19. QED
    BY <1>1, <1>2, <1>3, <1>4, <1>5, <1>6, <1>7, <1>8, <1>9, <1>10, <1>11, <1>12, <1>13,
           <1>14, <1>15, <1>16, <1>17, <1>18 DEF Next, CallStep, ServerStep

\* A reply keeps telling of the task of its call.
LEMMA RepliesStep ==
    ASSUME ClientInv, [Next]_vars
    PROVE  RepliesFit'
  <1> USE DEF ClientInv, transportVars, callVars, serverVars
  <1>1. ASSUME NEW c \in Calls, Fetch(c)
        PROVE  RepliesFit'
    BY <1>1 DEF Fetch, RequestId, Registered, Settle, Effective, CallsFit, RepliesFit,
           TypeOK, NoReply, Fetching
  <1>2. ASSUME NEW c \in Calls, Wake(c)
        PROVE  RepliesFit'
    BY <1>2 DEF Wake, PollTimer, PollLimit, Registered, CallsFit, RepliesFit, TypeOK,
           NoReply, Fetching
  <1>3. ASSUME NEW c \in Calls, Headers(c)
        PROVE  RepliesFit'
    BY <1>3 DEF Headers, CallsFit, RepliesFit, TypeOK, NoReply, Fetching
  <1>4. ASSUME NEW c \in Calls, Body(c)
        PROVE  RepliesFit'
    BY <1>4 DEF Body, Take, Settle, CallsFit, RepliesFit, TypeOK, NoReply, Fetching
  <1>5. ASSUME NEW c \in Calls, OnResponse(c)
        PROVE  RepliesFit'
    BY <1>5 DEF OnResponse, Struck, Take, Settle, CallsFit, RepliesFit, TypeOK, NoReply,
           Fetching
  <1>6. ASSUME NEW c \in Calls, Timer(c)
        PROVE  RepliesFit'
    BY <1>6 DEF Timer, ExpiryKeys, Struck, Settle, CallsFit, RepliesFit, TypeOK, NoReply,
           Fetching
  <1>7. ASSUME NEW c \in Calls, Reset(c)
        PROVE  RepliesFit'
    BY <1>7 DEF Reset, Settle, CallsFit, RepliesFit, TypeOK, NoReply, Fetching
  <1>8. ASSUME NEW c \in Calls, PostFails(c)
        PROVE  RepliesFit'
    BY <1>8 DEF PostFails, Struck, Settle, CallsFit, RepliesFit, TypeOK, NoReply, Fetching
  <1>9. ASSUME NEW c \in Calls, Abort(c)
        PROVE  RepliesFit'
    BY <1>9 DEF Abort, Watching, Struck, Heeds, Settle, CallsFit, RepliesFit, TypeOK,
           NoReply, Fetching
  <1>10. ASSUME NEW c \in Calls, DeliverCall(c)
        PROVE  RepliesFit'
    BY <1>10 DEF DeliverCall, serverOnly, Server!Register, Server!TurnAway,
           Server!Released, CallsFit, RepliesFit, TypeOK, NoReply, Fetching
  <1>11. ASSUME NEW c \in Calls, NEW s \in {"finished", "failed"}, TaskEnds(c, s)
        PROVE  RepliesFit'
    BY <1>11 DEF TaskEnds, serverOnly, CallsFit, RepliesFit, TypeOK, NoReply, Fetching
  <1>12. ASSUME NEW c \in Calls, Answer(c)
        PROVE  RepliesFit'
    BY <1>12 DEF Answer, AnswerOf, serverOnly, CallsFit, RepliesFit, TypeOK, NoReply,
           Fetching
  <1>13. ASSUME NEW c \in Calls, DeliverGet(c)
        PROVE  RepliesFit'
    <2>1. at[c] # "idle"
      BY <1>13 DEF DeliverGet, CallsFit
    <2>2. reply' = [reply EXCEPT ![c] = <<c, IF owner[id[c]] = NoCall THEN "error" ELSE StatusOf(c)>>]
      BY <1>13, <2>1, PollFindsOwn DEF DeliverGet
    <2>3. UNCHANGED <<id, stage, at, kind>>
      BY <1>13 DEF DeliverGet, serverOnly
    <2>4. QED
      BY <2>2, <2>3 DEF RepliesFit, StatusOf, TypeOK, NoReply
  <1>14. ASSUME NEW c \in Calls, DeliverCancel(c)
        PROVE  RepliesFit'
    BY <1>14 DEF DeliverCancel, CancelTarget, serverOnly, CallsFit, RepliesFit, TypeOK,
           NoReply, Fetching
  <1>15. ASSUME NEW i \in Ids, Release(i)
        PROVE  RepliesFit'
    BY <1>15 DEF Release, serverOnly, CallsFit, RepliesFit, TypeOK, NoReply, Fetching
  <1>16. ASSUME Start \/ Stop
        PROVE  RepliesFit'
    BY <1>16 DEF Start, Stop, CallsFit, RepliesFit, TypeOK, NoReply, Fetching
  <1>17. ASSUME Stopped
        PROVE  RepliesFit'
    BY <1>17 DEF Stopped, Settle, CallsFit, RepliesFit, TypeOK, NoReply, Fetching
  <1>18. CASE UNCHANGED vars
    BY <1>18 DEF vars, CallsFit, RepliesFit, TypeOK, NoReply, Fetching
  <1>19. QED
    BY <1>1, <1>2, <1>3, <1>4, <1>5, <1>6, <1>7, <1>8, <1>9, <1>10, <1>11, <1>12, <1>13,
           <1>14, <1>15, <1>16, <1>17, <1>18 DEF Next, CallStep, ServerStep

\* An id is given to the call that drew it.
LEMMA OwnersStep ==
    ASSUME ClientInv, [Next]_vars
    PROVE  OwnersFit'
  <1> USE DEF ClientInv, transportVars, callVars, serverVars
  <1>1. ASSUME NEW c \in Calls, Fetch(c)
        PROVE  OwnersFit'
    BY <1>1 DEF Fetch, RequestId, Registered, Settle, Effective, CallsFit, RequestsFit,
           OwnersFit, TypeOK, Fetching
  <1>2. ASSUME NEW c \in Calls, Wake(c)
        PROVE  OwnersFit'
    BY <1>2 DEF Wake, PollTimer, PollLimit, Registered, CallsFit, RequestsFit, OwnersFit,
           TypeOK, Fetching
  <1>3. ASSUME NEW c \in Calls, Headers(c)
        PROVE  OwnersFit'
    BY <1>3 DEF Headers, CallsFit, RequestsFit, OwnersFit, TypeOK, Fetching
  <1>4. ASSUME NEW c \in Calls, Body(c)
        PROVE  OwnersFit'
    BY <1>4 DEF Body, Take, Settle, CallsFit, RequestsFit, OwnersFit, TypeOK, Fetching
  <1>5. ASSUME NEW c \in Calls, OnResponse(c)
        PROVE  OwnersFit'
    BY <1>5 DEF OnResponse, Struck, Take, Settle, CallsFit, RequestsFit, OwnersFit,
           TypeOK, Fetching
  <1>6. ASSUME NEW c \in Calls, Timer(c)
        PROVE  OwnersFit'
    BY <1>6 DEF Timer, ExpiryKeys, Struck, Settle, CallsFit, RequestsFit, OwnersFit,
           TypeOK, Fetching
  <1>7. ASSUME NEW c \in Calls, Reset(c)
        PROVE  OwnersFit'
    BY <1>7 DEF Reset, Settle, CallsFit, RequestsFit, OwnersFit, TypeOK, Fetching
  <1>8. ASSUME NEW c \in Calls, PostFails(c)
        PROVE  OwnersFit'
    BY <1>8 DEF PostFails, Struck, Settle, CallsFit, RequestsFit, OwnersFit, TypeOK,
           Fetching
  <1>9. ASSUME NEW c \in Calls, Abort(c)
        PROVE  OwnersFit'
    BY <1>9 DEF Abort, Watching, Struck, Heeds, Settle, CallsFit, RequestsFit, OwnersFit,
           TypeOK, Fetching
  <1>10. ASSUME NEW c \in Calls, DeliverCall(c)
        PROVE  OwnersFit'
    BY <1>10 DEF DeliverCall, serverOnly, Server!Register, Server!TurnAway,
           Server!Released, CallsFit, RequestsFit, OwnersFit, TypeOK, Fetching
  <1>11. ASSUME NEW c \in Calls, NEW s \in {"finished", "failed"}, TaskEnds(c, s)
        PROVE  OwnersFit'
    BY <1>11 DEF TaskEnds, serverOnly, CallsFit, RequestsFit, OwnersFit, TypeOK, Fetching
  <1>12. ASSUME NEW c \in Calls, Answer(c)
        PROVE  OwnersFit'
    BY <1>12 DEF Answer, AnswerOf, serverOnly, CallsFit, RequestsFit, OwnersFit, TypeOK,
           Fetching
  <1>13. ASSUME NEW c \in Calls, DeliverGet(c)
        PROVE  OwnersFit'
    BY <1>13 DEF DeliverGet, StatusOf, serverOnly, CallsFit, RequestsFit, OwnersFit,
           TypeOK, Fetching
  <1>14. ASSUME NEW c \in Calls, DeliverCancel(c)
        PROVE  OwnersFit'
    BY <1>14 DEF DeliverCancel, CancelTarget, serverOnly, CallsFit, RequestsFit,
           OwnersFit, TypeOK, Fetching
  <1>15. ASSUME NEW i \in Ids, Release(i)
        PROVE  OwnersFit'
    BY <1>15 DEF Release, serverOnly, CallsFit, RequestsFit, OwnersFit, TypeOK, Fetching
  <1>16. ASSUME Start \/ Stop
        PROVE  OwnersFit'
    BY <1>16 DEF Start, Stop, CallsFit, RequestsFit, OwnersFit, TypeOK, Fetching
  <1>17. ASSUME Stopped
        PROVE  OwnersFit'
    BY <1>17 DEF Stopped, Settle, CallsFit, RequestsFit, OwnersFit, TypeOK, Fetching
  <1>18. CASE UNCHANGED vars
    BY <1>18 DEF vars, CallsFit, RequestsFit, OwnersFit, TypeOK, Fetching
  <1>19. QED
    BY <1>1, <1>2, <1>3, <1>4, <1>5, <1>6, <1>7, <1>8, <1>9, <1>10, <1>11, <1>12, <1>13,
           <1>14, <1>15, <1>16, <1>17, <1>18 DEF Next, CallStep, ServerStep

\* The armed timer of a mailbox call finds the entry of its fetch.
LEMMA TimerHits ==
    ASSUME ClientInv, NEW c \in Calls, Timer(c)
    PROVE  Fetching(c) /\ pending' = Struck({Ticket(c)}) /\ Settle({c}, "timeout")
  <1>1. Fetching(c)
    BY DEF ClientInv, TimerFollowsFetch, Timer
  <1>2. kind = "mailbox" => pending[Ticket(c)] # NoCall
    BY <1>1, ClientAssumption DEF ClientInv, EntriesFit
  <1>3. QED
    BY <1>1, <1>2 DEF Timer, ExpiryKeys

\* Fetches end, and their entries are struck with them.
LEMMA EndKeepsEntries ==
    ASSUME ClientInv, NEW S, NEW K, pending' = Struck(K), UNCHANGED <<kind, id>>,
           \A c \in Calls : IF c \in S THEN at'[c] \notin {"fetching", "polling"} ELSE at'[c] = at[c],
           \A c \in S \cap Calls : kind = "mailbox" /\ Fetching(c) => Ticket(c) \in K,
           \A k \in K \cap Keys : pending[k] # NoCall => pending[k] \in S
    PROVE  EntriesFit'
  <1>1. \A k \in Keys : pending'[k] = IF k \in K THEN NoCall ELSE pending[k]
    BY DEF Struck
  <1>2. ASSUME NEW k \in Keys, pending'[k] # NoCall
        PROVE  kind' = "mailbox" /\ Fetching(pending[k])' /\ k = Ticket(pending[k])'
    <2>1. /\ pending'[k] = pending[k] /\ pending[k] \in Calls
          /\ kind = "mailbox" /\ Fetching(pending[k]) /\ k = Ticket(pending[k])
      BY <1>1, <1>2 DEF ClientInv, TypeOK, EntriesFit
    <2>2. k \notin K
      BY <1>1, <1>2
    <2>3. pending[k] \notin S
      BY <2>1, <2>2
    <2>4. QED
      BY <2>1, <2>3 DEF Fetching, Ticket
  <1>3. ASSUME NEW c \in Calls, kind' = "mailbox", Fetching(c)'
        PROVE  pending'[Ticket(c)'] = c
    <2>1. c \notin S /\ at'[c] = at[c] /\ Fetching(c) /\ Ticket(c)' = Ticket(c)
      BY <1>3 DEF Fetching, Ticket
    <2>2. pending[Ticket(c)] = c /\ Ticket(c) \in Keys
      BY <1>3, <2>1, ClientAssumption DEF ClientInv, EntriesFit, CallsFit, Ticket, Fetching, Keys
    <2>3. c # NoCall
      BY ClientAssumption
    <2>4. QED
      BY <1>1, <2>1, <2>2, <2>3
  <1>4. QED
    BY <1>2, <1>3 DEF EntriesFit

\* A fetch begins, and is entered under a key nobody else has.
LEMMA BeginKeepsEntries ==
    ASSUME ClientInv, NEW c \in Calls, NEW k \in Keys, ~Fetching(c), Fetching(c)', Ticket(c)' = k,
           pending' = Registered(k, c), UNCHANGED kind,
           \A d \in Calls \ {c} : at'[d] = at[d] /\ id'[d] = id[d] /\ (Fetching(d) => Ticket(d) # k)
    PROVE  EntriesFit'
  <1>1. \A j \in Keys : pending'[j] = IF kind = "mailbox" /\ j = k THEN c ELSE pending[j]
    BY DEF Registered, ClientInv, TypeOK
  <1>2. \A d \in Calls \ {c} : (Fetching(d)' <=> Fetching(d)) /\ Ticket(d)' = Ticket(d)
    BY DEF Fetching, Ticket
  <1>3. \A d \in Calls \ {c} : Fetching(d) => Ticket(d) \in Keys
    BY ClientAssumption DEF ClientInv, CallsFit, Ticket, Fetching, Keys
  <1>4. \A j \in Keys : pending[j] # NoCall =>
            kind = "mailbox" /\ pending[j] \in Calls \ {c} /\ Fetching(pending[j]) /\ j = Ticket(pending[j])
    BY DEF ClientInv, EntriesFit, TypeOK
  <1>5. \A d \in Calls \ {c} : kind = "mailbox" /\ Fetching(d) => pending[Ticket(d)] = d
    BY DEF ClientInv, EntriesFit
  <1>6. ASSUME NEW j \in Keys, pending'[j] # NoCall
        PROVE  kind' = "mailbox" /\ Fetching(pending[j])' /\ j = Ticket(pending[j])'
    <2>1. CASE kind = "mailbox" /\ j = k
      BY <1>1, <2>1 DEF Fetching, Ticket
    <2>2. CASE ~(kind = "mailbox" /\ j = k)
      <3>1. pending'[j] = pending[j]
        BY <1>1, <2>2
      <3>2. PICK d \in Calls \ {c} : pending[j] = d /\ Fetching(d) /\ j = Ticket(d) /\ kind = "mailbox"
        BY <1>4, <1>6, <3>1
      <3>3. Fetching(d)' /\ j = Ticket(d)'
        BY <1>2, <3>2
      <3>4. QED
        BY <3>1, <3>2, <3>3 DEF Fetching, Ticket
    <2>3. QED
      BY <2>1, <2>2
  <1>7. \A d \in Calls : kind' = "mailbox" /\ Fetching(d)' => pending'[Ticket(d)'] = d
    BY <1>1, <1>2, <1>3, <1>5
  <1>8. QED
    BY <1>6, <1>7 DEF EntriesFit

\* Timers, replies, failures and stop() strike the entry of the fetch they end, and no other.
LEMMA EntriesStep ==
    ASSUME ClientInv, [Next]_vars
    PROVE  EntriesFit'
  <1> USE ClientAssumption DEF ClientInv, transportVars, callVars, serverVars
  <1>1. ASSUME NEW c \in Calls, Fetch(c)
        PROVE  EntriesFit'
    <2>1. RequestId(c) = Drawn[c] /\ Drawn[c] \in Keys /\ id'[c] = Drawn[c]
      BY <1>1, ClientAssumption DEF Fetch, RequestId, NothingShared, TypeOK, Keys
    <2>2. \A d \in Calls \ {c} : at'[d] = at[d] /\ id'[d] = id[d]
      BY <1>1 DEF Fetch, Settle, TypeOK
    <2>3. \A d \in Calls \ {c} : Fetching(d) => Ticket(d) # Drawn[c]
      BY ClientAssumption DEF CallsFit, Fetching, Ticket
    <2>4. CASE aborted[c]
      <3>1. at'[c] = "done" /\ at[c] = "idle" /\ UNCHANGED <<kind, pending>>
        BY <1>1, <2>4, SettleIs DEF Fetch
      <3>2. \A d \in Calls : (Fetching(d)' <=> Fetching(d)) /\ (Fetching(d) => d # c /\ Ticket(d)' = Ticket(d))
        BY <2>2, <3>1 DEF Fetching, Ticket
      <3>3. QED
        BY <3>1, <3>2 DEF EntriesFit, TypeOK
    <2>5. CASE ~aborted[c]
      <3>1. at'[c] = "fetching" /\ at[c] = "idle" /\ UNCHANGED kind /\ pending' = Registered(Drawn[c], c)
        BY <1>1, <2>1, <2>5 DEF Fetch, TypeOK
      <3>2. QED
        BY <2>1, <2>2, <2>3, <3>1, BeginKeepsEntries DEF Fetching, Ticket
    <2>6. QED
      BY <2>4, <2>5
  <1>2. ASSUME NEW c \in Calls, Wake(c)
        PROVE  EntriesFit'
    <2>1. /\ at'[c] = "polling" /\ at[c] = "sleeping"
          /\ pending' = Registered(c, c) /\ UNCHANGED <<kind, id>>
      BY <1>2 DEF Wake, TypeOK, transportVars, callVars
    <2>2. \A d \in Calls \ {c} : at'[d] = at[d]
      BY <1>2 DEF Wake, TypeOK
    <2>3. \A d \in Calls \ {c} : Fetching(d) => Ticket(d) # c
      BY ClientAssumption DEF CallsFit, Fetching, Ticket
    <2>4. QED
      BY <2>1, <2>2, <2>3, BeginKeepsEntries DEF Fetching, Ticket, Keys
  <1>3. ASSUME NEW c \in Calls, Headers(c)
        PROVE  EntriesFit'
    BY <1>3 DEF Headers, EntriesFit, CallsFit, RequestsFit, TypeOK, Fetching, Ticket, Keys
  <1>4. ASSUME NEW c \in Calls, Body(c)
        PROVE  EntriesFit'
    BY <1>4 DEF Body, Take, Settle, EntriesFit, CallsFit, RequestsFit, TypeOK, Fetching,
           Ticket, Keys
  <1>5. ASSUME NEW c \in Calls, OnResponse(c)
        PROVE  EntriesFit'
    <2>1. UNCHANGED <<kind, id>>
      BY <1>5 DEF OnResponse, transportVars, callVars
    <2>2. CASE UNCHANGED <<pending, at>>
      BY <2>1, <2>2 DEF EntriesFit, Fetching, Ticket
    <2>3. CASE pending[reply[c][1]] = c /\ pending' = Struck({reply[c][1]}) /\ Take(c, reply[c][2])
      <3> DEFINE K == {reply[c][1]}
      <3>1. \A d \in Calls : IF d \in {c} THEN at'[d] \notin {"fetching", "polling"} ELSE at'[d] = at[d]
        BY <2>3, TakeIs
      <3>2. \A d \in {c} \cap Calls : kind = "mailbox" /\ Fetching(d) => Ticket(d) \in K
        BY <1>5, <2>3, EntryIs, ReplyIs DEF OnResponse
      <3>3. \A k \in K \cap Keys : pending[k] # NoCall => pending[k] \in {c}
        BY <2>3
      <3>4. pending' = Struck(K)
        BY <2>3
      <3> HIDE DEF K
      <3>5. QED
        BY <2>1, <3>1, <3>2, <3>3, <3>4, EndKeepsEntries
    <2>4. QED
      BY <1>5, <2>2, <2>3, ReplyFindsOwn DEF OnResponse
  <1>6. ASSUME NEW c \in Calls, Timer(c)
        PROVE  EntriesFit'
    <2> DEFINE K == {Ticket(c)}
    <2>1. \A d \in Calls : IF d \in {c} THEN at'[d] \notin {"fetching", "polling"} ELSE at'[d] = at[d]
      BY <1>6, TimerHits, SettleIs
    <2>2. Ticket(c) \in {id[c], c} /\ at[c] # "idle" /\ pending' = Struck(K)
      BY <1>6, TimerHits DEF Fetching, Ticket
    <2>3. \A k \in K \cap Keys : pending[k] # NoCall => pending[k] \in {c}
      <3>1. ASSUME NEW k \in K \cap Keys, pending[k] # NoCall
            PROVE  pending[k] = c
        BY <2>2, <3>1, OwnKey DEF TypeOK
      <3>2. QED
        BY <3>1
    <2>4. \A d \in {c} \cap Calls : kind = "mailbox" /\ Fetching(d) => Ticket(d) \in K
      OBVIOUS
    <2>5. UNCHANGED <<kind, id>>
      BY <1>6 DEF Timer, transportVars, callVars
    <2> HIDE DEF K
    <2>6. QED
      BY <2>1, <2>2, <2>3, <2>4, <2>5, EndKeepsEntries
  <1>7. ASSUME NEW c \in Calls, Reset(c)
        PROVE  EntriesFit'
    BY <1>7 DEF Reset, Settle, EntriesFit, CallsFit, RequestsFit, TypeOK, Fetching,
           Ticket, Keys
  <1>8. ASSUME NEW c \in Calls, PostFails(c)
        PROVE  EntriesFit'
    <2> DEFINE k == IF request[c] = "call" THEN id[c] ELSE c
               S == IF Fetching(c) THEN {c} ELSE {}
    <2>1. at[c] # "idle" /\ (Fetching(c) => Ticket(c) = k)
      BY <1>8 DEF PostFails, CallsFit, RequestsFit, Fetching, Ticket, TypeOK
    <2>2. \A d \in Calls : at'[d] = IF d \in S THEN "done" ELSE at[d]
      BY <1>8, SettleIs DEF PostFails
    <2>3. k \in Keys /\ pending[k] # NoCall => pending[k] \in S
      BY <2>1, OwnKey DEF TypeOK
    <2>4. pending' = Struck({k}) /\ UNCHANGED <<kind, id>>
      BY <1>8 DEF PostFails, transportVars, callVars
    <2>5. QED
      BY <2>1, <2>2, <2>3, <2>4, EndKeepsEntries
  <1>9. ASSUME NEW c \in Calls, Abort(c)
        PROVE  EntriesFit'
    BY <1>9 DEF Abort, Watching, Struck, Heeds, Settle, EntriesFit, CallsFit,
           RequestsFit, TypeOK, Fetching, Ticket, Keys
  <1>10. ASSUME NEW c \in Calls, DeliverCall(c)
        PROVE  EntriesFit'
    BY <1>10 DEF DeliverCall, serverOnly, Server!Register, Server!TurnAway,
           Server!Released, EntriesFit, CallsFit, RequestsFit, TypeOK, Fetching, Ticket,
           Keys
  <1>11. ASSUME NEW c \in Calls, NEW s \in {"finished", "failed"}, TaskEnds(c, s)
        PROVE  EntriesFit'
    BY <1>11 DEF TaskEnds, serverOnly, EntriesFit, CallsFit, RequestsFit, TypeOK,
           Fetching, Ticket, Keys
  <1>12. ASSUME NEW c \in Calls, Answer(c)
        PROVE  EntriesFit'
    BY <1>12 DEF Answer, AnswerOf, serverOnly, EntriesFit, CallsFit, RequestsFit, TypeOK,
           Fetching, Ticket, Keys
  <1>13. ASSUME NEW c \in Calls, DeliverGet(c)
        PROVE  EntriesFit'
    BY <1>13 DEF DeliverGet, StatusOf, serverOnly, EntriesFit, CallsFit, RequestsFit,
           TypeOK, Fetching, Ticket, Keys
  <1>14. ASSUME NEW c \in Calls, DeliverCancel(c)
        PROVE  EntriesFit'
    BY <1>14 DEF DeliverCancel, CancelTarget, serverOnly, EntriesFit, CallsFit,
           RequestsFit, TypeOK, Fetching, Ticket, Keys
  <1>15. ASSUME NEW i \in Ids, Release(i)
        PROVE  EntriesFit'
    BY <1>15 DEF Release, serverOnly, EntriesFit, CallsFit, RequestsFit, TypeOK,
           Fetching, Ticket, Keys
  <1>16. ASSUME Start \/ Stop
        PROVE  EntriesFit'
    BY <1>16 DEF Start, Stop, EntriesFit, CallsFit, RequestsFit, TypeOK, Fetching,
           Ticket, Keys
  <1>17. ASSUME Stopped
        PROVE  EntriesFit'
    <2> DEFINE S == {d \in Calls : \E k \in Keys : pending[k] = d}
    <2>1. \A d \in Calls : at'[d] = IF d \in S THEN "done" ELSE at[d]
      BY <1>17, SettleIs DEF Stopped
    <2>2. \A d \in Calls : kind = "mailbox" /\ Fetching(d) => d \in S
      BY ClientAssumption DEF EntriesFit, CallsFit, Fetching, Ticket, Keys
    <2>3. (\A k \in Keys : pending'[k] = NoCall) /\ UNCHANGED <<kind, id>> /\ kind = "mailbox"
      BY <1>17 DEF Stopped, callVars
    <2> HIDE DEF S
    <2>4. QED
      BY <2>1, <2>2, <2>3 DEF EntriesFit, Fetching
  <1>18. CASE UNCHANGED vars
    BY <1>18 DEF vars, EntriesFit, CallsFit, RequestsFit, TypeOK, Fetching, Ticket, Keys
  <1>19. QED
    BY <1>1, <1>2, <1>3, <1>4, <1>5, <1>6, <1>7, <1>8, <1>9, <1>10, <1>11, <1>12, <1>13,
           <1>14, <1>15, <1>16, <1>17, <1>18 DEF Next, CallStep, ServerStep

\* An abort ends the call on whichever side of a reply it comes.
LEMMA AbortsStep ==
    ASSUME ClientInv, [Next]_vars
    PROVE  AbortsFit'
  <1> USE DEF ClientInv, transportVars, callVars, serverVars
  <1>1. ASSUME NEW c \in Calls, Fetch(c)
        PROVE  AbortsFit'
    BY <1>1 DEF Fetch, RequestId, Registered, Settle, Effective, AbortsFit, TypeOK, Fetching
  <1>2. ASSUME NEW c \in Calls, Wake(c)
        PROVE  AbortsFit'
    BY <1>2 DEF Wake, PollTimer, PollLimit, Registered, AbortsFit, TypeOK, Fetching
  <1>3. ASSUME NEW c \in Calls, Headers(c)
        PROVE  AbortsFit'
    BY <1>3 DEF Headers, AbortsFit, TypeOK, Fetching
  <1>4. ASSUME NEW c \in Calls, Body(c)
        PROVE  AbortsFit'
    BY <1>4 DEF Body, Take, Settle, AbortsFit, TypeOK, Fetching
  <1>5. ASSUME NEW c \in Calls, OnResponse(c)
        PROVE  AbortsFit'
    <2>1. \A d \in Calls : at'[d] = at[d] \/ (at[d] \notin {"idle", "done"} /\ d = c)
      BY <1>5, ReplyFindsOwn, TakeIs DEF OnResponse, Fetching
    <2>2. QED
      BY <1>5, <2>1 DEF OnResponse, AbortsFit
  <1>6. ASSUME NEW c \in Calls, Timer(c)
        PROVE  AbortsFit'
    BY <1>6 DEF Timer, ExpiryKeys, Struck, Settle, AbortsFit, TypeOK, Fetching
  <1>7. ASSUME NEW c \in Calls, Reset(c)
        PROVE  AbortsFit'
    BY <1>7 DEF Reset, Settle, AbortsFit, TypeOK, Fetching
  <1>8. ASSUME NEW c \in Calls, PostFails(c)
        PROVE  AbortsFit'
    BY <1>8 DEF PostFails, Struck, Settle, AbortsFit, TypeOK, Fetching
  <1>9. ASSUME NEW c \in Calls, Abort(c)
        PROVE  AbortsFit'
    <2>1. Fetching(c) => kind = "http" \/ pending[Ticket(c)] # NoCall
      BY ClientAssumption DEF EntriesFit, Fetching, TypeOK
    <2>2. Heeds(c) \/ at[c] = "idle"
      BY <1>9, <2>1 DEF Abort, Heeds, Fetching, TypeOK
    <2>3. at'[c] \in {"idle", "done"} /\ \A d \in Calls \ {c} : at'[d] \in {at[d], "done"} /\ aborted'[d] = aborted[d]
      BY <1>9, <2>2, SettleIs DEF Abort, TypeOK
    <2>4. QED
      BY <2>3 DEF AbortsFit
  <1>10. ASSUME NEW c \in Calls, DeliverCall(c)
        PROVE  AbortsFit'
    BY <1>10 DEF DeliverCall, serverOnly, Server!Register, Server!TurnAway,
           Server!Released, AbortsFit, TypeOK, Fetching
  <1>11. ASSUME NEW c \in Calls, NEW s \in {"finished", "failed"}, TaskEnds(c, s)
        PROVE  AbortsFit'
    BY <1>11 DEF TaskEnds, serverOnly, AbortsFit, TypeOK, Fetching
  <1>12. ASSUME NEW c \in Calls, Answer(c)
        PROVE  AbortsFit'
    BY <1>12 DEF Answer, AnswerOf, serverOnly, AbortsFit, TypeOK, Fetching
  <1>13. ASSUME NEW c \in Calls, DeliverGet(c)
        PROVE  AbortsFit'
    BY <1>13 DEF DeliverGet, StatusOf, serverOnly, AbortsFit, TypeOK, Fetching
  <1>14. ASSUME NEW c \in Calls, DeliverCancel(c)
        PROVE  AbortsFit'
    BY <1>14 DEF DeliverCancel, CancelTarget, serverOnly, AbortsFit, TypeOK, Fetching
  <1>15. ASSUME NEW i \in Ids, Release(i)
        PROVE  AbortsFit'
    BY <1>15 DEF Release, serverOnly, AbortsFit, TypeOK, Fetching
  <1>16. ASSUME Start \/ Stop
        PROVE  AbortsFit'
    BY <1>16 DEF Start, Stop, AbortsFit, TypeOK, Fetching
  <1>17. ASSUME Stopped
        PROVE  AbortsFit'
    BY <1>17 DEF Stopped, Settle, AbortsFit, TypeOK, Fetching
  <1>18. CASE UNCHANGED vars
    BY <1>18 DEF vars, AbortsFit, TypeOK, Fetching
  <1>19. QED
    BY <1>1, <1>2, <1>3, <1>4, <1>5, <1>6, <1>7, <1>8, <1>9, <1>10, <1>11, <1>12, <1>13,
           <1>14, <1>15, <1>16, <1>17, <1>18 DEF Next, CallStep, ServerStep

\* The timer is armed with each fetch and disarmed with its end.
LEMMA TimerStep ==
    ASSUME ClientInv, [Next]_vars
    PROVE  TimerFollowsFetch'
  <1> USE DEF ClientInv, transportVars, callVars, serverVars
  <1>1. ASSUME NEW c \in Calls, Fetch(c)
        PROVE  TimerFollowsFetch'
    <2>1. \A d \in Calls \ {c} : at'[d] = at[d] /\ limit'[d] = limit[d] /\ (armed'[d] <=> armed[d])
      BY <1>1, SettleIs DEF Fetch, TypeOK
    <2>2. UNCHANGED kind /\ (armed'[c] <=> at'[c] = "fetching" /\ Arms(limit[c])') /\ at'[c] \in {"fetching", "done"}
      <3>1. CASE aborted[c]
        BY <1>1, <3>1, SettleIs DEF Fetch
      <3>2. CASE ~aborted[c]
        BY <1>1, <3>2 DEF Fetch, Arms, TypeOK
      <3>3. QED
        BY <3>1, <3>2
    <2>3. QED
      BY <2>1, <2>2 DEF TimerFollowsFetch, Fetching, Arms
  <1>2. ASSUME NEW c \in Calls, Wake(c)
        PROVE  TimerFollowsFetch'
    <2>1. at'[c] = "polling" /\ (armed'[c] <=> Arms(limit[c])) /\ UNCHANGED <<kind, limit>>
      BY <1>2 DEF Wake, PollTimer, PollLimit, NothingShared, TypeOK, transportVars, callVars
    <2>2. \A d \in Calls \ {c} : at'[d] = at[d] /\ (armed'[d] <=> armed[d])
      BY <1>2 DEF Wake, PollTimer, TypeOK
    <2>3. QED
      BY <2>1, <2>2 DEF TimerFollowsFetch, Fetching, Arms
  <1>3. ASSUME NEW c \in Calls, Headers(c)
        PROVE  TimerFollowsFetch'
    BY <1>3 DEF Headers, TimerFollowsFetch, TypeOK, Fetching, Arms
  <1>4. ASSUME NEW c \in Calls, Body(c)
        PROVE  TimerFollowsFetch'
    BY <1>4 DEF Body, Take, Settle, TimerFollowsFetch, TypeOK, Fetching, Arms
  <1>5. ASSUME NEW c \in Calls, OnResponse(c)
        PROVE  TimerFollowsFetch'
    <2>1. \A d \in Calls : \/ at'[d] = at[d] /\ (armed'[d] <=> armed[d])
                           \/ at'[d] \in {"sleeping", "done"} /\ ~armed'[d]
      BY <1>5, ReplyFindsOwn, TakeIs DEF OnResponse
    <2>2. UNCHANGED <<kind, limit>>
      BY <1>5 DEF OnResponse, transportVars, callVars
    <2>3. QED
      BY <2>1, <2>2 DEF TimerFollowsFetch, Fetching, Arms
  <1>6. ASSUME NEW c \in Calls, Timer(c)
        PROVE  TimerFollowsFetch'
    <2>1. \A d \in Calls : IF d = c THEN at'[d] = "done" /\ ~armed'[d]
                           ELSE at'[d] = at[d] /\ (armed'[d] <=> armed[d])
      BY <1>6, TimerHits, SettleIs
    <2>2. UNCHANGED <<kind, limit>>
      BY <1>6 DEF Timer, transportVars, callVars
    <2>3. QED
      BY <2>1, <2>2 DEF TimerFollowsFetch, Fetching, Arms
  <1>7. ASSUME NEW c \in Calls, Reset(c)
        PROVE  TimerFollowsFetch'
    BY <1>7 DEF Reset, Settle, TimerFollowsFetch, TypeOK, Fetching, Arms
  <1>8. ASSUME NEW c \in Calls, PostFails(c)
        PROVE  TimerFollowsFetch'
    BY <1>8 DEF PostFails, Struck, Settle, TimerFollowsFetch, TypeOK, Fetching, Arms
  <1>9. ASSUME NEW c \in Calls, Abort(c)
        PROVE  TimerFollowsFetch'
    BY <1>9 DEF Abort, Watching, Struck, Heeds, Settle, TimerFollowsFetch, TypeOK,
           Fetching, Arms
  <1>10. ASSUME NEW c \in Calls, DeliverCall(c)
        PROVE  TimerFollowsFetch'
    BY <1>10 DEF DeliverCall, serverOnly, Server!Register, Server!TurnAway,
           Server!Released, TimerFollowsFetch, TypeOK, Fetching, Arms
  <1>11. ASSUME NEW c \in Calls, NEW s \in {"finished", "failed"}, TaskEnds(c, s)
        PROVE  TimerFollowsFetch'
    BY <1>11 DEF TaskEnds, serverOnly, TimerFollowsFetch, TypeOK, Fetching, Arms
  <1>12. ASSUME NEW c \in Calls, Answer(c)
        PROVE  TimerFollowsFetch'
    BY <1>12 DEF Answer, AnswerOf, serverOnly, TimerFollowsFetch, TypeOK, Fetching, Arms
  <1>13. ASSUME NEW c \in Calls, DeliverGet(c)
        PROVE  TimerFollowsFetch'
    BY <1>13 DEF DeliverGet, StatusOf, serverOnly, TimerFollowsFetch, TypeOK, Fetching, Arms
  <1>14. ASSUME NEW c \in Calls, DeliverCancel(c)
        PROVE  TimerFollowsFetch'
    BY <1>14 DEF DeliverCancel, CancelTarget, serverOnly, TimerFollowsFetch, TypeOK,
           Fetching, Arms
  <1>15. ASSUME NEW i \in Ids, Release(i)
        PROVE  TimerFollowsFetch'
    BY <1>15 DEF Release, serverOnly, TimerFollowsFetch, TypeOK, Fetching, Arms
  <1>16. ASSUME Start \/ Stop
        PROVE  TimerFollowsFetch'
    BY <1>16 DEF Start, Stop, TimerFollowsFetch, TypeOK, Fetching, Arms
  <1>17. ASSUME Stopped
        PROVE  TimerFollowsFetch'
    BY <1>17 DEF Stopped, Settle, TimerFollowsFetch, TypeOK, Fetching, Arms
  <1>18. CASE UNCHANGED vars
    BY <1>18 DEF vars, TimerFollowsFetch, TypeOK, Fetching, Arms
  <1>19. QED
    BY <1>1, <1>2, <1>3, <1>4, <1>5, <1>6, <1>7, <1>8, <1>9, <1>10, <1>11, <1>12, <1>13,
           <1>14, <1>15, <1>16, <1>17, <1>18 DEF Next, CallStep, ServerStep

\* A value that reaches a caller comes from a reply about its own task.
LEMMA ValueStep ==
    ASSUME ClientInv, [Next]_vars
    PROVE  ValueIsEarned'
  <1> USE DEF ClientInv, transportVars, callVars, serverVars
  <1>1. ASSUME NEW c \in Calls, Fetch(c)
        PROVE  ValueIsEarned'
    BY <1>1 DEF Fetch, RequestId, Registered, Settle, Effective, ValueIsEarned,
           RepliesFit, TypeOK, NoReply
  <1>2. ASSUME NEW c \in Calls, Wake(c)
        PROVE  ValueIsEarned'
    BY <1>2 DEF Wake, PollTimer, PollLimit, Registered, ValueIsEarned, RepliesFit,
           TypeOK, NoReply
  <1>3. ASSUME NEW c \in Calls, Headers(c)
        PROVE  ValueIsEarned'
    BY <1>3 DEF Headers, ValueIsEarned, RepliesFit, TypeOK, NoReply
  <1>4. ASSUME NEW c \in Calls, Body(c)
        PROVE  ValueIsEarned'
    BY <1>4 DEF Body, Take, Settle, ValueIsEarned, RepliesFit, TypeOK, NoReply
  <1>5. ASSUME NEW c \in Calls, OnResponse(c)
        PROVE  ValueIsEarned'
    <2>1. \A d \in Calls : outcome'[d] = outcome[d] \/ (d = c /\ outcome'[d] = reply[c][2])
      BY <1>5, ReplyFindsOwn, TakeIs DEF OnResponse
    <2>2. reply[c] # NoReply /\ UNCHANGED stage
      BY <1>5 DEF OnResponse, serverVars
    <2>3. QED
      BY <2>1, <2>2 DEF ValueIsEarned, RepliesFit
  <1>6. ASSUME NEW c \in Calls, Timer(c)
        PROVE  ValueIsEarned'
    BY <1>6 DEF Timer, ExpiryKeys, Struck, Settle, ValueIsEarned, RepliesFit, TypeOK,
           NoReply
  <1>7. ASSUME NEW c \in Calls, Reset(c)
        PROVE  ValueIsEarned'
    BY <1>7 DEF Reset, Settle, ValueIsEarned, RepliesFit, TypeOK, NoReply
  <1>8. ASSUME NEW c \in Calls, PostFails(c)
        PROVE  ValueIsEarned'
    BY <1>8 DEF PostFails, Struck, Settle, ValueIsEarned, RepliesFit, TypeOK, NoReply
  <1>9. ASSUME NEW c \in Calls, Abort(c)
        PROVE  ValueIsEarned'
    BY <1>9 DEF Abort, Watching, Struck, Heeds, Settle, ValueIsEarned, RepliesFit,
           TypeOK, NoReply
  <1>10. ASSUME NEW c \in Calls, DeliverCall(c)
        PROVE  ValueIsEarned'
    BY <1>10 DEF DeliverCall, serverOnly, Server!Register, Server!TurnAway,
           Server!Released, ValueIsEarned, RepliesFit, TypeOK, NoReply
  <1>11. ASSUME NEW c \in Calls, NEW s \in {"finished", "failed"}, TaskEnds(c, s)
        PROVE  ValueIsEarned'
    BY <1>11 DEF TaskEnds, serverOnly, ValueIsEarned, RepliesFit, TypeOK, NoReply
  <1>12. ASSUME NEW c \in Calls, Answer(c)
        PROVE  ValueIsEarned'
    BY <1>12 DEF Answer, AnswerOf, serverOnly, ValueIsEarned, RepliesFit, TypeOK, NoReply
  <1>13. ASSUME NEW c \in Calls, DeliverGet(c)
        PROVE  ValueIsEarned'
    BY <1>13 DEF DeliverGet, StatusOf, serverOnly, ValueIsEarned, RepliesFit, TypeOK,
           NoReply
  <1>14. ASSUME NEW c \in Calls, DeliverCancel(c)
        PROVE  ValueIsEarned'
    BY <1>14 DEF DeliverCancel, CancelTarget, serverOnly, ValueIsEarned, RepliesFit,
           TypeOK, NoReply
  <1>15. ASSUME NEW i \in Ids, Release(i)
        PROVE  ValueIsEarned'
    BY <1>15 DEF Release, serverOnly, ValueIsEarned, RepliesFit, TypeOK, NoReply
  <1>16. ASSUME Start \/ Stop
        PROVE  ValueIsEarned'
    BY <1>16 DEF Start, Stop, ValueIsEarned, RepliesFit, TypeOK, NoReply
  <1>17. ASSUME Stopped
        PROVE  ValueIsEarned'
    BY <1>17 DEF Stopped, Settle, ValueIsEarned, RepliesFit, TypeOK, NoReply
  <1>18. CASE UNCHANGED vars
    BY <1>18 DEF vars, ValueIsEarned, RepliesFit, TypeOK, NoReply
  <1>19. QED
    BY <1>1, <1>2, <1>3, <1>4, <1>5, <1>6, <1>7, <1>8, <1>9, <1>10, <1>11, <1>12, <1>13,
           <1>14, <1>15, <1>16, <1>17, <1>18 DEF Next, CallStep, ServerStep

\* Only a timer answers with a timeout, and it is not armed with a limit of 0.
LEMMA DeadlineStep ==
    ASSUME ClientInv, [Next]_vars
    PROVE  NoDeadlineIsKept'
  <1> USE DEF ClientInv, transportVars, callVars, serverVars
  <1>1. ASSUME NEW c \in Calls, Fetch(c)
        PROVE  NoDeadlineIsKept'
    BY <1>1 DEF Fetch, RequestId, Registered, Settle, Effective, NoDeadlineIsKept,
           TypeOK, NoReply, Bodies
  <1>2. ASSUME NEW c \in Calls, Wake(c)
        PROVE  NoDeadlineIsKept'
    BY <1>2 DEF Wake, PollTimer, PollLimit, Registered, NoDeadlineIsKept, TypeOK,
           NoReply, Bodies
  <1>3. ASSUME NEW c \in Calls, Headers(c)
        PROVE  NoDeadlineIsKept'
    BY <1>3 DEF Headers, NoDeadlineIsKept, TypeOK, NoReply, Bodies
  <1>4. ASSUME NEW c \in Calls, Body(c)
        PROVE  NoDeadlineIsKept'
    BY <1>4 DEF Body, Take, Settle, NoDeadlineIsKept, TypeOK, NoReply, Bodies
  <1>5. ASSUME NEW c \in Calls, OnResponse(c)
        PROVE  NoDeadlineIsKept'
    BY <1>5 DEF OnResponse, Struck, Take, Settle, NoDeadlineIsKept, TypeOK, NoReply, Bodies
  <1>6. ASSUME NEW c \in Calls, Timer(c)
        PROVE  NoDeadlineIsKept'
    <2>1. \A d \in Calls : outcome'[d] = outcome[d] \/ d = c
      BY <1>6, TimerHits, SettleIs
    <2>2. limit[c] # 0 /\ at[c] # "idle" /\ UNCHANGED opt
      BY <1>6 DEF Timer, TimerFollowsFetch, Fetching, Arms, callVars
    <2>3. QED
      BY <2>1, <2>2 DEF NoDeadlineIsKept, CallsFit
  <1>7. ASSUME NEW c \in Calls, Reset(c)
        PROVE  NoDeadlineIsKept'
    BY <1>7 DEF Reset, Settle, NoDeadlineIsKept, TypeOK, NoReply, Bodies
  <1>8. ASSUME NEW c \in Calls, PostFails(c)
        PROVE  NoDeadlineIsKept'
    BY <1>8 DEF PostFails, Struck, Settle, NoDeadlineIsKept, TypeOK, NoReply, Bodies
  <1>9. ASSUME NEW c \in Calls, Abort(c)
        PROVE  NoDeadlineIsKept'
    BY <1>9 DEF Abort, Watching, Struck, Heeds, Settle, NoDeadlineIsKept, TypeOK,
           NoReply, Bodies
  <1>10. ASSUME NEW c \in Calls, DeliverCall(c)
        PROVE  NoDeadlineIsKept'
    BY <1>10 DEF DeliverCall, serverOnly, Server!Register, Server!TurnAway,
           Server!Released, NoDeadlineIsKept, TypeOK, NoReply, Bodies
  <1>11. ASSUME NEW c \in Calls, NEW s \in {"finished", "failed"}, TaskEnds(c, s)
        PROVE  NoDeadlineIsKept'
    BY <1>11 DEF TaskEnds, serverOnly, NoDeadlineIsKept, TypeOK, NoReply, Bodies
  <1>12. ASSUME NEW c \in Calls, Answer(c)
        PROVE  NoDeadlineIsKept'
    BY <1>12 DEF Answer, AnswerOf, serverOnly, NoDeadlineIsKept, TypeOK, NoReply, Bodies
  <1>13. ASSUME NEW c \in Calls, DeliverGet(c)
        PROVE  NoDeadlineIsKept'
    BY <1>13 DEF DeliverGet, StatusOf, serverOnly, NoDeadlineIsKept, TypeOK, NoReply, Bodies
  <1>14. ASSUME NEW c \in Calls, DeliverCancel(c)
        PROVE  NoDeadlineIsKept'
    BY <1>14 DEF DeliverCancel, CancelTarget, serverOnly, NoDeadlineIsKept, TypeOK,
           NoReply, Bodies
  <1>15. ASSUME NEW i \in Ids, Release(i)
        PROVE  NoDeadlineIsKept'
    BY <1>15 DEF Release, serverOnly, NoDeadlineIsKept, TypeOK, NoReply, Bodies
  <1>16. ASSUME Start \/ Stop
        PROVE  NoDeadlineIsKept'
    BY <1>16 DEF Start, Stop, NoDeadlineIsKept, TypeOK, NoReply, Bodies
  <1>17. ASSUME Stopped
        PROVE  NoDeadlineIsKept'
    BY <1>17 DEF Stopped, Settle, NoDeadlineIsKept, TypeOK, NoReply, Bodies
  <1>18. CASE UNCHANGED vars
    BY <1>18 DEF vars, NoDeadlineIsKept, TypeOK, NoReply, Bodies
  <1>19. QED
    BY <1>1, <1>2, <1>3, <1>4, <1>5, <1>6, <1>7, <1>8, <1>9, <1>10, <1>11, <1>12, <1>13,
           <1>14, <1>15, <1>16, <1>17, <1>18 DEF Next, CallStep, ServerStep
-----------------------------------------------------------------------------
(***************************************************************************)
(* The theorems.                                                           *)
(***************************************************************************)
LEMMA ClientInvInit ==
    ASSUME ~SharedDefaults, Init
    PROVE  ClientInv
  <1>1. TypeOK
    <2>1. /\ kind \in Kinds /\ link \in {"off", "on", "closing"}
          /\ pending \in [Keys -> Calls \cup {NoCall}]
          /\ defaultId \in Ids \cup {NoId}
          /\ defaultTimeout \in Nat \cup {Unset}
          /\ opt \in [Calls -> Options]
      BY ClientAssumption DEF Init
    <2>2. /\ id \in [Calls -> Ids \cup {NoId}]
          /\ limit \in [Calls -> Nat \cup {Unset}]
          /\ at \in [Calls -> {"idle", "fetching", "sleeping", "polling", "reading", "done"}]
          /\ armed \in [Calls -> BOOLEAN] /\ aborted \in [Calls -> BOOLEAN]
          /\ outcome \in [Calls -> Outcomes]
      BY DEF Init, Outcomes
    <2>3. /\ request \in [Calls -> {"none", "call", "get"}]
          /\ reply \in [Calls -> (Keys \X Bodies) \cup {NoReply}]
          /\ cancel \in [Calls -> {"none", "sent", "received"}]
          /\ owner \in [Ids -> Calls \cup {NoCall}]
          /\ stage \in [Calls -> {"absent", "running", "finished", "failed", "aborted",
                                  "turnedAway"}]
          /\ awaited \in [Calls -> BOOLEAN]
      BY DEF Init, Server!Init
    <2>4. QED
      BY <2>1, <2>2, <2>3 DEF TypeOK
  <1>2. \A c \in Calls : /\ at[c] = "idle" /\ request[c] = "none" /\ reply[c] = NoReply
                         /\ ~awaited[c] /\ outcome[c] = "none" /\ ~armed[c] /\ ~aborted[c]
    BY DEF Init
  <1>3. NothingShared
    BY DEF Init, NothingShared
  <1>4. CallsFit /\ RequestsFit /\ RepliesFit
    BY <1>2 DEF CallsFit, RequestsFit, RepliesFit
  <1>5. OwnersFit
    BY DEF Init, Server!Init, OwnersFit
  <1>6. EntriesFit
    BY <1>2 DEF Init, EntriesFit, Fetching
  <1>7. AbortsFit /\ TimerFollowsFetch /\ ValueIsEarned /\ NoDeadlineIsKept
    BY <1>2 DEF AbortsFit, TimerFollowsFetch, Fetching, ValueIsEarned, NoDeadlineIsKept
  <1>8. QED
    BY <1>1, <1>3, <1>4, <1>5, <1>6, <1>7 DEF ClientInv

LEMMA ClientInvStep ==
    ASSUME ClientInv, [Next]_vars
    PROVE  ClientInv'
  <1>1. TypeOK' /\ NothingShared' /\ CallsFit' /\ RequestsFit' /\ RepliesFit' /\ OwnersFit'
    BY TypeStep, SharingStep, CallsStep, RequestsStep, RepliesStep, OwnersStep
  <1>2. EntriesFit' /\ AbortsFit' /\ TimerFollowsFetch' /\ ValueIsEarned' /\ NoDeadlineIsKept'
    BY EntriesStep, AbortsStep, TimerStep, ValueStep, DeadlineStep
  <1>3. QED
    BY <1>1, <1>2 DEF ClientInv

\* The inductive invariant: what calls, requests, replies, the mailbox table
\* and the server's ledger know of each other fits together in every state.
THEOREM ClientInvariant ==
    ASSUME ~SharedDefaults
    PROVE  Spec => []ClientInv
  BY ClientInvInit, ClientInvStep, PTL DEF Spec

\* TypeOK: every reachable state of the client is well typed.
THEOREM ClientTypes ==
    ASSUME ~SharedDefaults
    PROVE  Spec => []TypeOK
  <1>1. ClientInv => TypeOK
    BY DEF ClientInv
  <1>2. QED
    BY <1>1, ClientInvariant, PTL

\* A call's keys in the table are those of its outstanding fetch.
LEMMA EntriesAreExact ==
    ASSUME ClientInv
    PROVE  PendingExact
  <1> SUFFICES ASSUME kind = "mailbox", NEW c \in Calls
               PROVE  {k \in Keys : pending[k] = c} = IF Fetching(c) THEN {Ticket(c)} ELSE {}
    BY DEF PendingExact
  <1>1. \A k \in Keys : pending[k] = c => Fetching(c) /\ k = Ticket(c)
    BY EntryIs
  <1>2. Fetching(c) => pending[Ticket(c)] = c /\ Ticket(c) \in Keys
    BY ClientAssumption DEF ClientInv, TypeOK, EntriesFit, CallsFit, Ticket, Fetching, Keys
  <1>3. QED
    BY <1>1, <1>2

\* PendingExact: the mailbox client's table holds exactly the outstanding
\* fetches, however replies, timers, aborts, failures to post and stop() race.
THEOREM TableIsExact ==
    ASSUME ~SharedDefaults
    PROVE  Spec => []PendingExact
  <1>1. ClientInv => PendingExact
    BY EntriesAreExact
  <1>2. QED
    BY <1>1, ClientInvariant, PTL

\* TimerFollowsFetch: the local timer runs exactly while a fetch of a call
\* with a deadline is outstanding.
THEOREM TimerIsForTheFetch ==
    ASSUME ~SharedDefaults
    PROVE  Spec => []TimerFollowsFetch
  <1>1. ClientInv => TimerFollowsFetch
    BY DEF ClientInv
  <1>2. QED
    BY <1>1, ClientInvariant, PTL

\* ValueIsEarned: a caller is given a value only if its own task has finished.
THEOREM ValuesAreEarned ==
    ASSUME ~SharedDefaults
    PROVE  Spec => []ValueIsEarned
  <1>1. ClientInv => ValueIsEarned
    BY DEF ClientInv
  <1>2. QED
    BY <1>1, ClientInvariant, PTL

\* NoDeadlineIsKept: a call that caller or tool declares to have no deadline
\* never times out.
THEOREM NoDeadlineNoTimeout ==
    ASSUME ~SharedDefaults
    PROVE  Spec => []NoDeadlineIsKept
  <1>1. ClientInv => NoDeadlineIsKept
    BY DEF ClientInv
  <1>2. QED
    BY <1>1, ClientInvariant, PTL

\* Only a call that is not aborted, or that sleeps, sends a request.
LEMMA AbortedSendNothing ==
    ASSUME ClientInv, [Next]_vars, NEW d \in Calls, aborted[d]
    PROVE  request'[d] \in {request[d], "none"}
  <1>0. /\ request \in [Calls -> {"none", "call", "get"}]
        /\ at[d] \in {"idle", "done"}
    BY DEF ClientInv, TypeOK, AbortsFit
  <1>1. ASSUME NEW c \in Calls, CallStep(c)
        PROVE  request'[d] \in {request[d], "none"}
    <2>1. CASE Fetch(c)
      BY <1>0, <2>1 DEF Fetch
    <2>2. CASE Wake(c)
      BY <1>0, <2>2 DEF Wake
    <2>3. CASE PostFails(c)
      BY <1>0, <2>3 DEF PostFails
    <2>4. CASE Headers(c) \/ Body(c) \/ OnResponse(c) \/ Timer(c) \/ Reset(c) \/ Abort(c)
      BY <2>4 DEF Headers, Body, OnResponse, Timer, Reset, Abort
    <2>5. QED
      BY <1>1, <2>1, <2>2, <2>3, <2>4 DEF CallStep
  <1>2. ASSUME NEW c \in Calls, ServerStep(c)
        PROVE  request'[d] \in {request[d], "none"}
    BY <1>0, <1>2 DEF ServerStep, DeliverCall, Answer, DeliverGet, DeliverCancel, TaskEnds
  <1>3. CASE (\E i \in Ids : Release(i)) \/ Start \/ Stop \/ Stopped
    BY <1>3 DEF Release, Start, Stop, Stopped
  <1>4. CASE UNCHANGED vars
    BY <1>4 DEF vars
  <1>5. QED
    BY <1>1, <1>2, <1>3, <1>4 DEF Next

\* SilentAfterAbort: after an abort the call sends nothing more.
THEOREM AbortedStaySilent ==
    ASSUME ~SharedDefaults
    PROVE  Spec => SilentAfterAbort
  <1>1. ClientInv /\ [Next]_vars =>
            [\A c \in Calls : aborted[c] => request'[c] \in {request[c], "none"}]_vars
    BY AbortedSendNothing
  <1>2. QED
    BY <1>1, ClientInvariant, PTL DEF Spec, SilentAfterAbort
=============================================================================
