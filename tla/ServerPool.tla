----------------------------- MODULE ServerPool -----------------------------
(***************************************************************************)
(* The life of HTTP server transports: the pool of listening servers that  *)
(* several HttpServerToolTransport instances share (http-server.ts), and   *)
(* the table of routes the manager has given away (server-manager.ts),     *)
(* which start() and stop() keep up to date (server.ts).                   *)
(*                                                                         *)
(* start() has one await, for the server to listen; what comes before and  *)
(* what comes after are one step each.  The continuations of all starts    *)
(* that wait for one server run before any other event (Settled).          *)
(* Addresses are compared by canonical key only, as the code does.  A      *)
(* server is not always found listening at the address it was asked for:   *)
(* port 0 is any port, and only localhost, a unix socket and a host given  *)
(* to bind are listened at themselves; any other host means all of them,   *)
(* http://*:port (http-server.ts:303, socket-address.ts:457-469).          *)
(***************************************************************************)
EXTENDS Naturals, FiniteSets

CONSTANTS
    Instances, NoInstance,
    Servers, NoServer,      \* http.Server objects, each with its HttpBinding
    Addrs, NoAddr,          \* canonical addresses
    Declarable,             \* the addresses transports are configured with
    Observed,               \* where a server asked to listen there may be found
    Routes, Root,           \* prefixes; an instance that claims none has Root
    Managed,                \* instances that are given to registerServer()
    Reregister,             \* may that happen again to a registered one?
    LateClaims,             \* may a registered instance claim more prefixes?
    OverlapStop,            \* may stop() be called while a start() is waiting?
    Rebinds                 \* when may start() name another address?

ASSUME PoolAssumption ==
    /\ IsFiniteSet(Instances)
    /\ NoInstance \notin Instances
    /\ NoServer \notin Servers
    /\ NoAddr \notin Addrs
    /\ Declarable \subseteq Addrs
    /\ Observed \in [Addrs -> SUBSET Addrs]
    /\ Root \in Routes
    /\ Managed \subseteq Instances
    /\ Reregister \in BOOLEAN
    /\ LateClaims \in BOOLEAN
    /\ OverlapStop \in BOOLEAN
    /\ Rebinds \in {"never", "idle", "always"}

VARIABLES
    claims,       \* routeClaims of an instance
    declared,     \* the address its apiUrl and bind options amount to
    bindingKey,   \* bindingKey
    attachedKey,  \* attachedKey
    pool,         \* sharedServers
    state,        \* of a server: not in use, listen() called, listening
    port,         \* the address a listening server really has
    key,          \* HttpBinding.key
    refCount,     \* HttpBinding.refCount
    table,        \* HttpBinding.routes
    fallback,     \* HttpBinding.defaultInstance
    opener,       \* the instance whose start() created a server
    waiting,      \* the other starts that wait for a server
    owned,        \* routeOwnership
    registered    \* serverRegistrations; {} for an instance it does not hold

instanceVars == <<claims, declared, bindingKey, attachedKey>>
serverVars == <<pool, state, port, key, refCount, table, fallback>>
startVars == <<opener, waiting>>
managerVars == <<owned, registered>>
vars == <<instanceVars, serverVars, startVars, managerVars>>

TypeOK ==
    /\ claims \in [Instances -> SUBSET Routes]
    /\ declared \in [Instances -> Addrs]
    /\ bindingKey \in [Instances -> Addrs \cup {NoAddr}]
    /\ attachedKey \in [Instances -> Addrs \cup {NoAddr}]
    /\ pool \in [Addrs -> Servers \cup {NoServer}]
    /\ state \in [Servers -> {"unused", "opening", "open"}]
    /\ port \in [Servers -> Addrs \cup {NoAddr}]
    /\ key \in [Servers -> Addrs \cup {NoAddr}]
    /\ refCount \in [Servers -> 0..Cardinality(Instances)]
    /\ table \in [Servers -> [Routes -> Instances \cup {NoInstance}]]
    /\ fallback \in [Servers -> Instances \cup {NoInstance}]
    /\ opener \in [Servers -> Instances \cup {NoInstance}]
    /\ waiting \subseteq Instances \X Servers
    /\ owned \subseteq Addrs \X Routes
    /\ registered \in [Instances -> SUBSET (Addrs \X Routes)]

Empty == [r \in Routes |-> NoInstance]

Init ==
    /\ claims = [i \in Instances |-> {}]
    /\ declared \in [Instances -> Declarable]
    /\ bindingKey = [i \in Instances |-> NoAddr]
    /\ attachedKey = [i \in Instances |-> NoAddr]
    /\ pool = [a \in Addrs |-> NoServer]
    /\ state = [s \in Servers |-> "unused"]
    /\ port = [s \in Servers |-> NoAddr]
    /\ key = [s \in Servers |-> NoAddr]
    /\ refCount = [s \in Servers |-> 0]
    /\ table = [s \in Servers |-> Empty]
    /\ fallback = [s \in Servers |-> NoInstance]
    /\ opener = [s \in Servers |-> NoInstance]
    /\ waiting = {}
    /\ owned = {}
    /\ registered = [i \in Instances |-> {}]
-----------------------------------------------------------------------------
ListenAddr(i) == IF bindingKey[i] # NoAddr THEN bindingKey[i] ELSE declared[i]
RoutesOf(i) == IF claims[i] = {} THEN {Root} ELSE claims[i]
Entries(i, a) == {a} \X RoutesOf(i)

InFlight(i) == \/ \E s \in Servers : opener[s] = i \/ <<i, s>> \in waiting

\* No start() is left whose server has come up: those go first.
Settled == \A w \in waiting : state[w[2]] = "opening"

\* refreshServerRegistration(i) at address a would throw.
Clashes(i, a) == registered[i] # {} /\ Entries(i, a) \cap (owned \ registered[i]) # {}

\* ... and what it does when it does not; E are the entries i then holds.
Refreshed(i, E) ==
    /\ registered' = IF registered[i] = {} THEN registered ELSE [registered EXCEPT ![i] = E]
    /\ owned' = IF registered[i] = {} THEN owned ELSE (owned \ registered[i]) \cup E

\* Variant: the last one to start takes the route.
TakenNever(i, s) == FALSE

Taken(i, s) == \E r \in RoutesOf(i) : table[s][r] \notin {NoInstance, i}

IsAttached(i) ==
    LET k == bindingKey[i] IN
    /\ k # NoAddr
    /\ attachedKey[i] = k
    /\ pool[k] # NoServer
    /\ \A r \in RoutesOf(i) : table[pool[k]][r] = i
-----------------------------------------------------------------------------
(***************************************************************************)
(* The end of start(), once server s listens under key k.  Either of the   *)
(* two ownership checks may throw; the second one does so with bindingKey  *)
(* already set.  E is what i has registered if one does.                   *)
(***************************************************************************)
RouteTaken(i, s, E) ==
    /\ Taken(i, s)
    /\ Refreshed(i, E)
    /\ UNCHANGED <<bindingKey, attachedKey, refCount, table, fallback>>

RouteRegistered(i, s, k, E) ==
    /\ ~Taken(i, s)
    /\ Clashes(i, k)
    /\ Refreshed(i, E)
    /\ bindingKey' = [bindingKey EXCEPT ![i] = k]
    /\ UNCHANGED <<attachedKey, refCount, table, fallback>>

\* Variant: every start() counts.
CountAlways(i, s, k) == refCount[s] + 1

\* An instance is counted when it comes to s, not when it starts there again.
CountWith(i, s, k) == IF attachedKey[i] = k THEN refCount[s] ELSE refCount[s] + 1

\* Variant: the registration stays at the address it was made for.
EntriesUnmoved(i, k) == registered[i]

EntriesAt(i, k) == Entries(i, k)

Attached(i, s, k) ==
    /\ ~Taken(i, s)
    /\ ~Clashes(i, k)
    /\ Refreshed(i, EntriesAt(i, k))
    /\ bindingKey' = [bindingKey EXCEPT ![i] = k]
    /\ attachedKey' = [attachedKey EXCEPT ![i] = k]
    /\ refCount' = [refCount EXCEPT ![s] = CountWith(i, s, k)]
    /\ table' = [table EXCEPT ![s] = [r \in Routes |-> IF r \in RoutesOf(i) THEN i ELSE @[r]]]
    /\ fallback' = [fallback EXCEPT ![s] = IF @ = NoInstance THEN i ELSE @]

Finish(i, s, k, E) == RouteTaken(i, s, E) \/ RouteRegistered(i, s, k, E) \/ Attached(i, s, k)
-----------------------------------------------------------------------------
\* addRpcHandler(): a prefix may be claimed before or after start().
AddRpcHandler(i, r) ==
    /\ Settled
    /\ r \notin claims[i]
    /\ registered[i] = {} \/ LateClaims
    /\ claims' = [claims EXCEPT ![i] = @ \cup {r}]
    /\ UNCHANGED <<declared, bindingKey, attachedKey, serverVars, startVars, managerVars>>

\* registerServer(), unless it throws for a route that is taken.
RegisterServer(i) ==
    /\ Settled
    /\ i \in Managed
    /\ registered[i] = {} \/ Reregister
    /\ Entries(i, ListenAddr(i)) \cap owned = {}
    /\ owned' = owned \cup Entries(i, ListenAddr(i))
    /\ registered' = [registered EXCEPT ![i] = Entries(i, ListenAddr(i))]
    /\ UNCHANGED <<instanceVars, serverVars, startVars>>

\* What every call of start() begins with; a is the address it asks for.
Begin(i, a) ==
    /\ Settled
    /\ a \in Declarable
    /\ \/ a = declared[i]
       \/ Rebinds = "idle" /\ ~InFlight(i)
       \/ Rebinds = "always"
    /\ ~Clashes(i, ListenAddr(i))
    /\ declared' = [declared EXCEPT ![i] = a]
    /\ UNCHANGED claims

Target(i, a) == IF bindingKey[i] # NoAddr THEN bindingKey[i] ELSE a
Renewed(i) == Refreshed(i, Entries(i, ListenAddr(i)))

StartAgain(i, a) ==
    /\ Begin(i, a)
    /\ IsAttached(i)
    /\ Renewed(i)
    /\ UNCHANGED <<bindingKey, attachedKey, serverVars, startVars>>

StartFirst(i, a) ==
    /\ Begin(i, a)
    /\ ~IsAttached(i)
    /\ pool[Target(i, a)] = NoServer
    /\ Renewed(i)
    /\ \E s \in Servers :
         /\ state[s] = "unused"
         /\ state' = [state EXCEPT ![s] = "opening"]
         /\ key' = [key EXCEPT ![s] = Target(i, a)]
         /\ pool' = [pool EXCEPT ![Target(i, a)] = s]
         /\ opener' = [opener EXCEPT ![s] = i]
    /\ UNCHANGED <<bindingKey, attachedKey, port, refCount, table, fallback, waiting>>

StartWaiting(i, a) ==
    /\ Begin(i, a)
    /\ ~IsAttached(i)
    /\ \E s \in Servers :
         /\ pool[Target(i, a)] = s
         /\ state[s] = "opening"
         /\ waiting' = waiting \cup {<<i, s>>}
    /\ Renewed(i)
    /\ UNCHANGED <<bindingKey, attachedKey, serverVars, opener>>

StartShared(i, a) ==
    /\ Begin(i, a)
    /\ ~IsAttached(i)
    /\ \E s \in Servers :
         /\ pool[Target(i, a)] = s
         /\ state[s] = "open"
         /\ Finish(i, s, key[s], Entries(i, ListenAddr(i)))
    /\ UNCHANGED <<pool, state, port, key, startVars>>

Free(a) == \A s \in Servers : state[s] = "open" => port[s] # a

\* Where it may come to listen; of one address, that depends on the bind
\* options of the start() that created it.
Choices(s) == {a \in Observed[key[s]] : Free(a)}

\* Variant: the pool entry stays where it was declared.
MovedNot(s, a) == pool

Moved(s, a) == IF a = key[s] THEN pool ELSE [pool EXCEPT ![key[s]] = NoServer, ![a] = s]

(***************************************************************************)
(* The server listens.  If that is not the address asked for, the start()  *)
(* that created it moves its pool entry there, over any entry another      *)
(* opening server has, and goes on.                                        *)
(***************************************************************************)
Listening(s, a) ==
    /\ Settled
    /\ state[s] = "opening"
    /\ a \in Choices(s)
    /\ state' = [state EXCEPT ![s] = "open"]
    /\ port' = [port EXCEPT ![s] = a]
    /\ key' = [key EXCEPT ![s] = a]
    /\ pool' = Moved(s, a)
    /\ opener' = [opener EXCEPT ![s] = NoInstance]
    /\ Finish(opener[s], s, a, registered[opener[s]])
    /\ UNCHANGED <<claims, declared, waiting>>

\* EADDRINUSE, or any other error before it listens: whatever the pool has
\* under its key by now is deleted, and every start waiting for it throws.
ListenFails(s) ==
    /\ Settled
    /\ state[s] = "opening"
    /\ state' = [state EXCEPT ![s] = "unused"]
    /\ pool' = [pool EXCEPT ![key[s]] = NoServer]
    /\ key' = [key EXCEPT ![s] = NoAddr]
    /\ opener' = [opener EXCEPT ![s] = NoInstance]
    /\ waiting' = {w \in waiting : w[2] # s}
    /\ UNCHANGED <<instanceVars, port, refCount, table, fallback, managerVars>>

Resume(i, s) ==
    /\ <<i, s>> \in waiting
    /\ state[s] = "open"
    /\ waiting' = waiting \ {<<i, s>>}
    /\ Finish(i, s, key[s], registered[i])
    /\ UNCHANGED <<claims, declared, pool, state, port, key, opener>>
-----------------------------------------------------------------------------
\* Variant: routes are not given back.
DisownedNot(i) == owned

\* unregisterServer
Disowned(i) == owned \ registered[i]

\* stop(): the instance forgets its base and its registration ...
Forget(i) ==
    /\ Settled
    /\ OverlapStop \/ ~InFlight(i)
    /\ bindingKey' = [bindingKey EXCEPT ![i] = NoAddr]
    /\ attachedKey' = [attachedKey EXCEPT ![i] = NoAddr]
    /\ owned' = Disowned(i)
    /\ registered' = [registered EXCEPT ![i] = {}]
    /\ UNCHANGED <<claims, declared, startVars>>

\* Variant: the routes of a stopped instance stay.
WithoutNothing(i, s) == table[s]

Without(i, s) == [r \in Routes |-> IF table[s][r] = i THEN NoInstance ELSE table[s][r]]

\* ... it had none ...
StopIdle(i) ==
    /\ Forget(i)
    /\ pool[ListenAddr(i)] = NoServer
    /\ UNCHANGED serverVars

\* ... or one it was never attached to ...
StopUnattached(i) ==
    /\ Forget(i)
    /\ \E s \in Servers :
         /\ pool[ListenAddr(i)] = s
         /\ attachedKey[i] # key[s]
         /\ table' = [table EXCEPT ![s] = Without(i, s)]
    /\ UNCHANGED <<pool, state, port, key, refCount, fallback>>

\* ... or leaves one that others still use ...
StopShared(i) ==
    /\ Forget(i)
    /\ \E s \in Servers :
         /\ pool[ListenAddr(i)] = s
         /\ attachedKey[i] = key[s]
         /\ refCount[s] > 1
         /\ refCount' = [refCount EXCEPT ![s] = @ - 1]
         /\ table' = [table EXCEPT ![s] = Without(i, s)]
         /\ IF fallback[s] # i THEN UNCHANGED fallback
            ELSE \E j \in Instances \cup {NoInstance} :
                   /\ IF \A r \in Routes : Without(i, s)[r] = NoInstance
                      THEN j = NoInstance
                      ELSE j # NoInstance /\ \E r \in Routes : Without(i, s)[r] = j
                   /\ fallback' = [fallback EXCEPT ![s] = j]
    /\ UNCHANGED <<pool, state, port, key>>

\* Variant: the server is dropped from the pool and never closed.
ClosedNot(s) == state

\* server.close()
Closed(s) == [state EXCEPT ![s] = "unused"]

\* ... or was the last one, and closes the server.
StopLast(i) ==
    /\ Forget(i)
    /\ \E s \in Servers :
         /\ pool[ListenAddr(i)] = s
         /\ attachedKey[i] = key[s]
         /\ refCount[s] <= 1
         /\ pool' = [pool EXCEPT ![key[s]] = NoServer]
         /\ state' = Closed(s)
         /\ port' = [port EXCEPT ![s] = NoAddr]
         /\ key' = [key EXCEPT ![s] = NoAddr]
         /\ refCount' = [refCount EXCEPT ![s] = 0]
         /\ table' = [table EXCEPT ![s] = Empty]
         /\ fallback' = [fallback EXCEPT ![s] = NoInstance]
-----------------------------------------------------------------------------
Start(i, a) == StartAgain(i, a) \/ StartFirst(i, a) \/ StartWaiting(i, a) \/ StartShared(i, a)
Stop(i) == StopIdle(i) \/ StopUnattached(i) \/ StopShared(i) \/ StopLast(i)

Next ==
    \/ \E i \in Instances, r \in Routes : AddRpcHandler(i, r)
    \/ \E i \in Instances : RegisterServer(i) \/ Stop(i)
    \/ \E i \in Instances, a \in Addrs : Start(i, a)
    \/ \E s \in Servers : ListenFails(s) \/ \E a \in Addrs : Listening(s, a)
    \/ \E i \in Instances, s \in Servers : Resume(i, s)

Spec == Init /\ [][Next]_vars
-----------------------------------------------------------------------------
(***************************************************************************)
(* A server's reference count is the number of instances attached to it,   *)
(* however starts and stops overlap: the last stop() closes it, no earlier *)
(* one does.  Like the next three, this is so where no transport is        *)
(* configured with an address another's server may be moved to             *)
(* (http-server.ts:333); server_pool_moved shows what happens elsewhere.   *)
(***************************************************************************)
CountIsAttached ==
    \A s \in Servers : state[s] # "unused" =>
        refCount[s] = Cardinality({i \in Instances : attachedKey[i] = key[s] /\ pool[key[s]] = s})

(***************************************************************************)
(* Every route and the fallback of a server lead to an instance attached   *)
(* to it, and an attached instance is reached by some route of the server  *)
(* in the pool under its address.                                          *)
(***************************************************************************)
RoutesReachAttached ==
    /\ \A s \in Servers, r \in Routes :
          table[s][r] # NoInstance => attachedKey[table[s][r]] = key[s]
    /\ \A s \in Servers :
          fallback[s] = NoInstance <=> refCount[s] = 0
    /\ \A s \in Servers :
          fallback[s] # NoInstance => attachedKey[fallback[s]] = key[s]
    /\ \A i \in Instances : attachedKey[i] # NoAddr =>
          LET s == pool[attachedKey[i]] IN
          s # NoServer /\ state[s] = "open" /\ \E r \in Routes : table[s][r] = i

(***************************************************************************)
(* The last one out turns off the light (transports/README.cn.md:316): a   *)
(* server listens only while an instance is attached to it or a start()    *)
(* waits for it, whatever its count says.                                  *)
(***************************************************************************)
NoOrphan ==
    \A s \in Servers : state[s] = "open" =>
        \E i \in Instances : \/ key[s] # NoAddr /\ attachedKey[i] = key[s]
                             \/ <<i, s>> \in waiting

(***************************************************************************)
(* The pool tells the truth: a listening server is found under the address *)
(* it listens at.                                                          *)
(***************************************************************************)
KeyIsTrue ==
    \A s \in Servers : state[s] = "open" => key[s] = port[s] /\ pool[port[s]] = s

(***************************************************************************)
(* The ownership table holds exactly what the registered instances         *)
(* registered, and no route twice.                                         *)
(***************************************************************************)
OwnershipExact ==
    /\ owned = UNION {registered[i] : i \in Instances}
    /\ \A i, j \in Instances : i # j => registered[i] \cap registered[j] = {}

\* A registered instance that serves is registered where it serves.
RegisteredWhereServing ==
    \A i \in Instances : registered[i] # {} /\ attachedKey[i] # NoAddr =>
        \A e \in registered[i] : e[1] = attachedKey[i]

(***************************************************************************)
(* A route that is being served changes hands only when its instance lets  *)
(* go of it: nobody else's start(), stop() or failure takes it away.       *)
(***************************************************************************)
NoHijack ==
    [][\A s \in Servers, r \in Routes :
         LET i == table[s][r] IN
         i # NoInstance /\ table'[s][r] # i => attachedKey'[i] = NoAddr]_vars

=============================================================================
