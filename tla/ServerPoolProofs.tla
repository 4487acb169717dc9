--------------------------- MODULE ServerPoolProofs ---------------------------
(***************************************************************************)
(* The server pool and the ownership table, for any sets of transports,    *)
(* servers, addresses and routes, however starts and stops overlap, where  *)
(* a server is found listening where it was asked to or at an address no   *)
(* transport is configured with, transports are registered once, and an    *)
(* address is changed only between starts and by transports no manager     *)
(* holds.                                                                  *)
(***************************************************************************)
EXTENDS ServerPool, FiniteSetTheorems, TLAPS

\* The use of the transports the theorems are about.
Orderly ==
    /\ \A a \in Addrs : \A b \in Observed[a] : b = a \/ b \notin Declarable
    /\ ~Reregister
    /\ Rebinds = "never" \/ (Rebinds = "idle" /\ Managed = {})

\* The pool finds every server in use under its key, and a listening one has
\* the key it listens at.
PoolFits ==
    /\ \A a \in Addrs, s \in Servers : pool[a] = s <=> key[s] = a
    /\ \A s \in Servers : state[s] = "unused" <=> key[s] = NoAddr
    /\ \A s \in Servers : state[s] = "open" => key[s] = port[s]

Serves(s, i) == state[s] = "open" /\ attachedKey[i] = key[s]

\* An attached instance remembers the address of a listening server; one that
\* is not remembers none, unless its registration was refused there.
KeysFit ==
    \A i \in Instances :
        /\ declared[i] \in Declarable
        /\ attachedKey[i] = NoAddr =>
            bindingKey[i] = NoAddr \/ (bindingKey[i] = declared[i] /\ Managed # {})
        /\ attachedKey[i] # NoAddr =>
            bindingKey[i] = attachedKey[i] /\ \E s \in Servers : Serves(s, i)

Joins(i, s) == opener[s] = i \/ <<i, s>> \in waiting

\* A start() waits for one server, at the address it asked for or where
\* its server moved; it is attached to no other.
StartsFit ==
    /\ \A s \in Servers : state[s] = "opening" <=> opener[s] # NoInstance
    /\ \A i \in Instances, s \in Servers : Joins(i, s) =>
        /\ state[s] # "unused"
        /\ state[s] = "opening" => key[s] = declared[i] /\ attachedKey[i] = NoAddr
        /\ state[s] = "open" =>
            /\ key[s] = declared[i] \/ key[s] \notin Declarable
            /\ attachedKey[i] \in {NoAddr, key[s]}
        /\ \A t \in Servers : Joins(i, t) => t = s

\* Routes and fallback lead to attached instances, and to each by some route.
TablesFit ==
    /\ \A s \in Servers, r \in Routes : table[s][r] # NoInstance => Serves(s, table[s][r])
    /\ \A s \in Servers : fallback[s] # NoInstance => Serves(s, fallback[s])
    /\ \A s \in Servers, i \in Instances : Serves(s, i) =>
        fallback[s] # NoInstance /\ \E r \in Routes : table[s][r] = i

Users(s) == {i \in Instances : Serves(s, i)}
CountsFit == \A s \in Servers : refCount[s] = Cardinality(Users(s))

\* Only managed instances are registered, at an address a server moved to only
\* while attached there; while a start() waits to join, the routes registered at
\* such an address are in its server's table.
RegistryFits ==
    /\ \A i \in Instances : registered[i] # {} => i \in Managed
    /\ \A i \in Instances : \A e \in registered[i] : e[1] \in Declarable \/ attachedKey[i] = e[1]
    /\ \A w \in waiting, i \in Instances : \A e \in registered[i] :
        state[w[2]] = "open" /\ key[w[2]] = e[1] /\ e[1] \notin Declarable => table[w[2]][e[2]] = i

\* Where nobody is registered, every listening server has somebody attached.
UsersFit ==
    Managed = {} => \A s \in Servers : state[s] = "open" => \E i \in Instances : Serves(s, i)

PoolInv ==
    /\ TypeOK /\ PoolFits /\ KeysFit /\ StartsFit /\ TablesFit /\ CountsFit
    /\ OwnershipExact /\ RegistryFits /\ RegisteredWhereServing /\ UsersFit
-----------------------------------------------------------------------------
(***************************************************************************)
(* Pool, keys and addresses.                                               *)
(***************************************************************************)
LEMMA OneHolder ==
    ASSUME PoolInv, NEW s \in Servers, NEW t \in Servers, key[s] = key[t], key[s] # NoAddr
    PROVE  s = t
  BY DEF PoolInv, TypeOK, PoolFits

\* An attached instance is at the server that the pool has for its address.
LEMMA AttachedIs ==
    ASSUME PoolInv, NEW i \in Instances, attachedKey[i] # NoAddr
    PROVE  /\ ListenAddr(i) = attachedKey[i]
           /\ \E s \in Servers : Serves(s, i) /\ pool[attachedKey[i]] = s
           /\ \A s \in Servers : key[s] = attachedKey[i] => Serves(s, i)
  <1>1. /\ attachedKey[i] \in Addrs
        /\ bindingKey[i] = attachedKey[i]
    BY DEF PoolInv, TypeOK, KeysFit
  <1>2. PICK s \in Servers : Serves(s, i)
    BY DEF PoolInv, KeysFit
  <1>3. key[s] = attachedKey[i] /\ pool[attachedKey[i]] = s
    BY <1>1, <1>2 DEF Serves, PoolInv, PoolFits
  <1>4. ListenAddr(i) = attachedKey[i]
    BY <1>1 DEF ListenAddr
  <1>5. QED
    BY <1>2, <1>3, <1>4, OneHolder

LEMMA ListenAddrType ==
    ASSUME PoolInv, NEW i \in Instances
    PROVE  /\ ListenAddr(i) \in Addrs
           /\ attachedKey[i] = NoAddr => ListenAddr(i) = declared[i]
  BY DEF PoolInv, TypeOK, KeysFit, ListenAddr

\* A start asks for the address of an attached instance, or the one it names;
\* it does not name another while one is under way.
LEMMA BeginIs ==
    ASSUME PoolInv, Orderly, NEW i \in Instances, NEW a \in Addrs, Begin(i, a)
    PROVE  /\ Settled /\ a \in Declarable /\ declared' = [declared EXCEPT ![i] = a]
           /\ Target(i, a) = IF attachedKey[i] = NoAddr THEN a ELSE attachedKey[i]
           /\ Target(i, a) \in Addrs
           /\ a = declared[i] \/ ~InFlight(i)
           /\ \A j \in Instances : attachedKey[j] = NoAddr /\ bindingKey[j] # NoAddr =>
                declared'[j] = declared[j]
  BY DEF PoolInv, TypeOK, KeysFit, Orderly, Begin, Target

\* Where a server comes to listen is nobody else's.
LEMMA ListeningIs ==
    ASSUME PoolInv, Orderly, NEW s \in Servers, NEW a \in Addrs, Listening(s, a)
    PROVE  /\ opener[s] \in Instances /\ attachedKey[opener[s]] = NoAddr
           /\ key[s] = declared[opener[s]] /\ key[s] \in Addrs
           /\ a = key[s] \/ a \notin Declarable
           /\ \A t \in Servers : key[t] = a => t = s
  <1> DEFINE i == opener[s]
  <1>1. state[s] = "opening" /\ a \in Choices(s)
    BY DEF Listening
  <1>2. i \in Instances
    BY <1>1 DEF PoolInv, TypeOK, StartsFit
  <1>3. attachedKey[i] = NoAddr /\ key[s] = declared[i] /\ key[s] \in Addrs
    <2>1. Joins(i, s)
      BY DEF Joins
    <2>2. key[s] \in Addrs
      BY <1>1 DEF PoolInv, TypeOK, PoolFits
    <2>3. QED
      BY <1>1, <1>2, <2>1, <2>2 DEF PoolInv, StartsFit
  <1>4. (a = key[s] \/ a \notin Declarable) /\ Free(a)
    BY <1>1, <1>3 DEF Choices, Orderly
  <1>5. ASSUME NEW t \in Servers, key[t] = a, t # s
        PROVE  FALSE
    <2>1. state[t] = "open" \/ state[t] = "opening"
      BY <1>5, PoolAssumption DEF PoolInv, TypeOK, PoolFits
    <2>2. state[t] # "open"
      BY <1>4, <1>5 DEF Free, PoolInv, PoolFits
    <2>3. opener[t] \in Instances /\ key[t] = declared[opener[t]]
      BY <2>1, <2>2 DEF PoolInv, TypeOK, StartsFit, Joins
    <2>4. a \in Declarable
      BY <1>5, <2>3 DEF PoolInv, KeysFit
    <2>5. a = key[s]
      BY <1>4, <2>4
    <2>6. QED
      BY <1>5, <2>5, <1>3, OneHolder, PoolAssumption
  <1>6. QED
    BY <1>2, <1>3, <1>4, <1>5

LEMMA PoolFrame ==
    ASSUME [Next]_vars,
           \A i \in Instances, a \in Addrs : ~StartFirst(i, a),
           \A i \in Instances : ~StopLast(i),
           \A s \in Servers : ~ListenFails(s) /\ \A a \in Addrs : ~Listening(s, a)
    PROVE  UNCHANGED <<pool, state, port, key>>
  BY DEF Next, vars, serverVars, Start, Stop, AddRpcHandler, RegisterServer, StartAgain,
         StartWaiting, StartShared, StopIdle, StopUnattached, StopShared, Resume

LEMMA PoolStep ==
    ASSUME PoolInv, Orderly, [Next]_vars
    PROVE  PoolFits'
  <1>1. ASSUME NEW i \in Instances, NEW a \in Addrs, StartFirst(i, a)
        PROVE  PoolFits'
    <2> DEFINE b == Target(i, a)
    <2>1. b \in Addrs /\ pool[b] = NoServer
      BY <1>1, BeginIs DEF StartFirst
    <2>2. PICK s \in Servers : /\ state[s] = "unused"
                               /\ state' = [state EXCEPT ![s] = "opening"]
                               /\ key' = [key EXCEPT ![s] = b]
                               /\ pool' = [pool EXCEPT ![b] = s]
      BY <1>1 DEF StartFirst
    <2>3. UNCHANGED port
      BY <1>1 DEF StartFirst
    <2> HIDE DEF b
    <2>4. QED
      BY <2>1, <2>2, <2>3, PoolAssumption DEF PoolInv, TypeOK, PoolFits
  <1>2. ASSUME NEW s \in Servers, NEW a \in Addrs, Listening(s, a)
        PROVE  PoolFits'
    <2>1. (\A t \in Servers : key[t] = a => t = s) /\ key[s] \in Addrs
      BY <1>2, ListeningIs
    <2>2. /\ state' = [state EXCEPT ![s] = "open"]
          /\ port' = [port EXCEPT ![s] = a]
          /\ key' = [key EXCEPT ![s] = a]
          /\ pool' = Moved(s, a)
      BY <1>2 DEF Listening
    <2>3. QED
      BY <2>1, <2>2, PoolAssumption DEF PoolInv, TypeOK, PoolFits, Moved
  <1>3. ASSUME NEW s \in Servers, ListenFails(s)
        PROVE  PoolFits'
    BY <1>3, PoolAssumption DEF ListenFails, PoolInv, TypeOK, PoolFits
  <1>4. ASSUME NEW i \in Instances, StopLast(i)
        PROVE  PoolFits'
    BY <1>4, PoolAssumption DEF StopLast, Closed, PoolInv, TypeOK, PoolFits
  <1>5. CASE UNCHANGED <<pool, state, port, key>>
    BY <1>5 DEF PoolInv, PoolFits
  <1>6. QED
    BY <1>1, <1>2, <1>3, <1>4, <1>5, PoolFrame
-----------------------------------------------------------------------------
(***************************************************************************)
(* What starts and stops come to.                                          *)
(***************************************************************************)
LEMMA StartSharedIs ==
    ASSUME PoolInv, Orderly, NEW i \in Instances, NEW a \in Addrs, StartShared(i, a)
    PROVE  \E s \in Servers :
              /\ state[s] = "open" /\ key[s] \in Addrs /\ pool[key[s]] = s
              /\ attachedKey[i] \in {NoAddr, key[s]}
              /\ attachedKey[i] = NoAddr => key[s] = a
              /\ Finish(i, s, key[s], Entries(i, ListenAddr(i)))
  <1>1. Target(i, a) = (IF attachedKey[i] = NoAddr THEN a ELSE attachedKey[i])
        /\ Target(i, a) \in Addrs
    BY BeginIs DEF StartShared
  <1>2. PICK s \in Servers : /\ pool[Target(i, a)] = s
                             /\ state[s] = "open"
                             /\ Finish(i, s, key[s], Entries(i, ListenAddr(i)))
    BY DEF StartShared
  <1>3. key[s] = Target(i, a)
    BY <1>1, <1>2 DEF PoolInv, PoolFits
  <1>4. QED
    BY <1>1, <1>2, <1>3

LEMMA ResumeIs ==
    ASSUME PoolInv, NEW i \in Instances, NEW s \in Servers, Resume(i, s)
    PROVE  /\ state[s] = "open" /\ key[s] \in Addrs /\ pool[key[s]] = s
           /\ attachedKey[i] \in {NoAddr, key[s]}
           /\ key[s] = declared[i] \/ key[s] \notin Declarable
           /\ \A t \in Servers : Joins(i, t) => t = s
           /\ Finish(i, s, key[s], registered[i])
  <1>1. state[s] = "open" /\ <<i, s>> \in waiting /\ Finish(i, s, key[s], registered[i])
    BY DEF Resume
  <1>2. key[s] \in Addrs /\ pool[key[s]] = s
    BY <1>1 DEF PoolInv, TypeOK, PoolFits
  <1>3. Joins(i, s)
    BY <1>1 DEF Joins
  <1>4. QED
    BY <1>1, <1>2, <1>3 DEF PoolInv, StartsFit

\* A start asks for no server that an attached instance could find.
LEMMA StartingIs ==
    ASSUME PoolInv, Orderly, NEW i \in Instances, NEW a \in Addrs, Begin(i, a),
           pool[Target(i, a)] = NoServer
            \/ \E s \in Servers : pool[Target(i, a)] = s /\ state[s] = "opening"
    PROVE  attachedKey[i] = NoAddr /\ Target(i, a) = a
  <1>1. Target(i, a) = IF attachedKey[i] = NoAddr THEN a ELSE attachedKey[i]
    BY BeginIs
  <1>2. ASSUME attachedKey[i] # NoAddr
        PROVE  FALSE
    <2>1. PICK s \in Servers : Serves(s, i) /\ pool[attachedKey[i]] = s
      BY <1>2, AttachedIs
    <2>2. QED
      BY <1>1, <1>2, <2>1, PoolAssumption DEF Serves
  <1>3. QED
    BY <1>1, <1>2

\* Nobody else is registered where a server has just moved ...
LEMMA ChosenIsClear ==
    ASSUME PoolInv, Orderly, NEW s \in Servers, NEW a \in Addrs \ Declarable, Listening(s, a)
    PROVE  ~Clashes(opener[s], a)
  <1> DEFINE i == opener[s]
  <1> SUFFICES ASSUME Clashes(i, a)
               PROVE  FALSE
    OBVIOUS
  <1>1. a \in Addrs /\ a # NoAddr /\ a \notin Declarable
    BY PoolAssumption
  <1>2. PICK r \in RoutesOf(i) : <<a, r>> \in owned
    BY DEF Clashes, Entries
  <1>3. PICK j \in Instances : <<a, r>> \in registered[j]
    BY <1>2 DEF PoolInv, OwnershipExact
  <1>4. attachedKey[j] = a
    BY <1>1, <1>3 DEF PoolInv, RegistryFits
  <1>5. PICK t \in Servers : Serves(t, j)
    BY <1>1, <1>4, AttachedIs
  <1>6. t = s
    BY <1>1, <1>4, <1>5, ListeningIs DEF Serves
  <1>7. QED
    BY <1>5, <1>6 DEF Serves, Listening

\* ... or, while starts wait to join there, at a route that is not taken.
LEMMA JoinedIsClear ==
    ASSUME PoolInv, Orderly, NEW i \in Instances, NEW s \in Servers, Resume(i, s),
           key[s] \notin Declarable, ~Taken(i, s)
    PROVE  ~Clashes(i, key[s])
  <1> SUFFICES ASSUME Clashes(i, key[s])
               PROVE  FALSE
    OBVIOUS
  <1>1. PICK r \in RoutesOf(i) : <<key[s], r>> \in owned \ registered[i]
    BY DEF Clashes, Entries
  <1>2. PICK j \in Instances : <<key[s], r>> \in registered[j]
    BY <1>1 DEF PoolInv, OwnershipExact
  <1>3. j # i
    BY <1>1, <1>2
  <1>4. table[s][r] = j
    <2> DEFINE w == <<i, s>>
               e == <<key[s], r>>
    <2>1. /\ w \in waiting /\ e \in registered[j] /\ w[2] = s /\ e[1] = key[s] /\ e[2] = r
          /\ state[s] = "open" /\ key[s] \notin Declarable
      BY <1>2 DEF Resume
    <2> HIDE DEF w, e
    <2>2. QED
      BY <2>1 DEF PoolInv, RegistryFits
  <1>5. QED
    BY <1>1, <1>3, <1>4, PoolAssumption DEF Taken

\* Leaving a server.
LEMMA LeavingIs ==
    ASSUME PoolInv, NEW i \in Instances, NEW s \in Servers,
           pool[ListenAddr(i)] = s, attachedKey[i] = key[s]
    PROVE  Serves(s, i) /\ key[s] \in Addrs /\ key[s] # NoAddr
  <1>1. key[s] = ListenAddr(i) /\ key[s] \in Addrs
    BY ListenAddrType DEF PoolInv, PoolFits
  <1>2. QED
    BY <1>1, AttachedIs, PoolAssumption

LEMMA StopAwayIs ==
    ASSUME PoolInv, NEW i \in Instances, StopIdle(i) \/ StopUnattached(i)
    PROVE  attachedKey[i] = NoAddr /\ UNCHANGED serverVars
  <1>1. ASSUME attachedKey[i] # NoAddr
        PROVE  FALSE
    <2>1. PICK s \in Servers : Serves(s, i) /\ pool[ListenAddr(i)] = s
      BY <1>1, AttachedIs
    <2>2. QED
      BY <2>1, PoolAssumption DEF StopIdle, StopUnattached, Serves
  <1>2. CASE StopIdle(i)
    BY <1>1, <1>2 DEF StopIdle
  <1>3. CASE StopUnattached(i)
    <2>1. PICK s \in Servers : table' = [table EXCEPT ![s] = Without(i, s)]
      BY <1>3 DEF StopUnattached
    <2>2. \A r \in Routes : table[s][r] # i
      <3>1. ~Serves(s, i)
        BY <1>1, <1>3 DEF PoolInv, PoolFits, Serves
      <3>2. QED
        BY <3>1, PoolAssumption DEF PoolInv, TablesFit
    <2>3. Without(i, s) = table[s]
      BY <2>2 DEF Without, PoolInv, TypeOK
    <2>4. table' = table
      BY <2>1, <2>3 DEF PoolInv, TypeOK
    <2>5. QED
      BY <1>1, <1>3, <2>4 DEF StopUnattached, serverVars
  <1>4. QED
    BY <1>2, <1>3

LEMMA UsersAreFinite ==
    ASSUME NEW S \in SUBSET Instances
    PROVE  IsFiniteSet(S) /\ Cardinality(S) \in 0..Cardinality(Instances)
  BY PoolAssumption, FS_Subset, FS_CardinalityType

\* The only instance counted is the only one attached.
LEMMA LastIsAlone ==
    ASSUME PoolInv, NEW i \in Instances, NEW s \in Servers, Serves(s, i), refCount[s] <= 1
    PROVE  refCount[s] = 1 /\ \A j \in Instances : Serves(s, j) => j = i
  <1>1. IsFiniteSet(Users(s)) /\ Cardinality(Users(s)) \in Nat
    BY UsersAreFinite, PoolAssumption, FS_CardinalityType DEF Users
  <1>2. i \in Users(s) /\ Cardinality(Users(s)) <= 1
    BY DEF Users, PoolInv, CountsFit
  <1>3. IsFiniteSet(Users(s) \ {i}) /\ Cardinality(Users(s) \ {i}) = Cardinality(Users(s)) - 1
    BY <1>1, <1>2, FS_RemoveElement
  <1>4. Cardinality(Users(s) \ {i}) = 0
    BY <1>1, <1>2, <1>3, FS_CardinalityType
  <1>5. Users(s) \ {i} = {}
    BY <1>3, <1>4, FS_EmptySet
  <1>6. QED
    BY <1>1, <1>2, <1>3, <1>4, <1>5 DEF Users, PoolInv, CountsFit
-----------------------------------------------------------------------------
(***************************************************************************)
(* What instances remember.                                                *)
(***************************************************************************)
OpenStay == \A t \in Servers : state[t] = "open" => state'[t] = "open" /\ key'[t] = key[t]

\* The declared addresses change only between starts, or to no effect.
DeclaredFits ==
    \A j \in Instances :
        /\ declared'[j] \in Declarable
        /\ attachedKey[j] = NoAddr /\ bindingKey[j] # NoAddr => declared'[j] = declared[j]

LEMMA DeclaredStep ==
    ASSUME PoolInv, Orderly, [Next]_vars
    PROVE  DeclaredFits
  <1>1. ASSUME NEW i \in Instances, NEW a \in Addrs, Start(i, a)
        PROVE  DeclaredFits
    <2>1. Begin(i, a)
      BY <1>1 DEF Start, StartAgain, StartFirst, StartWaiting, StartShared
    <2>2. QED
      BY <2>1, BeginIs DEF DeclaredFits, PoolInv, TypeOK, KeysFit
  <1>2. CASE declared' = declared
    BY <1>2 DEF DeclaredFits, PoolInv, KeysFit
  <1>3. QED
    BY <1>1, <1>2 DEF Next, vars, instanceVars, Stop, AddRpcHandler, RegisterServer, StopIdle,
       StopUnattached, StopShared, StopLast, Forget, ListenFails, Listening, Resume

\* An instance that stays attached is still served.
LEMMA ServedStill ==
    ASSUME PoolInv, OpenStay, NEW j \in Instances, attachedKey[j] # NoAddr,
           attachedKey'[j] = attachedKey[j]
    PROVE  \E t \in Servers : Serves(t, j)'
  <1>1. PICK t \in Servers : Serves(t, j)
    BY DEF PoolInv, KeysFit
  <1>2. QED
    BY <1>1 DEF Serves, OpenStay

LEMMA KeysAfterFinish ==
    ASSUME PoolInv, DeclaredFits, OpenStay, NEW i \in Instances, NEW s \in Servers,
           NEW k \in Addrs, NEW E, Finish(i, s, k, E),
           state'[s] = "open", key'[s] = k,
           attachedKey[i] \in {NoAddr, k},
           attachedKey[i] = NoAddr /\ ~Taken(i, s) /\ Clashes(i, k) => k = declared'[i]
    PROVE  KeysFit'
  <1> SUFFICES ASSUME NEW j \in Instances
               PROVE  /\ declared'[j] \in Declarable
                      /\ attachedKey'[j] = NoAddr =>
                           \/ bindingKey'[j] = NoAddr
                           \/ bindingKey'[j] = declared'[j] /\ Managed # {}
                      /\ attachedKey'[j] # NoAddr =>
                           /\ bindingKey'[j] = attachedKey'[j]
                           /\ \E t \in Servers : Serves(t, j)'
    BY DEF KeysFit
  <1>1. declared'[j] \in Declarable
    BY DEF DeclaredFits
  <1>2. CASE bindingKey'[j] = bindingKey[j] /\ attachedKey'[j] = attachedKey[j]
    <2>1. attachedKey[j] # NoAddr => \E t \in Servers : Serves(t, j)'
      BY <1>2, ServedStill
    <2>2. attachedKey[j] # NoAddr => bindingKey[j] = attachedKey[j]
      BY DEF PoolInv, KeysFit
    <2>3. attachedKey[j] = NoAddr =>
            bindingKey[j] = NoAddr \/ (bindingKey[j] = declared'[j] /\ Managed # {})
      BY DEF PoolInv, KeysFit, DeclaredFits
    <2>4. QED
      BY <1>1, <1>2, <2>1, <2>2, <2>3
  <1>3. CASE j = i /\ RouteRegistered(i, s, k, E)
    <2>1. Clashes(i, k) /\ ~Taken(i, s) /\ bindingKey'[i] = k /\ attachedKey' = attachedKey
      BY <1>3 DEF RouteRegistered, PoolInv, TypeOK
    <2>2. Managed # {}
      BY <2>1 DEF Clashes, PoolInv, RegistryFits
    <2>3. attachedKey[i] # NoAddr => \E t \in Servers : Serves(t, i)'
      BY <2>1, ServedStill
    <2>4. QED
      BY <1>1, <1>3, <2>1, <2>2, <2>3
  <1>4. CASE j = i /\ Attached(i, s, k)
    <2>1. bindingKey'[i] = k /\ attachedKey'[i] = k
      BY <1>4 DEF Attached, PoolInv, TypeOK
    <2>2. Serves(s, i)'
      BY <2>1 DEF Serves
    <2>3. QED
      BY <1>1, <1>4, <2>1, <2>2, PoolAssumption
  <1>5. QED
    BY <1>2, <1>3, <1>4 DEF Finish, RouteTaken, RouteRegistered, Attached, PoolInv, TypeOK

LEMMA KeysAfterStop ==
    ASSUME PoolInv, DeclaredFits, NEW i \in Instances, Forget(i),
           \A j \in Instances : j # i /\ attachedKey[j] # NoAddr =>
                \E t \in Servers : Serves(t, j)'
    PROVE  KeysFit'
  BY DEF Forget, PoolInv, TypeOK, KeysFit, DeclaredFits

LEMMA KeysStep ==
    ASSUME PoolInv, Orderly, [Next]_vars
    PROVE  KeysFit'
  <1>1. DeclaredFits
    BY DeclaredStep
  <1>2. CASE UNCHANGED <<bindingKey, attachedKey>> /\ OpenStay
    <2>1. \A j \in Instances : attachedKey[j] # NoAddr => \E t \in Servers : Serves(t, j)'
      BY <1>2, ServedStill
    <2>2. QED
      BY <1>1, <1>2, <2>1 DEF PoolInv, KeysFit, DeclaredFits
  <1>3. ASSUME NEW i \in Instances, NEW a \in Addrs, StartShared(i, a)
        PROVE  KeysFit'
    <2>1. PICK s \in Servers :
              /\ state[s] = "open" /\ key[s] \in Addrs
              /\ attachedKey[i] \in {NoAddr, key[s]}
              /\ attachedKey[i] = NoAddr => key[s] = a
              /\ Finish(i, s, key[s], Entries(i, ListenAddr(i)))
      BY <1>3, StartSharedIs
    <2>2. UNCHANGED <<state, key>> /\ Begin(i, a)
      BY <1>3 DEF StartShared
    <2>3. declared'[i] = a
      BY <2>2 DEF Begin, PoolInv, TypeOK
    <2>4. OpenStay
      BY <2>2 DEF OpenStay
    <2>5. QED
      BY <1>1, <2>1, <2>2, <2>3, <2>4, KeysAfterFinish
  <1>4. ASSUME NEW s \in Servers, NEW a \in Addrs, Listening(s, a)
        PROVE  KeysFit'
    <2> DEFINE i == opener[s]
    <2>1. /\ i \in Instances /\ attachedKey[i] = NoAddr
          /\ a = declared[i] \/ a \notin Declarable
      BY <1>4, ListeningIs
    <2>2. OpenStay
      BY <1>4 DEF Listening, OpenStay, PoolInv, TypeOK
    <2>3. /\ state'[s] = "open" /\ key'[s] = a /\ declared' = declared
          /\ Finish(i, s, a, registered[i])
      BY <1>4 DEF Listening, PoolInv, TypeOK
    <2>4. Clashes(i, a) => a = declared'[i]
      BY <1>4, <2>1, <2>3, ChosenIsClear
    <2> HIDE DEF i
    <2>5. QED
      BY <1>1, <2>1, <2>2, <2>3, <2>4, KeysAfterFinish
  <1>5. ASSUME NEW i \in Instances, NEW s \in Servers, Resume(i, s)
        PROVE  KeysFit'
    <2>1. /\ state[s] = "open" /\ key[s] \in Addrs
          /\ attachedKey[i] \in {NoAddr, key[s]}
          /\ key[s] = declared[i] \/ key[s] \notin Declarable
          /\ Finish(i, s, key[s], registered[i])
      BY <1>5, ResumeIs
    <2>2. UNCHANGED <<state, key, declared>>
      BY <1>5 DEF Resume
    <2>3. OpenStay
      BY <2>2 DEF OpenStay
    <2>4. ~Taken(i, s) /\ Clashes(i, key[s]) => key[s] = declared'[i]
      BY <1>5, <2>1, <2>2, JoinedIsClear
    <2>5. QED
      BY <1>1, <2>1, <2>2, <2>3, <2>4, KeysAfterFinish
  <1>6. ASSUME NEW i \in Instances, StopLast(i)
        PROVE  KeysFit'
    <2>1. PICK s \in Servers : /\ pool[ListenAddr(i)] = s /\ attachedKey[i] = key[s]
                               /\ refCount[s] <= 1
                               /\ state' = Closed(s)
                               /\ key' = [key EXCEPT ![s] = NoAddr]
      BY <1>6 DEF StopLast
    <2>2. Serves(s, i) /\ key[s] \in Addrs
      BY <2>1, LeavingIs
    <2>3. ASSUME NEW j \in Instances, j # i, attachedKey[j] # NoAddr
          PROVE  \E t \in Servers : Serves(t, j)'
      <3>1. PICK t \in Servers : Serves(t, j)
        BY <2>3 DEF PoolInv, KeysFit
      <3>2. t # s
        BY <2>1, <2>2, <2>3, <3>1, LastIsAlone
      <3>3. attachedKey'[j] = attachedKey[j]
        BY <1>6, <2>3 DEF StopLast, Forget, PoolInv, TypeOK
      <3>4. QED
        BY <2>1, <3>1, <3>2, <3>3 DEF Serves, Closed, PoolInv, TypeOK
    <2>4. Forget(i)
      BY <1>6 DEF StopLast
    <2>5. QED
      BY <1>1, <2>3, <2>4, KeysAfterStop
  <1>7. ASSUME NEW i \in Instances, StopIdle(i) \/ StopUnattached(i) \/ StopShared(i)
        PROVE  KeysFit'
    <2>1. Forget(i) /\ UNCHANGED <<state, key>>
      BY <1>7 DEF StopIdle, StopUnattached, StopShared, serverVars
    <2>2. OpenStay
      BY <2>1 DEF OpenStay
    <2>3. ASSUME NEW j \in Instances, j # i, attachedKey[j] # NoAddr
          PROVE  \E t \in Servers : Serves(t, j)'
      BY <2>1, <2>2, <2>3, ServedStill DEF Forget, PoolInv, TypeOK
    <2>4. QED
      BY <1>1, <2>1, <2>3, KeysAfterStop
  <1>8. ASSUME NEW i \in Instances, NEW a \in Addrs,
               StartAgain(i, a) \/ StartFirst(i, a) \/ StartWaiting(i, a)
        PROVE  KeysFit'
    <2>1. UNCHANGED <<bindingKey, attachedKey>>
      BY <1>8 DEF StartAgain, StartFirst, StartWaiting
    <2>2. OpenStay
      BY <1>8 DEF StartAgain, StartFirst, StartWaiting, serverVars, OpenStay, PoolInv, TypeOK
    <2>3. QED
      BY <1>2, <2>1, <2>2
  <1>9. ASSUME NEW s \in Servers, ListenFails(s)
        PROVE  KeysFit'
    BY <1>2, <1>9 DEF ListenFails, instanceVars, OpenStay, PoolInv, TypeOK
  <1>10. CASE UNCHANGED vars \/ \E i \in Instances : RegisterServer(i)
                                                     \/ \E r \in Routes : AddRpcHandler(i, r)
    BY <1>2, <1>10 DEF vars, instanceVars, serverVars, AddRpcHandler, RegisterServer, OpenStay
  <1>11. QED
    BY <1>3, <1>4, <1>5, <1>6, <1>7, <1>8, <1>9, <1>10 DEF Next, Start, Stop
-----------------------------------------------------------------------------
(***************************************************************************)
(* Starts under way.                                                       *)
(***************************************************************************)
\* An instance with a start under way has asked for the same address again.
LEMMA StartsAgreeOnAddress ==
    ASSUME PoolInv, Orderly, NEW i \in Instances, NEW a \in Addrs, Begin(i, a),
           NEW t \in Servers, Joins(i, t)
    PROVE  /\ attachedKey[i] = NoAddr /\ a = declared[i] /\ Target(i, a) = a
           /\ state[t] = "opening" /\ key[t] = a /\ pool[a] = t
  <1>1. state[t] = "opening"
    <2>1. CASE opener[t] = i
      BY <2>1, PoolAssumption DEF PoolInv, StartsFit
    <2>2. CASE <<i, t>> \in waiting
      BY <2>2 DEF Begin, Settled
    <2>3. QED
      BY <2>1, <2>2 DEF Joins
  <1>2. attachedKey[i] = NoAddr /\ key[t] = declared[i]
    BY <1>1 DEF PoolInv, StartsFit
  <1>3. InFlight(i)
    BY DEF InFlight, Joins
  <1>4. a = declared[i] /\ Target(i, a) = a
    BY <1>2, <1>3, BeginIs
  <1>5. QED
    BY <1>1, <1>2, <1>4 DEF PoolInv, PoolFits

\* The starts left wait as before, and nobody who waits has been attached.
StartsKeep ==
    /\ \A s \in Servers : state'[s] = "opening" <=> opener'[s] # NoInstance
    /\ \A j \in Instances, t \in Servers : Joins(j, t)' =>
        /\ Joins(j, t) /\ state'[t] = state[t] /\ key'[t] = key[t]
        /\ declared'[j] = declared[j] /\ attachedKey'[j] \in {attachedKey[j], NoAddr}

LEMMA KeptStartsFit ==
    ASSUME PoolInv, StartsKeep
    PROVE  StartsFit'
  <1>1. ASSUME NEW j \in Instances, NEW t \in Servers, Joins(j, t)'
        PROVE  /\ state'[t] # "unused"
               /\ state'[t] = "opening" => key'[t] = declared'[j] /\ attachedKey'[j] = NoAddr
               /\ state'[t] = "open" =>
                   /\ key'[t] = declared'[j] \/ key'[t] \notin Declarable
                   /\ attachedKey'[j] \in {NoAddr, key'[t]}
               /\ \A u \in Servers : Joins(j, u)' => u = t
    <2>1. /\ Joins(j, t) /\ state'[t] = state[t] /\ key'[t] = key[t]
          /\ declared'[j] = declared[j] /\ attachedKey'[j] \in {attachedKey[j], NoAddr}
      BY <1>1 DEF StartsKeep
    <2>2. \A u \in Servers : Joins(j, u)' => Joins(j, u)
      BY DEF StartsKeep
    <2>3. QED
      BY <2>1, <2>2 DEF PoolInv, StartsFit
  <1>2. QED
    BY <1>1 DEF StartsFit, StartsKeep

\* What a call of start() leaves of the starts under way.
LEMMA StartKeeps ==
    ASSUME PoolInv, Orderly, NEW i \in Instances, NEW a \in Addrs, Begin(i, a),
           \A t \in Servers : ~Joins(i, t),
           UNCHANGED <<state, key, startVars>>,
           \A j \in Instances : j # i => attachedKey'[j] = attachedKey[j]
    PROVE  StartsFit'
  <1>1. \A j \in Instances : j # i => declared'[j] = declared[j]
    BY DEF Begin, PoolInv, TypeOK
  <1>2. StartsKeep
    BY <1>1 DEF StartsKeep, Joins, startVars, PoolInv, StartsFit
  <1>3. QED
    BY <1>2, KeptStartsFit

LEMMA FinishAttaches ==
    ASSUME TypeOK, NEW i \in Instances, NEW s, NEW k, NEW E, Finish(i, s, k, E)
    PROVE  \A j \in Instances : attachedKey'[j] = attachedKey[j] \/ (j = i /\ attachedKey'[j] = k)
  BY DEF TypeOK, Finish, RouteTaken, RouteRegistered, Attached

LEMMA StopKeepsStarts ==
    ASSUME PoolInv, NEW i \in Instances, Forget(i),
           \A s \in Servers : state[s] = "opening" => state'[s] = "opening" /\ key'[s] = key[s],
           \A s \in Servers : state'[s] = "opening" => state[s] = "opening"
    PROVE  StartsFit'
  <1>1. UNCHANGED <<declared, opener, waiting>> /\ Settled
    BY DEF Forget, startVars
  <1>2. ASSUME NEW j \in Instances, NEW t \in Servers, Joins(j, t)
        PROVE  state[t] = "opening"
    BY <1>1, <1>2, PoolAssumption DEF Settled, Joins, PoolInv, StartsFit
  <1>3. \A j \in Instances : attachedKey'[j] \in {attachedKey[j], NoAddr}
    BY DEF Forget, PoolInv, TypeOK
  <1>4. StartsKeep
    BY <1>1, <1>2, <1>3 DEF StartsKeep, Joins, PoolInv, StartsFit
  <1>5. QED
    BY <1>4, KeptStartsFit

LEMMA StartsStep ==
    ASSUME PoolInv, Orderly, [Next]_vars
    PROVE  StartsFit'
  <1>1. ASSUME NEW i \in Instances, NEW a \in Addrs, StartAgain(i, a)
        PROVE  StartsFit'
    <2>1. Begin(i, a) /\ attachedKey[i] # NoAddr /\ UNCHANGED <<attachedKey, state, key, startVars>>
      BY <1>1 DEF StartAgain, IsAttached, serverVars
    <2>2. \A t \in Servers : ~Joins(i, t)
      BY <2>1, StartsAgreeOnAddress
    <2>3. QED
      BY <2>1, <2>2, StartKeeps
  <1>2. ASSUME NEW i \in Instances, NEW a \in Addrs, StartShared(i, a)
        PROVE  StartsFit'
    <2>1. PICK s \in Servers :
              /\ state[s] = "open" /\ pool[key[s]] = s
              /\ attachedKey[i] = NoAddr => key[s] = a
              /\ Finish(i, s, key[s], Entries(i, ListenAddr(i)))
      BY <1>2, StartSharedIs
    <2>2. Begin(i, a) /\ UNCHANGED <<state, key, startVars>>
      BY <1>2 DEF StartShared
    <2>3. \A t \in Servers : ~Joins(i, t)
      BY <2>1, <2>2, StartsAgreeOnAddress
    <2>4. \A j \in Instances : j # i => attachedKey'[j] = attachedKey[j]
      BY <2>1, FinishAttaches DEF PoolInv
    <2>5. QED
      BY <2>2, <2>3, <2>4, StartKeeps
  <1>3. ASSUME NEW i \in Instances, NEW a \in Addrs, StartFirst(i, a)
        PROVE  StartsFit'
    <2>1. Begin(i, a) /\ pool[Target(i, a)] = NoServer
          /\ UNCHANGED <<attachedKey, waiting>>
      BY <1>3 DEF StartFirst
    <2>2. attachedKey[i] = NoAddr /\ Target(i, a) = a
      BY <2>1, StartingIs
    <2>3. \A t \in Servers : ~Joins(i, t)
      BY <2>1, <2>2, StartsAgreeOnAddress, PoolAssumption
    <2>4. PICK s \in Servers : /\ state[s] = "unused"
                               /\ state' = [state EXCEPT ![s] = "opening"]
                               /\ key' = [key EXCEPT ![s] = a]
                               /\ opener' = [opener EXCEPT ![s] = i]
      BY <1>3, <2>2 DEF StartFirst
    <2>5. declared'[i] = a /\ \A j \in Instances : j # i => declared'[j] = declared[j]
      BY <2>1 DEF Begin, PoolInv, TypeOK
    <2>6. \A j \in Instances : ~Joins(j, s)
      BY <2>4 DEF PoolInv, StartsFit
    <2>7. \A j \in Instances, t \in Servers :
            Joins(j, t)' <=> Joins(j, t) \/ (j = i /\ t = s)
      BY <2>1, <2>4, <2>6 DEF Joins, PoolInv, TypeOK
    <2>8. \A t \in Servers : t # s => state'[t] = state[t] /\ key'[t] = key[t]
                                      /\ opener'[t] = opener[t]
      BY <2>4 DEF PoolInv, TypeOK
    <2>9. state'[s] = "opening" /\ key'[s] = a /\ opener'[s] = i
      BY <2>4 DEF PoolInv, TypeOK
    <2>10. ASSUME NEW j \in Instances, NEW t \in Servers, Joins(j, t)'
           PROVE  /\ state'[t] # "unused"
                  /\ state'[t] = "opening" => key'[t] = declared'[j] /\ attachedKey'[j] = NoAddr
                  /\ state'[t] = "open" =>
                      /\ key'[t] = declared'[j] \/ key'[t] \notin Declarable
                      /\ attachedKey'[j] \in {NoAddr, key'[t]}
                  /\ \A u \in Servers : Joins(j, u)' => u = t
      <3>1. CASE j = i
        BY <2>1, <2>2, <2>3, <2>5, <2>7, <2>9, <2>10, <3>1
      <3>2. CASE j # i
        <4>1. Joins(j, t) /\ t # s
          BY <2>6, <2>7, <2>10, <3>2
        <4>2. QED
          BY <2>1, <2>5, <2>7, <2>8, <3>2, <4>1 DEF PoolInv, StartsFit
      <3>3. QED
        BY <3>1, <3>2
    <2>11. \A t \in Servers : state'[t] = "opening" <=> opener'[t] # NoInstance
      BY <2>8, <2>9, PoolAssumption DEF PoolInv, StartsFit
    <2>12. QED
      BY <2>10, <2>11 DEF StartsFit
  <1>4. ASSUME NEW i \in Instances, NEW a \in Addrs, StartWaiting(i, a)
        PROVE  StartsFit'
    <2>1. Begin(i, a) /\ UNCHANGED <<attachedKey, state, key, opener>>
      BY <1>4 DEF StartWaiting, serverVars
    <2>2. PICK s \in Servers : /\ pool[Target(i, a)] = s
                               /\ state[s] = "opening"
                               /\ waiting' = waiting \cup {<<i, s>>}
      BY <1>4 DEF StartWaiting
    <2>3. attachedKey[i] = NoAddr /\ Target(i, a) = a /\ key[s] = a
      BY <2>1, <2>2, StartingIs DEF PoolInv, PoolFits
    <2>4. \A t \in Servers : Joins(i, t) => t = s /\ a = declared[i]
      BY <2>1, <2>2, <2>3, StartsAgreeOnAddress
    <2>5. declared'[i] = a /\ \A j \in Instances : j # i => declared'[j] = declared[j]
      BY <2>1 DEF Begin, PoolInv, TypeOK
    <2>6. \A j \in Instances, t \in Servers :
            Joins(j, t)' <=> Joins(j, t) \/ (j = i /\ t = s)
      BY <2>1, <2>2 DEF Joins
    <2>7. ASSUME NEW j \in Instances, NEW t \in Servers, Joins(j, t)'
          PROVE  /\ state[t] # "unused"
                 /\ state[t] = "opening" => key[t] = declared'[j] /\ attachedKey[j] = NoAddr
                 /\ state[t] = "open" =>
                     /\ key[t] = declared'[j] \/ key[t] \notin Declarable
                     /\ attachedKey[j] \in {NoAddr, key[t]}
                 /\ \A u \in Servers : Joins(j, u)' => u = t
      <3>1. CASE j = i
        BY <2>2, <2>3, <2>4, <2>5, <2>6, <2>7, <3>1
      <3>2. CASE j # i
        BY <2>5, <2>6, <2>7, <3>2 DEF PoolInv, StartsFit
      <3>3. QED
        BY <3>1, <3>2
    <2>8. QED
      BY <2>1, <2>7 DEF StartsFit, PoolInv
  <1>5. ASSUME NEW s \in Servers, NEW a \in Addrs, Listening(s, a)
        PROVE  StartsFit'
    <2> DEFINE i == opener[s]
    <2>1. /\ i \in Instances /\ attachedKey[i] = NoAddr
          /\ a = key[s] \/ a \notin Declarable
          /\ key[s] = declared[i]
      BY <1>5, ListeningIs
    <2>2. /\ state[s] = "opening" /\ Settled
          /\ state' = [state EXCEPT ![s] = "open"]
          /\ key' = [key EXCEPT ![s] = a]
          /\ opener' = [opener EXCEPT ![s] = NoInstance]
          /\ UNCHANGED <<declared, waiting>>
          /\ Finish(i, s, a, registered[i])
      BY <1>5 DEF Listening
    <2>3. i \in Instances /\ Joins(i, s)
      BY <1>5, ListeningIs DEF Joins
    <2> HIDE DEF i
    <2>4. \A j \in Instances : attachedKey'[j] = attachedKey[j] \/ (j = i /\ attachedKey'[j] = a)
      BY <2>2, <2>3, FinishAttaches DEF PoolInv
    <2>5. /\ state'[s] = "open" /\ key'[s] = a /\ opener'[s] = NoInstance
          /\ \A t \in Servers : t # s => state'[t] = state[t] /\ key'[t] = key[t]
                                         /\ opener'[t] = opener[t]
      BY <2>2 DEF PoolInv, TypeOK
    <2>6. \A j \in Instances, t \in Servers : Joins(j, t)' => Joins(j, t)
      BY <2>2, <2>5, PoolAssumption DEF Joins
    <2>7. ASSUME NEW j \in Instances, NEW t \in Servers, Joins(j, t)
          PROVE  /\ state[t] = "opening" /\ key[t] = declared[j] /\ attachedKey[j] = NoAddr
                 /\ \A u \in Servers : Joins(j, u) => u = t
      <3>1. state[t] = "opening"
        BY <2>2, <2>7, PoolAssumption DEF Settled, Joins, PoolInv, StartsFit
      <3>2. QED
        BY <2>7, <3>1 DEF PoolInv, StartsFit
    <2>8. ASSUME NEW j \in Instances, NEW t \in Servers, Joins(j, t)'
          PROVE  /\ state'[t] # "unused"
                 /\ state'[t] = "opening" => key'[t] = declared'[j] /\ attachedKey'[j] = NoAddr
                 /\ state'[t] = "open" =>
                     /\ key'[t] = declared'[j] \/ key'[t] \notin Declarable
                     /\ attachedKey'[j] \in {NoAddr, key'[t]}
                 /\ \A u \in Servers : Joins(j, u)' => u = t
      <3>1. /\ Joins(j, t) /\ state[t] = "opening" /\ key[t] = declared[j]
            /\ attachedKey[j] = NoAddr
            /\ \A u \in Servers : Joins(j, u) => u = t
        BY <2>6, <2>7, <2>8
      <3>2. CASE t = s
        BY <2>1, <2>2, <2>4, <2>5, <2>6, <3>1, <3>2
      <3>3. CASE t # s
        <4>1. j # i
          BY <2>3, <3>1, <3>3
        <4>2. QED
          BY <2>2, <2>4, <2>5, <2>6, <3>1, <3>3, <4>1
      <3>4. QED
        BY <3>2, <3>3
    <2>9. \A t \in Servers : state'[t] = "opening" <=> opener'[t] # NoInstance
      BY <2>5 DEF PoolInv, StartsFit
    <2>10. QED
      BY <2>8, <2>9 DEF StartsFit
  <1>6. ASSUME NEW i \in Instances, NEW s \in Servers, Resume(i, s)
        PROVE  StartsFit'
    <2>1. /\ state[s] = "open"
          /\ \A t \in Servers : Joins(i, t) => t = s
          /\ Finish(i, s, key[s], registered[i])
      BY <1>6, ResumeIs
    <2>2. UNCHANGED <<state, key, declared, opener>> /\ waiting' = waiting \ {<<i, s>>}
      BY <1>6 DEF Resume
    <2>3. \A t \in Servers : ~Joins(i, t)'
      BY <2>1, <2>2, PoolAssumption DEF Joins, PoolInv, StartsFit
    <2>4. \A j \in Instances : j # i => attachedKey'[j] = attachedKey[j]
      BY <2>1, FinishAttaches DEF PoolInv
    <2>5. StartsKeep
      BY <2>2, <2>3, <2>4 DEF StartsKeep, Joins, PoolInv, StartsFit
    <2>6. QED
      BY <2>5, KeptStartsFit
  <1>7. ASSUME NEW s \in Servers, ListenFails(s)
        PROVE  StartsFit'
    <2>1. /\ UNCHANGED <<declared, attachedKey>>
          /\ waiting' = {w \in waiting : w[2] # s}
          /\ state'[s] = "unused" /\ opener'[s] = NoInstance
          /\ \A t \in Servers : t # s => state'[t] = state[t] /\ key'[t] = key[t]
                                         /\ opener'[t] = opener[t]
      BY <1>7 DEF ListenFails, instanceVars, PoolInv, TypeOK
    <2>2. \A j \in Instances, t \in Servers : Joins(j, t)' => Joins(j, t) /\ t # s
      BY <2>1, PoolAssumption DEF Joins
    <2>3. StartsKeep
      BY <2>1, <2>2 DEF StartsKeep, PoolInv, StartsFit
    <2>4. QED
      BY <2>3, KeptStartsFit
  <1>8. ASSUME NEW i \in Instances, StopLast(i)
        PROVE  StartsFit'
    <2>1. PICK s \in Servers : /\ pool[ListenAddr(i)] = s /\ attachedKey[i] = key[s]
                               /\ state' = Closed(s)
                               /\ key' = [key EXCEPT ![s] = NoAddr]
      BY <1>8 DEF StopLast
    <2>2. state[s] = "open"
      BY <2>1, LeavingIs DEF Serves
    <2>3. Forget(i)
      BY <1>8 DEF StopLast
    <2>4. \A t \in Servers : /\ state[t] = "opening" => state'[t] = "opening" /\ key'[t] = key[t]
                             /\ state'[t] = "opening" => state[t] = "opening"
      BY <2>1, <2>2 DEF Closed, PoolInv, TypeOK
    <2>5. QED
      BY <2>3, <2>4, StopKeepsStarts
  <1>9. ASSUME NEW i \in Instances, StopIdle(i) \/ StopUnattached(i) \/ StopShared(i)
        PROVE  StartsFit'
    <2>1. Forget(i) /\ UNCHANGED <<state, key>>
      BY <1>9 DEF StopIdle, StopUnattached, StopShared, serverVars
    <2>2. QED
      BY <2>1, StopKeepsStarts
  <1>10. CASE UNCHANGED vars \/ \E i \in Instances : RegisterServer(i)
                                                     \/ \E r \in Routes : AddRpcHandler(i, r)
    <2>1. UNCHANGED <<declared, attachedKey, state, key, opener, waiting>>
      BY <1>10 DEF vars, instanceVars, serverVars, startVars, AddRpcHandler, RegisterServer
    <2>2. StartsKeep
      BY <2>1 DEF StartsKeep, Joins, PoolInv, StartsFit
    <2>3. QED
      BY <2>2, KeptStartsFit
  <1>11. QED
    BY <1>1, <1>2, <1>3, <1>4, <1>5, <1>6, <1>7, <1>8, <1>9, <1>10 DEF Next, Start, Stop
-----------------------------------------------------------------------------
(***************************************************************************)
(* Every step has an instance come to a server or be refused there, has    *)
(* one leave, or leaves all as it is.                                      *)
(***************************************************************************)
Refused == UNCHANGED <<attachedKey, refCount, table, fallback>>

Comes(i, s) ==
    /\ state'[s] = "open" /\ key'[s] \in Addrs
    /\ attachedKey[i] \in {NoAddr, key'[s]} /\ (attachedKey[i] = key'[s] <=> Serves(s, i))
    /\ \A t \in Servers : t # s => state'[t] = state[t]
    /\ \/ /\ Attached(i, s, key'[s])
          /\ \A t \in Servers, j \in Instances : Serves(t, j)' <=> Serves(t, j) \/ (t = s /\ j = i)
       \/ /\ Refused
          /\ Taken(i, s) \/ \E a \in Addrs : Clashes(i, a)
          /\ \A t \in Servers, j \in Instances : Serves(t, j)' <=> Serves(t, j)

Goes(i, s) ==
    /\ Serves(s, i)
    /\ attachedKey' = [attachedKey EXCEPT ![i] = NoAddr]
    /\ refCount' = [refCount EXCEPT ![s] = @ - 1]
    /\ table' = [table EXCEPT ![s] = Without(i, s)]
    /\ \A t \in Servers : t # s => fallback'[t] = fallback[t] /\ state'[t] = state[t]
    /\ fallback'[s] # NoInstance => Serves(s, fallback[s])'
    /\ fallback'[s] = NoInstance => \A j \in Instances : ~Serves(s, j)'
    /\ state'[s] = "open" => \E j \in Instances : Serves(s, j)'
    /\ \A t \in Servers, j \in Instances : Serves(t, j)' <=> Serves(t, j) /\ j # i

Stays ==
    /\ UNCHANGED <<attachedKey, refCount, table, fallback>>
    /\ \A t \in Servers : state'[t] = "open" <=> state[t] = "open"
    /\ \A t \in Servers, j \in Instances : Serves(t, j)' <=> Serves(t, j)

LEMMA FinishComes ==
    ASSUME PoolInv, NEW i \in Instances, NEW s \in Servers, NEW k \in Addrs, NEW E,
           Finish(i, s, k, E), state'[s] = "open", key'[s] = k,
           \A t \in Servers : t # s => state'[t] = state[t] /\ key'[t] = key[t],
           attachedKey[i] \in {NoAddr, k},
           \A t \in Servers : key[t] = k => t = s,
           \A j \in Instances : attachedKey[j] = k <=> Serves(s, j)
    PROVE  Comes(i, s)
  <1>1. k # NoAddr
    BY PoolAssumption
  <1>2. CASE Attached(i, s, k)
    <2>1. \A j \in Instances : attachedKey'[j] = IF j = i THEN k ELSE attachedKey[j]
      BY <1>2 DEF Attached, PoolInv, TypeOK
    <2>2. \A j \in Instances : Serves(s, j)' <=> Serves(s, j) \/ j = i
      BY <2>1 DEF Serves
    <2>3. ASSUME NEW t \in Servers, t # s, NEW j \in Instances
          PROVE  Serves(t, j)' <=> Serves(t, j)
      <3>1. CASE j # i
        BY <2>1, <2>3, <3>1 DEF Serves
      <3>2. CASE j = i
        BY <1>1, <2>1, <2>3, <3>2 DEF Serves, PoolInv, PoolFits
      <3>3. QED
        BY <3>1, <3>2
    <2>4. QED
      BY <1>1, <1>2, <2>2, <2>3 DEF Comes
  <1>3. CASE RouteTaken(i, s, E) \/ RouteRegistered(i, s, k, E)
    <2>1. Refused /\ (Taken(i, s) \/ \E a \in Addrs : Clashes(i, a))
      BY <1>3 DEF RouteTaken, RouteRegistered, Refused
    <2>2. \A t \in Servers, j \in Instances : Serves(t, j)' <=> Serves(t, j)
      BY <2>1 DEF Refused, Serves
    <2>3. QED
      BY <1>1, <2>1, <2>2 DEF Comes
  <1>4. QED
    BY <1>2, <1>3 DEF Finish

LEMMA StartSharedComes ==
    ASSUME PoolInv, Orderly, NEW i \in Instances, NEW a \in Addrs, StartShared(i, a)
    PROVE  \E s \in Servers : Comes(i, s)
  <1>1. PICK s \in Servers : /\ state[s] = "open" /\ key[s] \in Addrs
                             /\ attachedKey[i] \in {NoAddr, key[s]}
                             /\ Finish(i, s, key[s], Entries(i, ListenAddr(i)))
    BY StartSharedIs
  <1>2. UNCHANGED <<state, key>>
    BY DEF StartShared
  <1>3. \A t \in Servers : key[t] = key[s] => t = s
    BY <1>1, OneHolder, PoolAssumption
  <1>4. \A j \in Instances : attachedKey[j] = key[s] <=> Serves(s, j)
    BY <1>1 DEF Serves
  <1>5. QED
    BY <1>1, <1>2, <1>3, <1>4, FinishComes

LEMMA ListeningComes ==
    ASSUME PoolInv, Orderly, NEW s \in Servers, NEW a \in Addrs, Listening(s, a)
    PROVE  opener[s] \in Instances /\ Comes(opener[s], s)
  <1> DEFINE i == opener[s]
  <1>1. /\ i \in Instances /\ attachedKey[i] = NoAddr
        /\ \A t \in Servers : key[t] = a => t = s
    BY ListeningIs
  <1>2. /\ state[s] = "opening"
        /\ state' = [state EXCEPT ![s] = "open"]
        /\ key' = [key EXCEPT ![s] = a]
        /\ Finish(i, s, a, registered[i])
    BY DEF Listening
  <1>3. /\ state'[s] = "open" /\ key'[s] = a
        /\ \A t \in Servers : t # s => state'[t] = state[t] /\ key'[t] = key[t]
    BY <1>2 DEF PoolInv, TypeOK
  <1>4. ASSUME NEW j \in Instances, attachedKey[j] = a
        PROVE  FALSE
    <2>1. PICK t \in Servers : Serves(t, j)
      BY <1>4, AttachedIs, PoolAssumption
    <2>2. QED
      BY <1>1, <1>2, <1>4, <2>1 DEF Serves
  <1>5. \A j \in Instances : attachedKey[j] = a <=> Serves(s, j)
    BY <1>2, <1>4 DEF Serves
  <1> HIDE DEF i
  <1>6. Comes(i, s)
    BY <1>1, <1>2, <1>3, <1>5, FinishComes
  <1>7. QED
    BY <1>1, <1>6 DEF i

LEMMA ResumeComes ==
    ASSUME PoolInv, NEW i \in Instances, NEW s \in Servers, Resume(i, s)
    PROVE  Comes(i, s)
  <1>1. /\ state[s] = "open" /\ key[s] \in Addrs
        /\ attachedKey[i] \in {NoAddr, key[s]}
        /\ Finish(i, s, key[s], registered[i])
    BY ResumeIs
  <1>2. UNCHANGED <<state, key>>
    BY DEF Resume
  <1>3. \A t \in Servers : key[t] = key[s] => t = s
    BY <1>1, OneHolder, PoolAssumption
  <1>4. \A j \in Instances : attachedKey[j] = key[s] <=> Serves(s, j)
    BY <1>1 DEF Serves
  <1>5. QED
    BY <1>1, <1>2, <1>3, <1>4, FinishComes

LEMMA LeavingServes ==
    ASSUME PoolInv, NEW i \in Instances, NEW s \in Servers, Serves(s, i), Forget(i),
           \A t \in Servers : t # s => state'[t] = state[t] /\ key'[t] = key[t],
           \/ state'[s] = "open" /\ key'[s] = key[s]
           \/ state'[s] # "open" /\ \A j \in Instances : Serves(s, j) => j = i
    PROVE  \A t \in Servers, j \in Instances : Serves(t, j)' <=> Serves(t, j) /\ j # i
  <1>1. \A j \in Instances : attachedKey'[j] = IF j = i THEN NoAddr ELSE attachedKey[j]
    BY DEF Forget, PoolInv, TypeOK
  <1>2. \A t \in Servers : state[t] = "open" => key[t] # NoAddr
    BY DEF PoolInv, PoolFits
  <1>3. ASSUME NEW t \in Servers, t # s, NEW j \in Instances
        PROVE  Serves(t, j)' <=> Serves(t, j) /\ j # i
    <2>1. Serves(t, i) => FALSE
      BY <1>2, <1>3, OneHolder DEF Serves
    <2>2. QED
      BY <1>1, <1>2, <1>3, <2>1 DEF Serves
  <1>4. \A j \in Instances : Serves(s, j)' <=> Serves(s, j) /\ j # i
    BY <1>1, <1>2 DEF Serves
  <1>5. QED
    BY <1>3, <1>4

LEMMA StopLastGoes ==
    ASSUME PoolInv, NEW i \in Instances, StopLast(i)
    PROVE  \E s \in Servers : Goes(i, s)
  <1>1. PICK s \in Servers : /\ pool[ListenAddr(i)] = s /\ attachedKey[i] = key[s]
                             /\ refCount[s] <= 1
                             /\ state' = Closed(s)
                             /\ key' = [key EXCEPT ![s] = NoAddr]
                             /\ refCount' = [refCount EXCEPT ![s] = 0]
                             /\ table' = [table EXCEPT ![s] = Empty]
                             /\ fallback' = [fallback EXCEPT ![s] = NoInstance]
    BY DEF StopLast
  <1>2. Serves(s, i)
    BY <1>1, LeavingIs
  <1>3. refCount[s] = 1 /\ \A j \in Instances : Serves(s, j) => j = i
    BY <1>1, <1>2, LastIsAlone
  <1>4. Forget(i)
    BY DEF StopLast
  <1>5. /\ state'[s] # "open" /\ fallback'[s] = NoInstance
        /\ \A t \in Servers : t # s => state'[t] = state[t] /\ key'[t] = key[t]
                                       /\ fallback'[t] = fallback[t]
    BY <1>1 DEF Closed, PoolInv, TypeOK
  <1>6. \A t \in Servers, j \in Instances : Serves(t, j)' <=> Serves(t, j) /\ j # i
    BY <1>2, <1>3, <1>4, <1>5, LeavingServes
  <1>7. Without(i, s) = Empty
    <2>1. ASSUME NEW r \in Routes, table[s][r] # NoInstance
          PROVE  table[s][r] = i
      BY <1>3, <2>1 DEF PoolInv, TypeOK, TablesFit
    <2>2. QED
      BY <2>1 DEF Without, Empty
  <1>8. refCount' = [refCount EXCEPT ![s] = @ - 1]
    BY <1>1, <1>3
  <1>9. attachedKey' = [attachedKey EXCEPT ![i] = NoAddr]
    BY <1>4 DEF Forget
  <1>10. \A j \in Instances : ~Serves(s, j)'
    BY <1>5 DEF Serves
  <1>11. QED
    BY <1>1, <1>2, <1>5, <1>6, <1>7, <1>8, <1>9, <1>10 DEF Goes

LEMMA StopSharedGoes ==
    ASSUME PoolInv, NEW i \in Instances, StopShared(i)
    PROVE  \E s \in Servers : Goes(i, s)
  <1>1. PICK s \in Servers :
          /\ pool[ListenAddr(i)] = s /\ attachedKey[i] = key[s]
          /\ refCount[s] > 1
          /\ refCount' = [refCount EXCEPT ![s] = @ - 1]
          /\ table' = [table EXCEPT ![s] = Without(i, s)]
          /\ IF fallback[s] # i THEN UNCHANGED fallback
             ELSE \E j \in Instances \cup {NoInstance} :
                    /\ IF \A r \in Routes : Without(i, s)[r] = NoInstance
                       THEN j = NoInstance
                       ELSE j # NoInstance /\ \E r \in Routes : Without(i, s)[r] = j
                    /\ fallback' = [fallback EXCEPT ![s] = j]
    BY DEF StopShared
  <1>2. Serves(s, i)
    BY <1>1, LeavingIs
  <1>3. Forget(i) /\ UNCHANGED <<state, key>>
    BY DEF StopShared
  <1>4. \A t \in Servers, j \in Instances : Serves(t, j)' <=> Serves(t, j) /\ j # i
    <2>1. state[s] = "open"
      BY <1>2 DEF Serves
    <2>2. QED
      BY <1>2, <1>3, <2>1, LeavingServes
  <1>5. attachedKey' = [attachedKey EXCEPT ![i] = NoAddr]
    BY <1>3 DEF Forget
  <1>6. \A r \in Routes : Without(i, s)[r] = IF table[s][r] = i THEN NoInstance ELSE table[s][r]
    BY DEF Without
  <1>7. \A t \in Servers : t # s => fallback'[t] = fallback[t]
    BY <1>1 DEF PoolInv, TypeOK
  <1>8. \A j \in Instances : Serves(s, j) /\ j # i => \E r \in Routes : Without(i, s)[r] = j
    BY <1>6 DEF PoolInv, TablesFit
  <1>9. \A r \in Routes : Without(i, s)[r] # NoInstance =>
            /\ Without(i, s)[r] \in Instances /\ Without(i, s)[r] # i
            /\ Serves(s, Without(i, s)[r])
    BY <1>6 DEF PoolInv, TypeOK, TablesFit
  <1>10. /\ fallback'[s] # NoInstance => Serves(s, fallback[s])'
         /\ fallback'[s] = NoInstance => \A j \in Instances : ~Serves(s, j)'
    <2>1. CASE fallback[s] # i
      <3>1. fallback[s] \in Instances /\ Serves(s, fallback[s])
        BY <1>2 DEF PoolInv, TypeOK, TablesFit
      <3>2. fallback'[s] = fallback[s]
        BY <1>1, <2>1
      <3>3. PICK j \in Instances : j = fallback[s] /\ Serves(s, j) /\ j # i
        BY <2>1, <3>1
      <3>4. Serves(s, j)' /\ fallback'[s] = j
        BY <1>4, <3>2, <3>3
      <3>5. QED
        BY <3>3, <3>4, PoolAssumption DEF Serves
    <2>2. CASE fallback[s] = i
      <3>1. PICK j \in Instances \cup {NoInstance} :
              /\ IF \A r \in Routes : Without(i, s)[r] = NoInstance
                 THEN j = NoInstance
                 ELSE j # NoInstance /\ \E r \in Routes : Without(i, s)[r] = j
              /\ fallback' = [fallback EXCEPT ![s] = j]
        BY <1>1, <2>2
      <3>2. fallback'[s] = j
        BY <3>1 DEF PoolInv, TypeOK
      <3>3. CASE j # NoInstance
        <4>1. Serves(s, j) /\ j # i /\ j \in Instances
          BY <1>9, <3>1, <3>3
        <4>2. QED
          BY <1>4, <3>2, <3>3, <4>1 DEF Serves
      <3>4. CASE j = NoInstance
        <4>1. \A r \in Routes : Without(i, s)[r] = NoInstance
          BY <3>1, <3>4
        <4>2. \A k \in Instances : ~(Serves(s, k) /\ k # i)
          BY <1>8, <4>1, PoolAssumption
        <4>3. QED
          BY <1>4, <3>2, <3>4, <4>2
      <3>5. QED
        BY <3>3, <3>4
    <2>3. QED
      BY <2>1, <2>2
  <1>11. \E j \in Instances : Serves(s, j)'
    <2>1. IsFiniteSet(Users(s)) /\ i \in Users(s) /\ Cardinality(Users(s)) > 1
      BY <1>1, <1>2, UsersAreFinite DEF Users, PoolInv, CountsFit
    <2>2. /\ IsFiniteSet(Users(s) \ {i})
          /\ Cardinality(Users(s) \ {i}) = Cardinality(Users(s)) - 1
          /\ Cardinality(Users(s)) \in Nat
      BY <2>1, FS_RemoveElement, FS_CardinalityType
    <2>3. Users(s) \ {i} # {}
      BY <2>1, <2>2, FS_EmptySet
    <2>4. QED
      BY <1>4, <2>3 DEF Users
  <1>12. QED
    BY <1>1, <1>2, <1>3, <1>4, <1>5, <1>7, <1>10, <1>11 DEF Goes

LEMMA ElseStays ==
    ASSUME PoolInv, Orderly, [Next]_vars,
           \A i \in Instances : /\ ~StopShared(i) /\ ~StopLast(i)
                                /\ \A a \in Addrs : ~StartShared(i, a)
                                /\ \A s \in Servers : ~Resume(i, s),
           \A s \in Servers, a \in Addrs : ~Listening(s, a)
    PROVE  Stays
  <1>1. ASSUME NEW i \in Instances, NEW a \in Addrs, StartFirst(i, a)
        PROVE  Stays
    BY <1>1 DEF StartFirst, Stays, Serves, PoolInv, TypeOK
  <1>2. ASSUME NEW s \in Servers, ListenFails(s)
        PROVE  Stays
    BY <1>2 DEF ListenFails, instanceVars, Stays, Serves, PoolInv, TypeOK
  <1>3. ASSUME NEW i \in Instances, StopIdle(i) \/ StopUnattached(i)
        PROVE  Stays
    <2>1. attachedKey[i] = NoAddr /\ UNCHANGED serverVars /\ Forget(i)
      BY <1>3, StopAwayIs DEF StopIdle, StopUnattached
    <2>2. attachedKey' = attachedKey
      BY <2>1 DEF Forget, PoolInv, TypeOK
    <2>3. QED
      BY <2>1, <2>2 DEF Stays, Serves, serverVars
  <1>4. CASE UNCHANGED <<attachedKey, serverVars>>
    BY <1>4 DEF Stays, Serves, serverVars
  <1>5. QED
    BY <1>1, <1>2, <1>3, <1>4 DEF Next, vars, instanceVars, Start, Stop, AddRpcHandler,
       RegisterServer, StartAgain, StartWaiting

LEMMA ComesGoesOrStays ==
    ASSUME PoolInv, Orderly, [Next]_vars
    PROVE  \/ \E i \in Instances, s \in Servers : Comes(i, s) \/ Goes(i, s)
           \/ Stays
  BY StartSharedComes, ListeningComes, ResumeComes, StopLastGoes, StopSharedGoes, ElseStays
-----------------------------------------------------------------------------
(***************************************************************************)
(* Tables, counts and users follow.                                        *)
(***************************************************************************)
\* An admitted instance takes only routes that were free or its own.
LEMMA AdmittedTable ==
    ASSUME TypeOK, NEW i \in Instances, NEW s \in Servers, NEW k, Attached(i, s, k)
    PROVE  /\ \A t \in Servers, r \in Routes :
                \/ table'[t][r] = table[t][r]
                \/ t = s /\ table[t][r] = NoInstance /\ table'[t][r] = i
           /\ \A r \in RoutesOf(i) : table'[s][r] = i
           /\ \E r \in Routes : table'[s][r] = i
           /\ fallback'[s] # NoInstance
           /\ fallback'[s] = fallback[s] \/ fallback'[s] = i
           /\ \A t \in Servers : t # s => fallback'[t] = fallback[t]
  <1>1. /\ ~Taken(i, s)
        /\ table' = [table EXCEPT ![s] = [r \in Routes |-> IF r \in RoutesOf(i) THEN i ELSE @[r]]]
        /\ fallback' = [fallback EXCEPT ![s] = IF @ = NoInstance THEN i ELSE @]
    BY DEF Attached
  <1>2. RoutesOf(i) \subseteq Routes /\ RoutesOf(i) # {}
    BY PoolAssumption DEF TypeOK, RoutesOf
  <1>3. \A t \in Servers : t # s => table'[t] = table[t] /\ fallback'[t] = fallback[t]
    BY <1>1 DEF TypeOK
  <1>4. \A r \in Routes : table'[s][r] = IF r \in RoutesOf(i) THEN i ELSE table[s][r]
    BY <1>1 DEF TypeOK
  <1>5. \A r \in RoutesOf(i) : table[s][r] \in {NoInstance, i}
    BY <1>1 DEF Taken
  <1>6. fallback'[s] = IF fallback[s] = NoInstance THEN i ELSE fallback[s]
    BY <1>1 DEF TypeOK
  <1>7. i # NoInstance
    BY PoolAssumption
  <1>8. QED
    BY <1>2, <1>3, <1>4, <1>5, <1>6, <1>7

LEMMA TablesStep ==
    ASSUME PoolInv, Orderly, [Next]_vars
    PROVE  TablesFit'
  <1>0. TypeOK /\ TablesFit
    BY DEF PoolInv
  <1>1. ASSUME NEW i \in Instances, NEW s \in Servers, Comes(i, s)
        PROVE  TablesFit'
    <2>1. CASE /\ Attached(i, s, key'[s])
               /\ \A t \in Servers, j \in Instances :
                    Serves(t, j)' <=> Serves(t, j) \/ (t = s /\ j = i)
      <3>1. ASSUME NEW t \in Servers, NEW r \in Routes, table'[t][r] # NoInstance
            PROVE  Serves(t, table[t][r])'
        <4>1. PICK j \in Instances : table'[t][r] = j /\ (Serves(t, j) \/ (t = s /\ j = i))
          BY <1>0, <2>1, <3>1, AdmittedTable DEF TypeOK, TablesFit
        <4>2. Serves(t, j)'
          BY <2>1, <4>1
        <4>3. QED
          BY <4>1, <4>2 DEF Serves
      <3>2. ASSUME NEW t \in Servers, fallback'[t] # NoInstance
            PROVE  Serves(t, fallback[t])'
        <4>1. PICK j \in Instances : fallback'[t] = j /\ (Serves(t, j) \/ (t = s /\ j = i))
          BY <1>0, <2>1, <3>2, AdmittedTable DEF TypeOK, TablesFit
        <4>2. Serves(t, j)'
          BY <2>1, <4>1
        <4>3. QED
          BY <4>1, <4>2 DEF Serves
      <3>3. ASSUME NEW t \in Servers, NEW j \in Instances, Serves(t, j)'
            PROVE  fallback'[t] # NoInstance /\ \E r \in Routes : table'[t][r] = j
        <4>1. CASE t = s /\ j = i
          BY <1>0, <2>1, <4>1, AdmittedTable
        <4>2. CASE Serves(t, j)
          <5>1. PICK r \in Routes : table[t][r] = j
            BY <1>0, <4>2 DEF TablesFit
          <5>2. table'[t][r] = j
            BY <1>0, <2>1, <5>1, AdmittedTable, PoolAssumption
          <5>3. fallback'[t] # NoInstance
            BY <1>0, <2>1, <4>2, AdmittedTable DEF TablesFit
          <5>4. QED
            BY <5>2, <5>3
        <4>3. QED
          BY <2>1, <3>3, <4>1, <4>2
      <3>4. QED
        BY <3>1, <3>2, <3>3 DEF TablesFit
    <2>2. CASE Refused /\ \A t \in Servers, j \in Instances : Serves(t, j)' <=> Serves(t, j)
      <3>1. \A t \in Servers, r \in Routes : table[t][r] # NoInstance =>
                table[t][r] \in Instances /\ Serves(t, table[t][r])
        BY <1>0 DEF TypeOK, TablesFit
      <3>2. \A t \in Servers : fallback[t] # NoInstance =>
                fallback[t] \in Instances /\ Serves(t, fallback[t])
        BY <1>0 DEF TypeOK, TablesFit
      <3>3. UNCHANGED <<table, fallback>>
        BY <2>2 DEF Refused
      <3>4. \A t \in Servers, r \in Routes : table'[t][r] # NoInstance => Serves(t, table[t][r])'
        BY <2>2, <3>1, <3>3 DEF Serves
      <3>5. \A t \in Servers : fallback'[t] # NoInstance => Serves(t, fallback[t])'
        BY <2>2, <3>2, <3>3 DEF Serves
      <3>6. QED
        BY <1>0, <2>2, <3>3, <3>4, <3>5 DEF TablesFit
    <2>3. QED
      BY <1>1, <2>1, <2>2 DEF Comes
  <1>2. ASSUME NEW i \in Instances, NEW s \in Servers, Goes(i, s)
        PROVE  TablesFit'
    <2>1. /\ \A t \in Servers : t # s => table'[t] = table[t] /\ fallback'[t] = fallback[t]
          /\ \A r \in Routes : table'[s][r] = IF table[s][r] = i THEN NoInstance ELSE table[s][r]
      BY <1>0, <1>2 DEF Goes, Without, TypeOK
    <2>2. /\ \A t \in Servers, j \in Instances : Serves(t, j)' <=> Serves(t, j) /\ j # i
          /\ fallback'[s] # NoInstance => Serves(s, fallback[s])'
          /\ fallback'[s] = NoInstance => \A j \in Instances : ~Serves(s, j)'
      BY <1>2 DEF Goes
    <2>3. \A t \in Servers : Serves(t, i) => t = s
      <3>1. Serves(s, i)
        BY <1>2 DEF Goes
      <3>2. key[s] # NoAddr
        BY <3>1 DEF Serves, PoolInv, PoolFits
      <3>3. QED
        BY <3>1, <3>2, OneHolder DEF Serves
    <2>4. ASSUME NEW t \in Servers, NEW r \in Routes, table'[t][r] # NoInstance
          PROVE  Serves(t, table[t][r])'
      <3>1. PICK j \in Instances : table'[t][r] = j /\ Serves(t, j) /\ j # i
        <4>1. table'[t][r] = table[t][r] /\ (t = s => table[t][r] # i)
          BY <2>1, <2>4
        <4>2. table[t][r] \in Instances /\ Serves(t, table[t][r])
          BY <1>0, <2>4, <4>1 DEF TypeOK, TablesFit
        <4>3. QED
          BY <2>3, <4>1, <4>2
      <3>2. Serves(t, j)'
        BY <2>2, <3>1
      <3>3. QED
        BY <3>1, <3>2 DEF Serves
    <2>5. ASSUME NEW t \in Servers, fallback'[t] # NoInstance
          PROVE  Serves(t, fallback[t])'
      <3>1. CASE t # s
        <4>1. PICK j \in Instances : fallback'[t] = j /\ Serves(t, j) /\ j # i
          BY <1>0, <2>1, <2>3, <2>5, <3>1 DEF TypeOK, TablesFit
        <4>2. Serves(t, j)'
          BY <2>2, <4>1
        <4>3. QED
          BY <4>1, <4>2 DEF Serves
      <3>2. QED
        BY <2>2, <2>5, <3>1
    <2>6. ASSUME NEW t \in Servers, NEW j \in Instances, Serves(t, j)'
          PROVE  fallback'[t] # NoInstance /\ \E r \in Routes : table'[t][r] = j
      <3>1. Serves(t, j) /\ j # i
        BY <2>2, <2>6
      <3>2. PICK r \in Routes : table[t][r] = j
        BY <1>0, <3>1 DEF TablesFit
      <3>3. table'[t][r] = j
        BY <2>1, <3>1, <3>2
      <3>4. fallback'[t] # NoInstance
        BY <1>0, <2>1, <2>2, <2>6, <3>1 DEF TablesFit
      <3>5. QED
        BY <3>3, <3>4
    <2>7. QED
      BY <2>4, <2>5, <2>6 DEF TablesFit
  <1>3. CASE Stays
    <2>1. \A t \in Servers, r \in Routes : table[t][r] # NoInstance =>
              table[t][r] \in Instances /\ Serves(t, table[t][r])
      BY <1>0 DEF TypeOK, TablesFit
    <2>2. \A t \in Servers : fallback[t] # NoInstance =>
              fallback[t] \in Instances /\ Serves(t, fallback[t])
      BY <1>0 DEF TypeOK, TablesFit
    <2>3. /\ UNCHANGED <<table, fallback>>
          /\ \A t \in Servers, j \in Instances : Serves(t, j)' <=> Serves(t, j)
      BY <1>3 DEF Stays
    <2>4. \A t \in Servers, r \in Routes : table'[t][r] # NoInstance => Serves(t, table[t][r])'
      BY <2>1, <2>3 DEF Serves
    <2>5. \A t \in Servers : fallback'[t] # NoInstance => Serves(t, fallback[t])'
      BY <2>2, <2>3 DEF Serves
    <2>6. QED
      BY <1>0, <2>3, <2>4, <2>5 DEF TablesFit
  <1>4. QED
    BY <1>1, <1>2, <1>3, ComesGoesOrStays

LEMMA CountsStep ==
    ASSUME PoolInv, Orderly, [Next]_vars
    PROVE  CountsFit'
  <1>0. TypeOK /\ CountsFit
    BY DEF PoolInv
  <1>1. ASSUME NEW i \in Instances, NEW s \in Servers, Comes(i, s)
        PROVE  CountsFit'
    <2>1. CASE /\ Attached(i, s, key'[s])
               /\ \A t \in Servers, j \in Instances :
                    Serves(t, j)' <=> Serves(t, j) \/ (t = s /\ j = i)
      <3>1. \A t \in Servers : t # s => Users(t)' = Users(t) /\ refCount'[t] = refCount[t]
        BY <1>0, <2>1 DEF Users, Attached, TypeOK
      <3>2. Users(s)' = Users(s) \cup {i}
        BY <2>1 DEF Users
      <3>3. refCount'[s] = IF i \in Users(s) THEN refCount[s] ELSE refCount[s] + 1
        <4>1. refCount'[s] = CountWith(i, s, key'[s])
          BY <1>0, <2>1 DEF Attached, TypeOK
        <4>2. attachedKey[i] = key'[s] <=> i \in Users(s)
          BY <1>1 DEF Comes, Users
        <4>3. QED
          BY <4>1, <4>2 DEF CountWith
      <3>4. IsFiniteSet(Users(s))
        BY UsersAreFinite DEF Users
      <3>5. Cardinality(Users(s) \cup {i}) =
              IF i \in Users(s) THEN Cardinality(Users(s)) ELSE Cardinality(Users(s)) + 1
        BY <3>4, FS_AddElement
      <3>6. refCount'[s] = Cardinality(Users(s)')
        BY <1>0, <3>2, <3>3, <3>5 DEF CountsFit
      <3>7. QED
        BY <1>0, <3>1, <3>6 DEF CountsFit
    <2>2. CASE Refused /\ \A t \in Servers, j \in Instances : Serves(t, j)' <=> Serves(t, j)
      <3>1. \A t \in Servers : Users(t)' = Users(t) /\ refCount'[t] = refCount[t]
        BY <2>2 DEF Users, Refused
      <3>2. QED
        BY <1>0, <3>1 DEF CountsFit
    <2>3. QED
      BY <1>1, <2>1, <2>2 DEF Comes
  <1>2. ASSUME NEW i \in Instances, NEW s \in Servers, Goes(i, s)
        PROVE  CountsFit'
    <2>1. /\ \A t \in Servers : t # s => refCount'[t] = refCount[t]
          /\ refCount'[s] = refCount[s] - 1
      BY <1>0, <1>2 DEF Goes, TypeOK
    <2>2. \A t \in Servers : Users(t)' = Users(t) \ {i}
      BY <1>2 DEF Goes, Users
    <2>3. \A t \in Servers : t # s => Users(t)' = Users(t)
      BY <1>2, <2>2, OneHolder DEF Goes, Serves, Users, PoolInv, PoolFits
    <2>4. IsFiniteSet(Users(s)) /\ i \in Users(s)
      BY <1>2, UsersAreFinite DEF Goes, Users
    <2>5. Cardinality(Users(s) \ {i}) = Cardinality(Users(s)) - 1
      BY <2>4, FS_RemoveElement
    <2>6. QED
      BY <1>0, <2>1, <2>2, <2>3, <2>5 DEF CountsFit
  <1>3. CASE Stays
    <2>1. \A t \in Servers : Users(t)' = Users(t) /\ refCount'[t] = refCount[t]
      BY <1>3 DEF Users, Stays
    <2>2. QED
      BY <1>0, <2>1 DEF CountsFit
  <1>4. QED
    BY <1>1, <1>2, <1>3, ComesGoesOrStays

LEMMA UsersStep ==
    ASSUME PoolInv, Orderly, [Next]_vars
    PROVE  UsersFit'
  <1> SUFFICES ASSUME Managed = {}, NEW t \in Servers, state'[t] = "open"
               PROVE  \E j \in Instances : Serves(t, j)'
    BY DEF UsersFit
  <1>1. state[t] = "open" => \E j \in Instances : Serves(t, j)
    BY DEF PoolInv, UsersFit
  <1>2. \A i \in Instances, a \in Addrs : ~Clashes(i, a)
    BY DEF Clashes, PoolInv, RegistryFits
  <1>3. ASSUME NEW i \in Instances, NEW s \in Servers, Comes(i, s)
        PROVE  \E j \in Instances : Serves(t, j)'
    <2>1. CASE t # s
      BY <1>1, <1>3, <2>1 DEF Comes
    <2>2. CASE t = s /\ Taken(i, s)
      <3>1. PICK r \in RoutesOf(i) : table[s][r] # NoInstance
        BY <2>2 DEF Taken
      <3>2. r \in Routes
        BY PoolAssumption DEF RoutesOf, PoolInv, TypeOK
      <3>3. table[s][r] \in Instances /\ Serves(s, table[s][r])
        BY <3>1, <3>2 DEF PoolInv, TypeOK, TablesFit
      <3>4. QED
        BY <1>3, <2>2, <3>3 DEF Comes
    <2>3. CASE t = s /\ ~Taken(i, s)
      BY <1>2, <1>3, <2>3 DEF Comes
    <2>4. QED
      BY <2>1, <2>2, <2>3
  <1>4. ASSUME NEW i \in Instances, NEW s \in Servers, Goes(i, s)
        PROVE  \E j \in Instances : Serves(t, j)'
    <2>1. CASE t = s
      BY <1>4, <2>1 DEF Goes
    <2>2. CASE t # s
      <3>1. PICK j \in Instances : Serves(t, j)
        BY <1>1, <1>4, <2>2 DEF Goes
      <3>2. j # i
        BY <1>4, <2>2, <3>1, OneHolder DEF Goes, Serves, PoolInv, PoolFits
      <3>3. QED
        BY <1>4, <3>1, <3>2 DEF Goes
    <2>3. QED
      BY <2>1, <2>2
  <1>5. CASE Stays
    BY <1>1, <1>5 DEF Stays
  <1>6. QED
    BY <1>3, <1>4, <1>5, ComesGoesOrStays
-----------------------------------------------------------------------------
(***************************************************************************)
(* The ownership table.                                                    *)
(***************************************************************************)
\* The entries of i become E, and nobody else holds any of those.
Rewrites(i, E) ==
    /\ E \cap (owned \ registered[i]) = {}
    /\ registered' = [registered EXCEPT ![i] = E]
    /\ owned' = (owned \ registered[i]) \cup E

\* What a step does to the registry: nothing (to a registered instance),
\* an instance is struck off, entered where it listens, or entered where it
\* has just been attached.
Untouched ==
    /\ UNCHANGED managerVars
    /\ \A j \in Instances : registered[j] # {} => attachedKey'[j] = attachedKey[j]

StruckOff(i) == Rewrites(i, {})

Entered(i) ==
    /\ i \in Managed
    /\ Rewrites(i, Entries(i, ListenAddr(i)))
    /\ attachedKey' = attachedKey

EnteredAt(i, k) ==
    /\ i \in Managed
    /\ Rewrites(i, Entries(i, k))
    /\ attachedKey' = [attachedKey EXCEPT ![i] = k]

RegistryChanges ==
    \/ Untouched
    \/ \E i \in Instances :
          \/ StruckOff(i) /\ attachedKey' = [attachedKey EXCEPT ![i] = NoAddr]
          \/ Entered(i)
          \/ \E k \in Addrs : EnteredAt(i, k)

LEMMA OwnHeld ==
    ASSUME PoolInv, NEW i \in Instances
    PROVE  registered[i] \subseteq owned
  BY DEF PoolInv, OwnershipExact

LEMMA FinishRegisters ==
    ASSUME PoolInv, NEW i \in Instances, NEW s \in Servers, NEW k \in Addrs, NEW E,
           Finish(i, s, k, E),
           E = registered[i] \/ (E = Entries(i, ListenAddr(i)) /\ ~Clashes(i, ListenAddr(i)))
    PROVE  \/ Untouched
           \/ Refused /\ Entered(i)
           \/ Attached(i, s, k) /\ EnteredAt(i, k)
  <1>1. CASE Attached(i, s, k)
    <2>1. Refreshed(i, Entries(i, k)) /\ ~Clashes(i, k)
          /\ attachedKey' = [attachedKey EXCEPT ![i] = k]
      BY <1>1 DEF Attached, EntriesAt
    <2>2. CASE registered[i] = {}
      BY <2>1, <2>2 DEF Refreshed, Untouched, managerVars, PoolInv, TypeOK
    <2>3. CASE registered[i] # {}
      BY <1>1, <2>1, <2>3 DEF Refreshed, Clashes, EnteredAt, Rewrites, PoolInv, RegistryFits
    <2>4. QED
      BY <2>2, <2>3
  <1>2. CASE RouteTaken(i, s, E) \/ RouteRegistered(i, s, k, E)
    <2>1. Refreshed(i, E) /\ Refused
      BY <1>2 DEF RouteTaken, RouteRegistered, Refused
    <2>2. CASE registered[i] = {}
      BY <2>1, <2>2 DEF Refreshed, Refused, Untouched, managerVars
    <2>3. CASE registered[i] # {} /\ E = registered[i]
      <3>1. registered' = registered
        BY <2>1, <2>3 DEF Refreshed, PoolInv, TypeOK
      <3>2. owned' = owned
        BY <2>1, <2>3, OwnHeld DEF Refreshed
      <3>3. QED
        BY <2>1, <3>1, <3>2 DEF Refused, Untouched, managerVars
    <2>4. CASE registered[i] # {} /\ E = Entries(i, ListenAddr(i)) /\ ~Clashes(i, ListenAddr(i))
      <3>1. i \in Managed
        BY <2>4 DEF PoolInv, RegistryFits
      <3>2. Rewrites(i, Entries(i, ListenAddr(i)))
        BY <2>1, <2>4 DEF Refreshed, Clashes, Rewrites
      <3>3. QED
        BY <2>1, <3>1, <3>2 DEF Refused, Entered
    <2>5. QED
      BY <2>2, <2>3, <2>4
  <1>3. QED
    BY <1>1, <1>2 DEF Finish

LEMMA RegistryChangesSo ==
    ASSUME PoolInv, Orderly, [Next]_vars
    PROVE  RegistryChanges
  <1>1. ASSUME NEW i \in Instances, NEW a \in Addrs, StartShared(i, a)
        PROVE  RegistryChanges
    <2>1. PICK s \in Servers : key[s] \in Addrs /\ Finish(i, s, key[s], Entries(i, ListenAddr(i)))
      BY <1>1, StartSharedIs
    <2>2. ~Clashes(i, ListenAddr(i))
      BY <1>1 DEF StartShared, Begin
    <2>3. QED
      BY <2>1, <2>2, FinishRegisters DEF RegistryChanges
  <1>2. ASSUME NEW s \in Servers, NEW a \in Addrs, Listening(s, a)
        PROVE  RegistryChanges
    <2>1. opener[s] \in Instances /\ Finish(opener[s], s, a, registered[opener[s]])
      BY <1>2, ListeningIs DEF Listening
    <2>2. QED
      BY <2>1, FinishRegisters DEF RegistryChanges
  <1>3. ASSUME NEW i \in Instances, NEW s \in Servers, Resume(i, s)
        PROVE  RegistryChanges
    <2>1. key[s] \in Addrs /\ Finish(i, s, key[s], registered[i])
      BY <1>3, ResumeIs
    <2>2. QED
      BY <2>1, FinishRegisters DEF RegistryChanges
  <1>4. ASSUME NEW i \in Instances, NEW a \in Addrs,
               StartAgain(i, a) \/ StartFirst(i, a) \/ StartWaiting(i, a)
        PROVE  RegistryChanges
    <2>1. /\ Refreshed(i, Entries(i, ListenAddr(i))) /\ ~Clashes(i, ListenAddr(i))
          /\ attachedKey' = attachedKey
      BY <1>4 DEF StartAgain, StartFirst, StartWaiting, Renewed, Begin
    <2>2. CASE registered[i] = {}
      BY <2>1, <2>2 DEF Refreshed, Untouched, managerVars, RegistryChanges
    <2>3. CASE registered[i] # {}
      <3>1. i \in Managed
        BY <2>3 DEF PoolInv, RegistryFits
      <3>2. Rewrites(i, Entries(i, ListenAddr(i)))
        BY <2>1, <2>3 DEF Refreshed, Clashes, Rewrites
      <3>3. QED
        BY <2>1, <3>1, <3>2 DEF Entered, RegistryChanges
    <2>4. QED
      BY <2>2, <2>3
  <1>5. ASSUME NEW i \in Instances, RegisterServer(i)
        PROVE  RegistryChanges
    <2>1. /\ i \in Managed /\ registered[i] = {} /\ attachedKey' = attachedKey
          /\ Entries(i, ListenAddr(i)) \cap owned = {}
          /\ owned' = owned \cup Entries(i, ListenAddr(i))
          /\ registered' = [registered EXCEPT ![i] = Entries(i, ListenAddr(i))]
      BY <1>5 DEF RegisterServer, Orderly, instanceVars
    <2>2. Rewrites(i, Entries(i, ListenAddr(i)))
      BY <2>1 DEF Rewrites
    <2>3. QED
      BY <2>1, <2>2 DEF Entered, RegistryChanges
  <1>6. ASSUME NEW i \in Instances, Stop(i)
        PROVE  RegistryChanges
    <2>1. Forget(i)
      BY <1>6 DEF Stop, StopIdle, StopUnattached, StopShared, StopLast
    <2>2. StruckOff(i) /\ attachedKey' = [attachedKey EXCEPT ![i] = NoAddr]
      BY <2>1 DEF Forget, Disowned, StruckOff, Rewrites
    <2>3. QED
      BY <2>2 DEF RegistryChanges
  <1>7. CASE UNCHANGED <<attachedKey, managerVars>>
    BY <1>7 DEF Untouched, RegistryChanges
  <1>8. QED
    BY <1>1, <1>2, <1>3, <1>4, <1>5, <1>6, <1>7 DEF Next, vars, instanceVars, Start,
       AddRpcHandler, ListenFails

LEMMA RewriteOwnership ==
    ASSUME PoolInv, NEW i \in Instances, NEW E, Rewrites(i, E)
    PROVE  OwnershipExact' /\ \A j \in Instances : registered'[j] = IF j = i THEN E ELSE registered[j]
  <1>1. \A j \in Instances : registered'[j] = IF j = i THEN E ELSE registered[j]
    BY DEF Rewrites, PoolInv, TypeOK
  <1>2. /\ owned = UNION {registered[j] : j \in Instances}
        /\ \A j, l \in Instances : j # l => registered[j] \cap registered[l] = {}
    BY DEF PoolInv, OwnershipExact
  <1>3. \A e : e \in owned' <=> \E j \in Instances : e \in registered'[j]
    BY <1>1, <1>2 DEF Rewrites
  <1>4. \A j \in Instances : j # i => registered[j] \cap E = {}
    BY <1>2 DEF Rewrites
  <1>5. \A j, l \in Instances : j # l => registered'[j] \cap registered'[l] = {}
    BY <1>1, <1>2, <1>4
  <1>6. owned' = UNION {registered'[j] : j \in Instances}
    BY <1>3
  <1>7. QED
    BY <1>1, <1>5, <1>6 DEF OwnershipExact

LEMMA OwnershipStep ==
    ASSUME PoolInv, Orderly, [Next]_vars
    PROVE  OwnershipExact'
  <1>1. CASE Untouched
    BY <1>1 DEF Untouched, managerVars, PoolInv, OwnershipExact
  <1>2. QED
    BY <1>1, RegistryChangesSo, RewriteOwnership DEF RegistryChanges, StruckOff, Entered, EnteredAt

\* An attached instance is entered where it is attached, another one where it
\* was told to listen.
EnteredWell(j) ==
    /\ registered[j] # {} => j \in Managed
    /\ \A e \in registered[j] : e[1] \in Declarable \/ attachedKey[j] = e[1]
    /\ attachedKey[j] # NoAddr => \A e \in registered[j] : e[1] = attachedKey[j]

LEMMA EntriesStep ==
    ASSUME PoolInv, Orderly, [Next]_vars, NEW j \in Instances
    PROVE  EnteredWell(j)'
  <1>0. EnteredWell(j)
    BY DEF EnteredWell, PoolInv, RegistryFits, RegisteredWhereServing
  <1>1. CASE Untouched
    BY <1>0, <1>1 DEF Untouched, managerVars, EnteredWell
  <1>2. ASSUME NEW i \in Instances, StruckOff(i), attachedKey' = [attachedKey EXCEPT ![i] = NoAddr]
        PROVE  EnteredWell(j)'
    <2>1. registered'[j] = IF j = i THEN {} ELSE registered[j]
      BY <1>2, RewriteOwnership DEF StruckOff
    <2>2. j # i => attachedKey'[j] = attachedKey[j]
      BY <1>2 DEF PoolInv, TypeOK
    <2>3. QED
      BY <1>0, <2>1, <2>2 DEF EnteredWell
  <1>3. ASSUME NEW i \in Instances, Entered(i)
        PROVE  EnteredWell(j)'
    <2>1. /\ registered'[j] = IF j = i THEN Entries(i, ListenAddr(i)) ELSE registered[j]
          /\ attachedKey' = attachedKey /\ i \in Managed
      BY <1>3, RewriteOwnership DEF Entered
    <2>2. \A e \in Entries(i, ListenAddr(i)) : e[1] = ListenAddr(i)
      BY DEF Entries
    <2>3. IF attachedKey[i] = NoAddr THEN ListenAddr(i) \in Declarable
                                     ELSE ListenAddr(i) = attachedKey[i]
      BY AttachedIs, ListenAddrType DEF PoolInv, KeysFit
    <2>4. QED
      BY <1>0, <2>1, <2>2, <2>3 DEF EnteredWell
  <1>4. ASSUME NEW i \in Instances, NEW k \in Addrs, EnteredAt(i, k)
        PROVE  EnteredWell(j)'
    <2>1. /\ registered'[j] = IF j = i THEN Entries(i, k) ELSE registered[j]
          /\ i \in Managed
      BY <1>4, RewriteOwnership DEF EnteredAt
    <2>2. attachedKey'[j] = IF j = i THEN k ELSE attachedKey[j]
      BY <1>4 DEF EnteredAt, PoolInv, TypeOK
    <2>3. \A e \in Entries(i, k) : e[1] = k
      BY DEF Entries
    <2>4. QED
      BY <1>0, <2>1, <2>2, <2>3 DEF EnteredWell
  <1>5. QED
    BY <1>1, <1>2, <1>3, <1>4, RegistryChangesSo DEF RegistryChanges

\* While starts wait to join a server, its table has the routes registered there.
WaitingSee ==
    \A w \in waiting, i \in Instances : \A e \in registered[i] :
        state[w[2]] = "open" /\ key[w[2]] = e[1] /\ e[1] \notin Declarable => table[w[2]][e[2]] = i

LEMMA SettledSee ==
    ASSUME \A w \in waiting' : state'[w[2]] # "open"
    PROVE  WaitingSee'
  BY DEF WaitingSee

LEMMA WaitingStep ==
    ASSUME PoolInv, Orderly, [Next]_vars
    PROVE  WaitingSee'
  <1>0. WaitingSee /\ \A w \in waiting : w[1] \in Instances /\ w[2] \in Servers
    BY DEF WaitingSee, PoolInv, RegistryFits, TypeOK
  <1>1. ASSUME NEW s \in Servers, NEW a \in Addrs, Listening(s, a)
        PROVE  WaitingSee'
    <2> DEFINE i == opener[s]
    <2>1. /\ i \in Instances /\ Settled /\ waiting' = waiting /\ state[s] = "opening"
          /\ Finish(i, s, a, registered[i])
      BY <1>1, ListeningIs DEF Listening
    <2>2. /\ key'[s] = a
          /\ \A t \in Servers : t # s => state'[t] = state[t]
      BY <1>1 DEF Listening, PoolInv, TypeOK
    <2>3. \A t \in Servers : key[t] = a => t = s
      BY <1>1, ListeningIs
    <2> HIDE DEF i
    <2>4. SUFFICES ASSUME NEW w \in waiting, NEW j \in Instances, NEW e \in registered'[j],
                          state'[w[2]] = "open", key'[w[2]] = e[1], e[1] \notin Declarable
                   PROVE  table'[w[2]][e[2]] = j
      BY <2>1 DEF WaitingSee
    <2>5. w[2] = s /\ e[1] = a
      BY <1>0, <2>1, <2>2, <2>4 DEF Settled
    <2>6. e \notin registered[j]
      <3>1. SUFFICES ASSUME e \in registered[j]
                     PROVE  FALSE
        OBVIOUS
      <3>2. attachedKey[j] = a
        BY <2>4, <2>5, <3>1 DEF PoolInv, RegistryFits
      <3>3. PICK t \in Servers : Serves(t, j)
        BY <3>2, AttachedIs, PoolAssumption
      <3>4. QED
        BY <2>1, <2>3, <3>2, <3>3 DEF Serves
    <2>7. ~Untouched
      BY <2>4, <2>6 DEF Untouched, managerVars
    <2>8. ASSUME Refused, Entered(i)
          PROVE  FALSE
      <3>1. j = i /\ e[1] = ListenAddr(i)
        BY <2>4, <2>6, <2>8, RewriteOwnership, <2>1 DEF Entered, Entries
      <3>2. attachedKey[i] = NoAddr
        BY <1>1, ListeningIs DEF i
      <3>3. ListenAddr(i) \in Declarable
        BY <2>1, <3>2, ListenAddrType DEF PoolInv, KeysFit
      <3>4. QED
        BY <2>4, <3>1, <3>3
    <2>9. Attached(i, s, a) /\ EnteredAt(i, a)
      BY <2>1, <2>7, <2>8, FinishRegisters
    <2>10. j = i /\ e[2] \in RoutesOf(i)
      BY <2>1, <2>4, <2>6, <2>9, RewriteOwnership DEF EnteredAt, Entries
    <2>11. QED
      BY <2>1, <2>5, <2>9, <2>10, AdmittedTable DEF PoolInv
  <1>2. ASSUME NEW i \in Instances, NEW s \in Servers, Resume(i, s)
        PROVE  WaitingSee'
    <2>1. /\ key[s] \in Addrs
          /\ Finish(i, s, key[s], registered[i])
          /\ attachedKey[i] \in {NoAddr, key[s]}
      BY <1>2, ResumeIs
    <2>2. UNCHANGED <<state, key>> /\ waiting' \subseteq waiting
      BY <1>2 DEF Resume
    <2>3. SUFFICES ASSUME NEW w \in waiting, NEW j \in Instances, NEW e \in registered'[j],
                          state[w[2]] = "open", key[w[2]] = e[1], e[1] \notin Declarable
                   PROVE  table'[w[2]][e[2]] = j
      BY <2>2 DEF WaitingSee
    <2>4. w[2] \in Servers
      BY <1>0
    <2>5. CASE e \in registered[j]
      <3>1. table[w[2]][e[2]] = j
        BY <1>0, <2>3, <2>5 DEF WaitingSee
      <3>2. e[2] \in Routes
        BY <2>5 DEF PoolInv, TypeOK
      <3>3. CASE Attached(i, s, key[s])
        BY <2>4, <3>1, <3>2, <3>3, AdmittedTable, PoolAssumption DEF PoolInv
      <3>4. CASE table' = table
        BY <3>1, <3>4
      <3>5. QED
        BY <2>1, <3>3, <3>4 DEF Finish, RouteTaken, RouteRegistered
    <2>6. CASE e \notin registered[j]
      <3>1. ~Untouched
        BY <2>3, <2>6 DEF Untouched, managerVars
      <3>2. CASE Refused /\ Entered(i)
        <4>1. RouteTaken(i, s, registered[i]) \/ RouteRegistered(i, s, key[s], registered[i])
              \/ Attached(i, s, key[s])
          BY <2>1 DEF Finish
        <4>2. j = i /\ e[1] = ListenAddr(i) /\ e[2] \in RoutesOf(i)
          BY <2>3, <2>6, <3>2, RewriteOwnership DEF Entered, Entries
        <4>3. CASE Attached(i, s, key[s])
          <5>1. attachedKey[i] # NoAddr
            BY <2>3, <4>2, ListenAddrType DEF PoolInv, KeysFit
          <5>2. key[w[2]] = key[s]
            BY <2>1, <2>3, <4>2, <5>1, AttachedIs
          <5>3. w[2] = s
            BY <2>1, <2>4, <5>2, OneHolder, PoolAssumption
          <5>4. QED
            BY <4>2, <4>3, <5>3, AdmittedTable DEF PoolInv
        <4>4. CASE RouteTaken(i, s, registered[i]) \/ RouteRegistered(i, s, key[s], registered[i])
          <5>1. Refreshed(i, registered[i])
            BY <4>4 DEF RouteTaken, RouteRegistered
          <5>2. registered' = registered
            BY <5>1 DEF Refreshed, PoolInv, TypeOK
          <5>3. QED
            BY <2>3, <2>6, <5>2
        <4>5. QED
          BY <4>1, <4>3, <4>4
      <3>3. CASE Attached(i, s, key[s]) /\ EnteredAt(i, key[s])
        <4>1. j = i /\ e[1] = key[s] /\ e[2] \in RoutesOf(i)
          BY <2>3, <2>6, <3>3, RewriteOwnership DEF EnteredAt, Entries
        <4>2. w[2] = s
          BY <2>1, <2>3, <2>4, <4>1, OneHolder, PoolAssumption
        <4>3. QED
          BY <3>3, <4>1, <4>2, AdmittedTable DEF PoolInv
      <3>4. QED
        BY <2>1, <3>1, <3>2, <3>3, FinishRegisters
    <2>7. QED
      BY <2>5, <2>6
  <1>3. ASSUME NEW i \in Instances, NEW a \in Addrs, Start(i, a)
        PROVE  WaitingSee'
    <2>1. Settled
      BY <1>3 DEF Start, StartAgain, StartFirst, StartWaiting, StartShared, Begin
    <2>2. CASE StartAgain(i, a) \/ StartShared(i, a)
      BY <2>1, <2>2, SettledSee DEF Settled, StartAgain, StartShared, serverVars, startVars
    <2>3. CASE StartFirst(i, a)
      <3>1. \A t \in Servers : state'[t] = "open" => state[t] = "open"
        BY <2>3 DEF StartFirst, PoolInv, TypeOK
      <3>2. waiting' = waiting
        BY <2>3 DEF StartFirst
      <3>3. QED
        BY <1>0, <2>1, <3>1, <3>2, SettledSee DEF Settled
    <2>4. CASE StartWaiting(i, a)
      <3>1. PICK s \in Servers : state[s] = "opening" /\ waiting' = waiting \cup {<<i, s>>}
        BY <2>4 DEF StartWaiting
      <3>2. state' = state
        BY <2>4 DEF StartWaiting, serverVars
      <3>3. \A w \in waiting' : state[w[2]] = "opening"
        BY <2>1, <3>1 DEF Settled
      <3>4. QED
        BY <3>2, <3>3, SettledSee
    <2>5. QED
      BY <1>3, <2>2, <2>3, <2>4 DEF Start
  <1>4. ASSUME NEW i \in Instances, Stop(i)
        PROVE  WaitingSee'
    <2>1. Settled /\ waiting' = waiting
      BY <1>4 DEF Stop, StopIdle, StopUnattached, StopShared, StopLast, Forget, startVars
    <2>2. \A t \in Servers : state'[t] = "open" => state[t] = "open"
      BY <1>4 DEF Stop, StopIdle, StopUnattached, StopShared, StopLast, Closed, serverVars,
         PoolInv, TypeOK
    <2>3. QED
      BY <1>0, <2>1, <2>2, SettledSee DEF Settled
  <1>5. ASSUME NEW s \in Servers, ListenFails(s)
        PROVE  WaitingSee'
    <2>1. Settled /\ waiting' \subseteq waiting
      BY <1>5 DEF ListenFails
    <2>2. \A t \in Servers : state'[t] = "open" => state[t] = "open"
      BY <1>5 DEF ListenFails, PoolInv, TypeOK
    <2>3. QED
      BY <1>0, <2>1, <2>2, SettledSee DEF Settled
  <1>6. ASSUME NEW i \in Instances, RegisterServer(i) \/ \E r \in Routes : AddRpcHandler(i, r)
        PROVE  WaitingSee'
    BY <1>6, SettledSee DEF RegisterServer, AddRpcHandler, Settled, serverVars, startVars
  <1>7. CASE UNCHANGED vars
    BY <1>0, <1>7 DEF vars, serverVars, startVars, managerVars, WaitingSee
  <1>8. QED
    BY <1>1, <1>2, <1>3, <1>4, <1>5, <1>6, <1>7 DEF Next

LEMMA RegistryStep ==
    ASSUME PoolInv, Orderly, [Next]_vars
    PROVE  RegistryFits' /\ RegisteredWhereServing'
  <1>1. \A j \in Instances : EnteredWell(j)'
    BY EntriesStep
  <1>2. WaitingSee'
    BY WaitingStep
  <1>3. QED
    BY <1>1, <1>2 DEF EnteredWell, WaitingSee, RegistryFits, RegisteredWhereServing
-----------------------------------------------------------------------------
(***************************************************************************)
(* Types.                                                                  *)
(***************************************************************************)
\* The parts of TypeOK: instances, servers in use, what they serve, starts
\* and the registry.
InstanceTypes ==
    /\ claims \in [Instances -> SUBSET Routes]
    /\ declared \in [Instances -> Addrs]
    /\ bindingKey \in [Instances -> Addrs \cup {NoAddr}]
    /\ attachedKey \in [Instances -> Addrs \cup {NoAddr}]

ServerTypes ==
    /\ pool \in [Addrs -> Servers \cup {NoServer}]
    /\ state \in [Servers -> {"unused", "opening", "open"}]
    /\ port \in [Servers -> Addrs \cup {NoAddr}]
    /\ key \in [Servers -> Addrs \cup {NoAddr}]
    /\ opener \in [Servers -> Instances \cup {NoInstance}]
    /\ waiting \subseteq Instances \X Servers

TableTypes ==
    /\ table \in [Servers -> [Routes -> Instances \cup {NoInstance}]]
    /\ fallback \in [Servers -> Instances \cup {NoInstance}]
    /\ refCount \in [Servers -> 0..Cardinality(Instances)]

RegistryTypes ==
    /\ owned \subseteq Addrs \X Routes
    /\ registered \in [Instances -> SUBSET (Addrs \X Routes)]

LEMMA TypesSplit ==
    /\ TypeOK <=> InstanceTypes /\ ServerTypes /\ TableTypes /\ RegistryTypes
    /\ TypeOK' <=> InstanceTypes' /\ ServerTypes' /\ TableTypes' /\ RegistryTypes'
  BY DEF TypeOK, InstanceTypes, ServerTypes, TableTypes, RegistryTypes

LEMMA FinishInstanceTypes ==
    ASSUME InstanceTypes, NEW i \in Instances, NEW s, NEW k \in Addrs, NEW E, Finish(i, s, k, E),
           declared' \in [Instances -> Addrs], claims' = claims
    PROVE  InstanceTypes'
  BY DEF InstanceTypes, Finish, RouteTaken, RouteRegistered, Attached

LEMMA InstanceTypesStep ==
    ASSUME PoolInv, Orderly, [Next]_vars
    PROVE  InstanceTypes'
  <1>0. InstanceTypes
    BY TypesSplit DEF PoolInv
  <1>1. ASSUME NEW i \in Instances, NEW a \in Addrs, StartShared(i, a)
        PROVE  InstanceTypes'
    <2>1. PICK s \in Servers : key[s] \in Addrs /\ Finish(i, s, key[s], Entries(i, ListenAddr(i)))
      BY <1>1, StartSharedIs
    <2>2. declared' \in [Instances -> Addrs] /\ claims' = claims
      BY <1>0, <1>1 DEF StartShared, Begin, InstanceTypes
    <2>3. QED
      BY <1>0, <2>1, <2>2, FinishInstanceTypes
  <1>2. ASSUME NEW s \in Servers, NEW a \in Addrs, Listening(s, a)
        PROVE  InstanceTypes'
    <2>1. opener[s] \in Instances /\ Finish(opener[s], s, a, registered[opener[s]])
      BY <1>2, ListeningIs DEF Listening
    <2>2. declared' \in [Instances -> Addrs] /\ claims' = claims
      BY <1>0, <1>2 DEF Listening, InstanceTypes
    <2>3. QED
      BY <1>0, <2>1, <2>2, FinishInstanceTypes
  <1>3. ASSUME NEW i \in Instances, NEW s \in Servers, Resume(i, s)
        PROVE  InstanceTypes'
    <2>1. key[s] \in Addrs /\ Finish(i, s, key[s], registered[i])
      BY <1>3, ResumeIs
    <2>2. declared' \in [Instances -> Addrs] /\ claims' = claims
      BY <1>0, <1>3 DEF Resume, InstanceTypes
    <2>3. QED
      BY <1>0, <2>1, <2>2, FinishInstanceTypes
  <1>4. ASSUME NEW i \in Instances, NEW a \in Addrs,
               StartAgain(i, a) \/ StartFirst(i, a) \/ StartWaiting(i, a)
        PROVE  InstanceTypes'
    BY <1>0, <1>4 DEF StartAgain, StartFirst, StartWaiting, Begin, InstanceTypes
  <1>5. ASSUME NEW i \in Instances, Stop(i)
        PROVE  InstanceTypes'
    BY <1>0, <1>5 DEF Stop, StopIdle, StopUnattached, StopShared, StopLast, Forget, InstanceTypes
  <1>6. ASSUME NEW i \in Instances, NEW r \in Routes, AddRpcHandler(i, r)
        PROVE  InstanceTypes'
    BY <1>0, <1>6 DEF AddRpcHandler, InstanceTypes
  <1>7. CASE UNCHANGED instanceVars
    BY <1>0, <1>7 DEF instanceVars, InstanceTypes
  <1>8. QED
    BY <1>1, <1>2, <1>3, <1>4, <1>5, <1>6, <1>7 DEF Next, vars, Start, RegisterServer, ListenFails

LEMMA ServerTypesStep ==
    ASSUME PoolInv, Orderly, [Next]_vars
    PROVE  ServerTypes'
  <1>0. ServerTypes
    BY TypesSplit DEF PoolInv
  <1>1. ASSUME NEW i \in Instances, NEW a \in Addrs, StartFirst(i, a)
        PROVE  ServerTypes'
    <2>1. Target(i, a) \in Addrs
      BY <1>1, BeginIs DEF StartFirst
    <2>2. QED
      BY <1>0, <1>1, <2>1 DEF StartFirst, ServerTypes
  <1>2. ASSUME NEW i \in Instances, NEW a \in Addrs, StartWaiting(i, a)
        PROVE  ServerTypes'
    BY <1>0, <1>2 DEF StartWaiting, serverVars, ServerTypes
  <1>3. ASSUME NEW s \in Servers, NEW a \in Addrs, Listening(s, a)
        PROVE  ServerTypes'
    BY <1>0, <1>3 DEF Listening, Moved, ServerTypes
  <1>4. ASSUME NEW s \in Servers, ListenFails(s)
        PROVE  ServerTypes'
    BY <1>0, <1>4 DEF ListenFails, ServerTypes
  <1>5. ASSUME NEW i \in Instances, NEW s \in Servers, Resume(i, s)
        PROVE  ServerTypes'
    BY <1>0, <1>5 DEF Resume, ServerTypes
  <1>6. ASSUME NEW i \in Instances, StopLast(i)
        PROVE  ServerTypes'
    BY <1>0, <1>6 DEF StopLast, Forget, startVars, Closed, ServerTypes
  <1>7. CASE UNCHANGED <<pool, state, port, key, opener, waiting>>
    BY <1>0, <1>7 DEF ServerTypes
  <1>8. QED
    BY <1>1, <1>2, <1>3, <1>4, <1>5, <1>6, <1>7 DEF Next, vars, serverVars, startVars, Start, Stop,
       AddRpcHandler, RegisterServer, StartAgain, StartShared, StopIdle, StopUnattached,
       StopShared, Forget

LEMMA TableTypesStep ==
    ASSUME PoolInv, Orderly, [Next]_vars, CountsFit'
    PROVE  TableTypes'
  <1>0. TableTypes
    BY TypesSplit DEF PoolInv
  <1>1. /\ table' \in [Servers -> [Routes -> Instances \cup {NoInstance}]]
        /\ DOMAIN refCount' = Servers /\ refCount' = [s \in Servers |-> refCount'[s]]
    <2>1. ASSUME NEW i \in Instances, NEW s \in Servers, Comes(i, s)
          PROVE  /\ table' \in [Servers -> [Routes -> Instances \cup {NoInstance}]]
                 /\ DOMAIN refCount' = Servers /\ refCount' = [t \in Servers |-> refCount'[t]]
      BY <1>0, <2>1 DEF Comes, Attached, Refused, TableTypes
    <2>2. ASSUME NEW i \in Instances, NEW s \in Servers, Goes(i, s)
          PROVE  /\ table' \in [Servers -> [Routes -> Instances \cup {NoInstance}]]
                 /\ DOMAIN refCount' = Servers /\ refCount' = [t \in Servers |-> refCount'[t]]
      BY <1>0, <2>2 DEF Goes, Without, TableTypes
    <2>3. CASE Stays
      BY <1>0, <2>3 DEF Stays, TableTypes
    <2>4. QED
      BY <2>1, <2>2, <2>3, ComesGoesOrStays
  <1>2. \A s \in Servers : refCount'[s] \in 0..Cardinality(Instances)
    <2>1. \A s \in Servers : Users(s)' \in SUBSET Instances
      BY DEF Users
    <2>2. QED
      BY <2>1, UsersAreFinite DEF CountsFit
  <1>3. fallback' \in [Servers -> Instances \cup {NoInstance}]
    <2>1. ASSUME NEW i \in Instances, NEW s \in Servers, NEW k, NEW E, Finish(i, s, k, E)
          PROVE  fallback' \in [Servers -> Instances \cup {NoInstance}]
      BY <1>0, <2>1 DEF Finish, RouteTaken, RouteRegistered, Attached, TableTypes
    <2>2. ASSUME NEW i \in Instances, NEW a \in Addrs, StartShared(i, a)
          PROVE  fallback' \in [Servers -> Instances \cup {NoInstance}]
      BY <2>1, <2>2, StartSharedIs
    <2>3. ASSUME NEW s \in Servers, NEW a \in Addrs, Listening(s, a)
          PROVE  fallback' \in [Servers -> Instances \cup {NoInstance}]
      BY <2>1, <2>3, ListeningIs DEF Listening
    <2>4. ASSUME NEW i \in Instances, NEW s \in Servers, Resume(i, s)
          PROVE  fallback' \in [Servers -> Instances \cup {NoInstance}]
      BY <2>1, <2>4, ResumeIs
    <2>5. ASSUME NEW i \in Instances, StopShared(i) \/ StopLast(i)
          PROVE  fallback' \in [Servers -> Instances \cup {NoInstance}]
      BY <1>0, <2>5 DEF StopShared, StopLast, TableTypes
    <2>6. CASE UNCHANGED fallback
      BY <1>0, <2>6 DEF TableTypes
    <2>7. QED
      BY <2>2, <2>3, <2>4, <2>5, <2>6 DEF Next, vars, serverVars, Start, Stop, AddRpcHandler,
         RegisterServer, StartAgain, StartFirst, StartWaiting, StopIdle, StopUnattached, ListenFails
  <1>4. refCount' \in [Servers -> 0..Cardinality(Instances)]
    BY <1>1, <1>2
  <1>5. QED
    BY <1>1, <1>3, <1>4 DEF TableTypes

LEMMA RegistryTypesStep ==
    ASSUME PoolInv, Orderly, [Next]_vars
    PROVE  RegistryTypes'
  <1>0. RegistryTypes
    BY TypesSplit DEF PoolInv
  <1>1. \A i \in Instances, k \in Addrs : Entries(i, k) \subseteq Addrs \X Routes
    BY PoolAssumption DEF Entries, RoutesOf, PoolInv, TypeOK
  <1>2. ASSUME NEW i \in Instances, NEW E \in SUBSET (Addrs \X Routes), Rewrites(i, E)
        PROVE  RegistryTypes'
    BY <1>0, <1>2 DEF Rewrites, RegistryTypes
  <1>3. CASE Untouched
    BY <1>0, <1>3 DEF Untouched, managerVars, RegistryTypes
  <1>4. ASSUME NEW i \in Instances, StruckOff(i)
        PROVE  RegistryTypes'
    BY <1>2, <1>4 DEF StruckOff
  <1>5. ASSUME NEW i \in Instances, Entered(i)
        PROVE  RegistryTypes'
    BY <1>1, <1>2, <1>5, ListenAddrType DEF Entered
  <1>6. ASSUME NEW i \in Instances, NEW k \in Addrs, EnteredAt(i, k)
        PROVE  RegistryTypes'
    BY <1>1, <1>2, <1>6 DEF EnteredAt
  <1>7. QED
    BY <1>3, <1>4, <1>5, <1>6, RegistryChangesSo DEF RegistryChanges
-----------------------------------------------------------------------------
(***************************************************************************)
(* The theorems.                                                           *)
(***************************************************************************)
LEMMA PoolInvInit ==
    ASSUME Init
    PROVE  PoolInv
  <1>1. InstanceTypes /\ ServerTypes /\ RegistryTypes
    BY PoolAssumption DEF Init, InstanceTypes, ServerTypes, RegistryTypes
  <1>2. Cardinality(Instances) \in Nat
    BY PoolAssumption, FS_CardinalityType
  <1>3. TableTypes
    BY <1>2 DEF Init, Empty, TableTypes
  <1>4. /\ \A s \in Servers : /\ state[s] = "unused" /\ key[s] = NoAddr /\ refCount[s] = 0
                              /\ fallback[s] = NoInstance /\ opener[s] = NoInstance
        /\ \A s \in Servers, r \in Routes : table[s][r] = NoInstance
        /\ \A a \in Addrs : pool[a] = NoServer
        /\ \A i \in Instances : /\ declared[i] \in Declarable /\ bindingKey[i] = NoAddr
                                /\ attachedKey[i] = NoAddr /\ registered[i] = {}
        /\ waiting = {} /\ owned = {}
    BY DEF Init, Empty
  <1>5. \A s \in Servers, i \in Instances : ~Serves(s, i)
    BY <1>4 DEF Serves
  <1>6. PoolFits
    BY <1>4, PoolAssumption DEF PoolFits
  <1>7. KeysFit /\ UsersFit
    BY <1>4 DEF KeysFit, UsersFit
  <1>8. StartsFit
    BY <1>4, PoolAssumption DEF StartsFit, Joins
  <1>9. TablesFit
    BY <1>4, <1>5 DEF TablesFit
  <1>10. CountsFit
    <2>1. \A s \in Servers : Users(s) = {}
      BY <1>5 DEF Users
    <2>2. QED
      BY <1>4, <2>1, FS_EmptySet DEF CountsFit
  <1>11. OwnershipExact /\ RegistryFits /\ RegisteredWhereServing
    BY <1>4 DEF OwnershipExact, RegistryFits, RegisteredWhereServing
  <1>12. QED
    BY <1>1, <1>3, <1>6, <1>7, <1>8, <1>9, <1>10, <1>11, TypesSplit DEF PoolInv

LEMMA PoolInvStep ==
    ASSUME PoolInv, Orderly, [Next]_vars
    PROVE  PoolInv'
  <1>1. PoolFits' /\ KeysFit' /\ StartsFit' /\ TablesFit' /\ CountsFit'
    BY PoolStep, KeysStep, StartsStep, TablesStep, CountsStep
  <1>2. OwnershipExact' /\ RegistryFits' /\ RegisteredWhereServing' /\ UsersFit'
    BY OwnershipStep, RegistryStep, UsersStep
  <1>3. TypeOK'
    BY <1>1, InstanceTypesStep, ServerTypesStep, TableTypesStep, RegistryTypesStep, TypesSplit
  <1>4. QED
    BY <1>1, <1>2, <1>3 DEF PoolInv

\* The inductive invariant: pool, addresses, starts under way, route tables,
\* counts and registrations fit together in every state.
THEOREM PoolInvariant ==
    ASSUME Orderly
    PROVE  Spec => []PoolInv
  BY PoolInvInit, PoolInvStep, PTL DEF Spec

\* TypeOK: every reachable state is well typed; no count exceeds the number
\* of instances.
THEOREM PoolTypes ==
    ASSUME Orderly
    PROVE  Spec => []TypeOK
  <1>1. PoolInv => TypeOK
    BY DEF PoolInv
  <1>2. QED
    BY <1>1, PoolInvariant, PTL

LEMMA CountsAreExact ==
    ASSUME PoolInv
    PROVE  CountIsAttached
  <1> SUFFICES ASSUME NEW s \in Servers, state[s] # "unused"
               PROVE  refCount[s] =
                        Cardinality({i \in Instances : attachedKey[i] = key[s] /\ pool[key[s]] = s})
    BY DEF CountIsAttached
  <1>1. key[s] \in Addrs /\ key[s] # NoAddr /\ pool[key[s]] = s
    BY PoolAssumption DEF PoolInv, TypeOK, PoolFits
  <1>2. {i \in Instances : attachedKey[i] = key[s] /\ pool[key[s]] = s} = Users(s)
    BY <1>1, AttachedIs DEF Users, Serves
  <1>3. QED
    BY <1>2 DEF PoolInv, CountsFit

\* CountIsAttached: a server's reference count is the number of instances
\* attached to it, however starts and stops overlap.
THEOREM CountsAreAttached ==
    ASSUME Orderly
    PROVE  Spec => []CountIsAttached
  <1>1. PoolInv => CountIsAttached
    BY CountsAreExact
  <1>2. QED
    BY <1>1, PoolInvariant, PTL

\* A server has users exactly if it has a count.
LEMMA CountedAreUsed ==
    ASSUME PoolInv, NEW s \in Servers
    PROVE  refCount[s] \in Nat /\ (refCount[s] = 0 <=> \A i \in Instances : ~Serves(s, i))
  <1>1. IsFiniteSet(Users(s)) /\ refCount[s] = Cardinality(Users(s))
    BY UsersAreFinite DEF Users, PoolInv, CountsFit
  <1>2. Cardinality(Users(s)) \in Nat /\ (Cardinality(Users(s)) = 0 <=> Users(s) = {})
    BY <1>1, FS_CardinalityType, FS_EmptySet
  <1>3. QED
    BY <1>1, <1>2 DEF Users

LEMMA RoutesLeadHome ==
    ASSUME PoolInv
    PROVE  RoutesReachAttached
  <1>0. TypeOK /\ TablesFit
    BY DEF PoolInv
  <1>1. \A s \in Servers, r \in Routes : table[s][r] # NoInstance => attachedKey[table[s][r]] = key[s]
    BY <1>0 DEF TablesFit, Serves
  <1>2. \A s \in Servers : fallback[s] # NoInstance => attachedKey[fallback[s]] = key[s]
    BY <1>0 DEF TablesFit, Serves
  <1>3. ASSUME NEW s \in Servers
        PROVE  fallback[s] = NoInstance <=> refCount[s] = 0
    <2>1. fallback[s] # NoInstance => fallback[s] \in Instances /\ Serves(s, fallback[s])
      BY <1>0 DEF TypeOK, TablesFit
    <2>2. \A i \in Instances : Serves(s, i) => fallback[s] # NoInstance
      BY <1>0 DEF TablesFit
    <2>3. QED
      BY <2>1, <2>2, CountedAreUsed
  <1>4. ASSUME NEW i \in Instances, attachedKey[i] # NoAddr
        PROVE  /\ pool[attachedKey[i]] # NoServer
               /\ state[pool[attachedKey[i]]] = "open"
               /\ \E r \in Routes : table[pool[attachedKey[i]]][r] = i
    <2>1. PICK s \in Servers : Serves(s, i) /\ pool[attachedKey[i]] = s
      BY <1>4, AttachedIs
    <2>2. \E r \in Routes : table[s][r] = i
      BY <1>0, <2>1 DEF TablesFit
    <2>3. QED
      BY <2>1, <2>2, PoolAssumption DEF Serves
  <1>5. QED
    BY <1>1, <1>2, <1>3, <1>4 DEF RoutesReachAttached

\* RoutesReachAttached: routes and fallback of a server lead to instances
\* attached to it, and each of those is reached by some route.
THEOREM RoutesReach ==
    ASSUME Orderly
    PROVE  Spec => []RoutesReachAttached
  <1>1. PoolInv => RoutesReachAttached
    BY RoutesLeadHome
  <1>2. QED
    BY <1>1, PoolInvariant, PTL

\* NoOrphan: where no transport is registered, no server listens for nobody.
THEOREM NobodyIsOrphaned ==
    ASSUME Orderly, Managed = {}
    PROVE  Spec => []NoOrphan
  <1>1. PoolInv => NoOrphan
    <2>1. PoolFits => \A u \in Servers : state[u] = "open" => key[u] # NoAddr
      BY DEF PoolFits
    <2>2. QED
      BY <2>1 DEF PoolInv, UsersFit, Serves, NoOrphan
  <1>2. QED
    BY <1>1, PoolInvariant, PTL

\* KeyIsTrue: a listening server is found under the address it listens at.
THEOREM KeysAreTrue ==
    ASSUME Orderly
    PROVE  Spec => []KeyIsTrue
  <1>1. ASSUME PoolInv
        PROVE  KeyIsTrue
    <2>1. \A s \in Servers : state[s] = "open" => key[s] = port[s] /\ key[s] \in Addrs
      BY <1>1 DEF PoolInv, TypeOK, PoolFits
    <2>2. QED
      BY <1>1, <2>1 DEF KeyIsTrue, PoolInv, PoolFits
  <1>2. QED
    BY <1>1, PoolInvariant, PTL

\* OwnershipExact: the ownership table is what the registrations say, and no
\* route is registered twice.
THEOREM OwnershipIsExact ==
    ASSUME Orderly
    PROVE  Spec => []OwnershipExact
  <1>1. PoolInv => OwnershipExact
    BY DEF PoolInv
  <1>2. QED
    BY <1>1, PoolInvariant, PTL

\* RegisteredWhereServing: a registered instance that serves is registered
\* where it serves.
THEOREM RegistrationFollows ==
    ASSUME Orderly
    PROVE  Spec => []RegisteredWhereServing
  <1>1. PoolInv => RegisteredWhereServing
    BY DEF PoolInv
  <1>2. QED
    BY <1>1, PoolInvariant, PTL

LEMMA RoutesAreKept ==
    ASSUME PoolInv, Orderly, [Next]_vars, NEW s \in Servers, NEW r \in Routes,
           table[s][r] # NoInstance, table'[s][r] # table[s][r]
    PROVE  attachedKey'[table[s][r]] = NoAddr
  <1>0. TypeOK
    BY DEF PoolInv
  <1>1. ASSUME NEW i \in Instances, NEW t \in Servers, Comes(i, t)
        PROVE  FALSE
    BY <1>0, <1>1, AdmittedTable DEF Comes, Refused
  <1>2. ASSUME NEW i \in Instances, NEW t \in Servers, Goes(i, t)
        PROVE  attachedKey'[table[s][r]] = NoAddr
    <2>1. table[s][r] = i
      BY <1>0, <1>2 DEF Goes, Without, TypeOK
    <2>2. QED
      BY <1>0, <1>2, <2>1 DEF Goes, TypeOK
  <1>3. ~Stays
    BY DEF Stays
  <1>4. QED
    BY <1>1, <1>2, <1>3, ComesGoesOrStays

\* NoHijack: a route that is served changes hands only when its instance lets
\* go of it.
THEOREM NobodyIsHijacked ==
    ASSUME Orderly
    PROVE  Spec => NoHijack
  <1>1. PoolInv /\ [Next]_vars =>
          [\A s \in Servers, r \in Routes :
             LET i == table[s][r] IN
             i # NoInstance /\ table'[s][r] # i => attachedKey'[i] = NoAddr]_vars
    BY RoutesAreKept
  <1>2. QED
    BY <1>1, PoolInvariant, PTL DEF Spec, NoHijack
=============================================================================
