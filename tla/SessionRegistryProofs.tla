------------------------ MODULE SessionRegistryProofs ------------------------
(***************************************************************************)
(* The credential registry's invariants, for any numbers of identities and *)
(* credentials and any limits.                                             *)
(***************************************************************************)
EXTENDS SessionRegistry, FiniteSetTheorems, TLAPS

\* What is counted is what was shown, for as long as a credential lives.
CountsAgree == \A c \in Credentials : shown[c] = (IF c \in issued THEN entry[c].uses ELSE 0)
WithinLimit == Limited => \A c \in Credentials : shown[c] <= MaxUses
Finite == IsFiniteSet(table)

RegistryInv == TypeOK /\ OneCredentialEach /\ CountsAgree /\ WithinLimit /\ Finite /\ CapacityKept

\* Dropping a set of credentials, each with its index entry.
Dropped(S) ==
    /\ table' = table \ S
    /\ index' = IndexWithout(S)
    /\ UNCHANGED <<entry, issued, shown>>
    /\ barred' \subseteq issued

LEMMA FewerAreFewer ==
    ASSUME NEW S, NEW T \in SUBSET S, IsFiniteSet(S)
    PROVE  IsFiniteSet(T) /\ Cardinality(T) <= Cardinality(S) /\ Cardinality(T) \in Nat /\ Cardinality(S) \in Nat
  BY FS_Subset, FS_CardinalityType

\* While the maps are inverses, an index entry goes exactly if its credential does.
LEMMA IndexWithoutIs ==
    ASSUME TypeOK, OneCredentialEach, NEW S, S \subseteq table
    PROVE  IndexWithout(S) = [i \in Identities |-> IF index[i] \in S THEN NoCredential ELSE index[i]]
  BY RegistryAssumption DEF TypeOK, OneCredentialEach, IndexWithout

LEMMA DropKeepsInv ==
    ASSUME RegistryInv, NEW S, S \subseteq table, Dropped(S)
    PROVE  RegistryInv'
  <1> USE RegistryAssumption DEF RegistryInv
  <1>1. TypeOK'
    BY DEF TypeOK, Dropped, IndexWithout
  <1>2. OneCredentialEach'
    <2>1. \A i \in Identities : index'[i] = IF index[i] \in S THEN NoCredential ELSE index[i]
      BY IndexWithoutIs DEF Dropped
    <2>2. \A c \in table : entry[c].identity \in Identities
      BY DEF TypeOK, Entry
    <2>3. QED
      BY <2>1, <2>2 DEF Dropped, OneCredentialEach, TypeOK
  <1>3. CountsAgree' /\ WithinLimit'
    BY DEF Dropped, CountsAgree, WithinLimit
  <1>4. Finite' /\ CapacityKept'
    BY FewerAreFewer DEF Dropped, Finite, CapacityKept
  <1>5. QED
    BY <1>1, <1>2, <1>3, <1>4

\* Issuing a fresh credential into what is left of the table.
LEMMA IssueKeepsInv ==
    ASSUME RegistryInv, NEW S, S \subseteq table, NEW i \in Identities, NEW c \in Credentials,
           Issue(c, i, table \ S, IndexWithout(S)), index[i] \notin table,
           Cardinality(table \ S) < MaxEntries
    PROVE  RegistryInv'
  <1> USE RegistryAssumption DEF RegistryInv
  <1>1. /\ c \notin issued /\ c \notin table
        /\ table' = (table \ S) \cup {c}
        /\ entry' = [entry EXCEPT ![c] = [identity |-> i, left |-> TTL, uses |-> 0]]
        /\ index' = [IndexWithout(S) EXCEPT ![i] = c]
        /\ issued' = issued \cup {c} /\ shown' = shown /\ barred' = barred
    BY DEF Issue, Fresh, TypeOK
  <1>2. TypeOK'
    <2>1. [identity |-> i, left |-> TTL, uses |-> 0] \in Entry
      BY DEF Entry
    <2>2. entry' \in [Credentials -> Entry]
      BY <1>1, <2>1 DEF TypeOK
    <2>3. index' \in [Identities -> Credentials \cup {NoCredential}]
      BY <1>1 DEF TypeOK, IndexWithout
    <2>4. QED
      BY <1>1, <2>2, <2>3 DEF TypeOK
  <1>3. OneCredentialEach'
    <2>1. index'[i] = c /\ \A j \in Identities \ {i} :
             index'[j] = IF index[j] \in S THEN NoCredential ELSE index[j]
      BY <1>1, IndexWithoutIs
    <2>2. entry'[c].identity = i /\ \A d \in Credentials \ {c} : entry'[d] = entry[d]
      BY <1>1 DEF TypeOK
    <2>3. \A d \in table : d \in Credentials \ {c} /\ entry[d].identity \in Identities \ {i}
      BY <1>1 DEF TypeOK, Entry, OneCredentialEach
    <2>4. \A d \in table' : index'[entry'[d].identity] = d
      BY <1>1, <2>1, <2>2, <2>3 DEF OneCredentialEach
    <2>5. \A j \in Identities : index'[j] # NoCredential =>
             index'[j] \in table' /\ entry'[index'[j]].identity = j
      BY <1>1, <2>1, <2>2, <2>3 DEF OneCredentialEach
    <2>6. QED
      BY <2>4, <2>5 DEF OneCredentialEach
  <1>4. CountsAgree' /\ WithinLimit'
    <2>1. shown[c] = 0
      BY <1>1 DEF CountsAgree
    <2>2. CountsAgree'
      BY <1>1, <2>1 DEF CountsAgree, TypeOK
    <2>3. WithinLimit'
      BY <1>1 DEF WithinLimit
    <2>4. QED
      BY <2>2, <2>3
  <1>5. Finite' /\ CapacityKept'
    <2>1. IsFiniteSet(table \ S) /\ Cardinality(table \ S) \in Nat /\ c \notin table \ S
      BY <1>1, FewerAreFewer DEF Finite
    <2>2. IsFiniteSet(table') /\ Cardinality(table') = Cardinality(table \ S) + 1
      BY <1>1, <2>1, FS_AddElement
    <2>3. QED
      BY <2>1, <2>2 DEF Finite, CapacityKept
  <1>6. QED
    BY <1>2, <1>3, <1>4, <1>5

\* Every step keeps the invariant.
LEMMA NextKeepsInv == RegistryInv /\ [Next]_vars => RegistryInv'
  <1> SUFFICES ASSUME RegistryInv, [Next]_vars PROVE RegistryInv'
    OBVIOUS
  <1> USE RegistryAssumption DEF RegistryInv
  <1>0. /\ table = table \ {} /\ {} \subseteq table /\ Pruned \subseteq table
        /\ index = IndexWithout({})
    BY DEF IndexWithout, TypeOK, Pruned
  <1>1. CASE UNCHANGED vars
    BY <1>1 DEF vars, TypeOK, OneCredentialEach, CountsAgree, WithinLimit, Finite, CapacityKept
  <1>2. ASSUME NEW i \in Identities, Renew(i)
        PROVE  RegistryInv'
    <2>1. index[i] \in Credentials /\ index[i] \in issued
      BY <1>2 DEF Renew, TypeOK
    <2>2. \A c \in Credentials : /\ entry'[c].identity = entry[c].identity
                                 /\ entry'[c].uses = entry[c].uses
                                 /\ entry'[c] \in Entry
      BY <1>2, <2>1 DEF Renew, TypeOK, Entry
    <2>3. entry' = [entry EXCEPT ![index[i]].left = TTL] /\ UNCHANGED <<table, index, issued, shown, barred>>
      BY <1>2 DEF Renew
    <2>4. TypeOK'
      BY <2>2, <2>3 DEF TypeOK
    <2>5. OneCredentialEach' /\ CountsAgree' /\ WithinLimit' /\ Finite' /\ CapacityKept'
      BY <2>2, <2>3 DEF TypeOK, OneCredentialEach, CountsAgree, WithinLimit, Finite, CapacityKept
    <2>6. QED
      BY <2>4, <2>5
  <1>3. ASSUME NEW i \in Identities, Grant(i) \/ GrantPruned(i)
        PROVE  RegistryInv'
    <2>1. CASE Grant(i)
      <3>1. PICK c \in Credentials : Issue(c, i, table \ {}, IndexWithout({}))
        BY <1>0, <2>1 DEF Grant
      <3>2. Cardinality(table \ {}) < MaxEntries
        BY <1>0, <2>1 DEF Grant
      <3>3. QED
        BY <1>0, <2>1, <3>1, <3>2, IssueKeepsInv DEF Grant
    <2>2. CASE GrantPruned(i)
      BY <1>0, <2>2, IssueKeepsInv DEF GrantPruned
    <2>3. QED
      BY <1>3, <2>1, <2>2
  <1>4. ASSUME NEW i \in Identities, Deny(i)
        PROVE  RegistryInv'
    <2>1. index[i] = NoCredential
      BY <1>4 DEF Deny, OneCredentialEach
    <2>2. [IndexWithout(Pruned) EXCEPT ![i] = NoCredential] = IndexWithout(Pruned)
      <3>1. IndexWithout(Pruned)[i] = NoCredential
        BY <2>1 DEF IndexWithout
      <3>2. QED
        BY <3>1 DEF IndexWithout
    <2>3. Dropped(Pruned)
      BY <1>4, <2>2 DEF Deny, Dropped, TypeOK
    <2>4. QED
      BY <1>0, <2>3, DropKeepsInv
  <1>5. ASSUME NEW i \in Identities, Revoke(i)
        PROVE  RegistryInv'
    <2>1. \A j \in Identities : index[j] = index[i] /\ index[j] # NoCredential => j = i
      BY DEF OneCredentialEach
    <2>2. CASE index[i] = NoCredential
      <3>1. table \ {index[i]} = table \ {} /\ [index EXCEPT ![i] = NoCredential] = index
        BY <2>2 DEF TypeOK
      <3>2. Dropped({})
        BY <1>0, <1>5, <3>1 DEF Revoke, Dropped, TypeOK
      <3>3. QED
        BY <1>0, <3>2, DropKeepsInv
    <2>3. CASE index[i] # NoCredential
      <3>1. index[i] \in table
        BY <2>3 DEF OneCredentialEach
      <3>2. [index EXCEPT ![i] = NoCredential] = IndexWithout({index[i]})
        <4>1. IndexWithout({index[i]}) =
                [j \in Identities |-> IF index[j] \in {index[i]} THEN NoCredential ELSE index[j]]
          BY <3>1, IndexWithoutIs
        <4>2. \A j \in Identities : index[j] \in {index[i]} <=> j = i
          BY <2>1, <2>3
        <4>3. QED
          BY <4>1, <4>2 DEF TypeOK
      <3>3. Dropped({index[i]})
        BY <1>5, <3>2 DEF Revoke, Dropped, TypeOK
      <3>4. QED
        BY <3>1, <3>3, DropKeepsInv
    <2>4. QED
      BY <2>2, <2>3
  <1>6. ASSUME NEW c \in Credentials, Reject(c)
        PROVE  RegistryInv'
    <2>1. {c} \subseteq table /\ barred \subseteq issued
      BY <1>6 DEF Reject, TypeOK
    <2>2. Dropped({c})
      BY <1>6, <2>1 DEF Reject, Dropped
    <2>3. QED
      BY <2>1, <2>2, DropKeepsInv
  <1>7. ASSUME NEW c \in Credentials, Honour(c)
        PROVE  RegistryInv'
    <2>1. /\ c \in issued /\ (Limited => entry[c].uses < MaxUses)
          /\ entry[c] \in Entry /\ entry[c].uses \in Nat
      BY <1>7 DEF Honour, UsedUp, TypeOK, Entry
    <2>2. /\ UNCHANGED <<table, index, issued, barred>>
          /\ entry' = [entry EXCEPT ![c].left = TTL, ![c].uses = IF Limited THEN @ + 1 ELSE @]
          /\ shown' = [shown EXCEPT ![c] = IF Limited THEN @ + 1 ELSE @]
      BY <1>7 DEF Honour
    <2>3. /\ \A d \in Credentials : entry'[d].identity = entry[d].identity
          /\ entry'[c] \in Entry
          /\ entry'[c].uses = IF Limited THEN entry[c].uses + 1 ELSE entry[c].uses
          /\ \A d \in Credentials \ {c} : entry'[d] = entry[d]
      <3>1. entry'[c] = [identity |-> entry[c].identity, left |-> TTL,
                         uses |-> IF Limited THEN entry[c].uses + 1 ELSE entry[c].uses]
        BY <2>1, <2>2 DEF TypeOK, Entry
      <3>2. \A d \in Credentials \ {c} : entry'[d] = entry[d]
        BY <2>2 DEF TypeOK
      <3>3. entry'[c] \in Entry
        BY <2>1, <3>1 DEF Entry
      <3>4. QED
        BY <3>1, <3>2, <3>3
    <2>4. TypeOK'
      <3>1. entry' \in [Credentials -> Entry]
        BY <2>2, <2>3 DEF TypeOK
      <3>2. shown' \in [Credentials -> Nat]
        BY <2>2 DEF TypeOK
      <3>3. QED
        BY <2>2, <3>1, <3>2 DEF TypeOK
    <2>5. OneCredentialEach'
      BY <2>2, <2>3 DEF OneCredentialEach, TypeOK
    <2>6. CountsAgree' /\ WithinLimit'
      BY <2>1, <2>2, <2>3 DEF CountsAgree, WithinLimit, TypeOK
    <2>7. QED
      BY <2>2, <2>4, <2>5, <2>6 DEF Finite, CapacityKept
  <1>8. CASE Prune
    BY <1>0, <1>8, DropKeepsInv DEF Prune, Dropped, TypeOK
  <1>9. CASE Tick
    <2>1. \A c \in Credentials : /\ entry'[c].identity = entry[c].identity
                                 /\ entry'[c].uses = entry[c].uses
                                 /\ entry'[c] \in Entry
      <3> SUFFICES ASSUME NEW c \in Credentials
                   PROVE  /\ entry'[c].identity = entry[c].identity
                          /\ entry'[c].uses = entry[c].uses
                          /\ entry'[c] \in Entry
        OBVIOUS
      <3>1. entry[c] \in Entry
        BY DEF TypeOK
      <3>2. entry'[c] = [entry[c] EXCEPT !.left = IF @ = 0 THEN 0 ELSE @ - 1]
        BY <1>9 DEF Tick
      <3>3. entry'[c] = [identity |-> entry[c].identity,
                         left |-> IF entry[c].left = 0 THEN 0 ELSE entry[c].left - 1,
                         uses |-> entry[c].uses]
        BY <3>1, <3>2 DEF Entry
      <3>4. (IF entry[c].left = 0 THEN 0 ELSE entry[c].left - 1) \in 0..TTL
        BY <3>1 DEF Entry
      <3>5. QED
        BY <3>1, <3>3, <3>4 DEF Entry
    <2>2. /\ entry' = [c \in Credentials |-> [entry[c] EXCEPT !.left = IF @ = 0 THEN 0 ELSE @ - 1]]
          /\ UNCHANGED <<table, index, issued, shown, barred>>
      BY <1>9 DEF Tick
    <2>3. TypeOK'
      BY <2>1, <2>2 DEF TypeOK
    <2>4. QED
      BY <2>1, <2>2, <2>3
      DEF TypeOK, OneCredentialEach, CountsAgree, WithinLimit, Finite, CapacityKept
  <1>10. QED
    BY <1>1, <1>2, <1>3, <1>4, <1>5, <1>6, <1>7, <1>8, <1>9
    DEF Next, EnsureCredential, LookupIdentity

LEMMA InitInv == Init => RegistryInv
  <1> SUFFICES ASSUME Init PROVE RegistryInv
    OBVIOUS
  <1> USE RegistryAssumption
  <1>1. PICK i \in Identities : entry = [c \in Credentials |-> [identity |-> i, left |-> 0, uses |-> 0]]
    BY DEF Init
  <1>2. TypeOK
    BY <1>1 DEF Init, TypeOK, Entry
  <1>3. Finite /\ CapacityKept
    BY FS_EmptySet DEF Init, Finite, CapacityKept
  <1>4. OneCredentialEach /\ CountsAgree /\ WithinLimit
    BY DEF Init, OneCredentialEach, CountsAgree, WithinLimit
  <1>5. QED
    BY <1>2, <1>3, <1>4 DEF RegistryInv

\* The inductive invariant holds in every reachable state of the registry.
THEOREM RegistryInvariant == Spec => []RegistryInv
  BY InitInv, NextKeepsInv, PTL DEF Spec

\* TypeOK: every reachable state of the registry is well typed; what was left
\* of a window never grows beyond one TTL.
THEOREM RegistryTypes == Spec => []TypeOK
  <1>1. RegistryInv => TypeOK
    BY DEF RegistryInv
  <1>2. QED
    BY <1>1, RegistryInvariant, PTL

\* OneCredentialEach: entries and identityIndex stay inverses of each other.
THEOREM MapsStayInverse == Spec => []OneCredentialEach
  <1>1. RegistryInv => OneCredentialEach
    BY DEF RegistryInv
  <1>2. QED
    BY <1>1, RegistryInvariant, PTL

\* CapacityKept: the table never holds more than maxEntries credentials.
THEOREM CapacityIsKept == Spec => []CapacityKept
  <1>1. RegistryInv => CapacityKept
    BY DEF RegistryInv
  <1>2. QED
    BY <1>1, RegistryInvariant, PTL

\* ReplayWindow: no credential is honoured more than maxUses times.
THEOREM ReplayIsBounded == Spec => []ReplayWindow
  <1>1. RegistryInv => ReplayWindow
    BY DEF RegistryInv, WithinLimit, ReplayWindow
  <1>2. QED
    BY <1>1, RegistryInvariant, PTL

\* What is in the table was issued to an identity whose index names it, so
\* revoking the identity leaves none of its credentials there.
LEMMA RevokedStep ==
    ASSUME RegistryInv, RevokedIsOut, [Next]_vars
    PROVE  RevokedIsOut'
  <1> USE DEF RevokedIsOut
  <1>1. ASSUME NEW i \in Identities, Revoke(i)
        PROVE  RevokedIsOut'
    <2>1. \A c \in table : entry[c].identity = i => c = index[i]
      BY DEF RegistryInv, OneCredentialEach
    <2>2. QED
      BY <1>1, <2>1 DEF Revoke
  <1>2. ASSUME NEW i \in Identities, Grant(i) \/ GrantPruned(i)
        PROVE  RevokedIsOut'
    <2>1. PICK c \in Credentials : c \notin issued /\ barred' = barred /\ table' \subseteq table \cup {c}
      BY <1>2 DEF Grant, GrantPruned, Issue, Fresh
    <2>2. barred \subseteq issued
      BY DEF RegistryInv, TypeOK
    <2>3. QED
      BY <2>1, <2>2
  <1>3. ASSUME NEW i \in Identities, Renew(i) \/ Deny(i)
        PROVE  RevokedIsOut'
    BY <1>3 DEF Renew, Deny
  <1>4. ASSUME NEW c \in Credentials, LookupIdentity(c)
        PROVE  RevokedIsOut'
    BY <1>4 DEF LookupIdentity, Reject, Honour
  <1>5. CASE Prune \/ Tick \/ UNCHANGED vars
    BY <1>5 DEF Prune, Tick, vars
  <1>6. QED
    BY <1>1, <1>2, <1>3, <1>4, <1>5 DEF Next, EnsureCredential

\* RevokedIsOut: no credential of an identity outlives its revocation, the
\* ones it had before a renewal, a pruning or a replacement included.
THEOREM RevokedStaysOut == Spec => []RevokedIsOut
  <1>1. Init => RegistryInv /\ RevokedIsOut
    BY InitInv DEF Init, RevokedIsOut
  <1>2. RegistryInv /\ RevokedIsOut /\ [Next]_vars => RegistryInv' /\ RevokedIsOut'
    BY NextKeepsInv, RevokedStep
  <1>3. QED
    BY <1>1, <1>2, PTL DEF Spec

\* ActiveIsKept: a credential that is neither expired nor used up only leaves
\* the table when its own identity is revoked.
THEOREM ActiveStays == Spec => ActiveIsKept
  <1> DEFINE Excused(c) ==
            \/ entry[c].left = 0
            \/ Limited /\ entry[c].uses >= MaxUses
            \/ Revoke(entry[c].identity)
  <1>1. RegistryInv /\ [Next]_vars => [\A c \in table \ table' : Excused(c)]_vars
    <2> SUFFICES ASSUME RegistryInv, Next, NEW c \in table \ table'
                 PROVE  Excused(c)
      OBVIOUS
    <2>1. ASSUME NEW i \in Identities, Grant(i) \/ Renew(i)
          PROVE  Excused(c)
      BY <2>1 DEF Grant, Issue, Renew
    <2>2. ASSUME NEW i \in Identities, GrantPruned(i) \/ Deny(i)
          PROVE  Excused(c)
      BY <2>2 DEF GrantPruned, Issue, Deny, Pruned, Expired
    <2>3. ASSUME NEW i \in Identities, Revoke(i)
          PROVE  Excused(c)
      <3>1. c = index[i] /\ index[i] # NoCredential
        BY <2>3, RegistryAssumption DEF Revoke, RegistryInv, TypeOK
      <3>2. entry[c].identity = i
        BY <3>1 DEF RegistryInv, OneCredentialEach
      <3>3. QED
        BY <2>3, <3>2
    <2>4. CASE Prune
      BY <2>4 DEF Prune, Pruned, Expired
    <2>5. ASSUME NEW d \in Credentials, LookupIdentity(d)
          PROVE  Excused(c)
      BY <2>5 DEF LookupIdentity, Reject, Honour, Expired, UsedUp
    <2>6. CASE Tick
      BY <2>6 DEF Tick
    <2>7. QED
      BY <2>1, <2>2, <2>3, <2>4, <2>5, <2>6 DEF Next, EnsureCredential
  <1>2. QED
    BY <1>1, RegistryInvariant, PTL DEF Spec, ActiveIsKept
=============================================================================
