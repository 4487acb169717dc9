--------------------------- MODULE SessionRegistry ---------------------------
(***************************************************************************)
(* RpcInProcessCredentialRegistry (identity-session.ts): the credentials   *)
(* the server has issued, by credential (entries) and by identity          *)
(* (identityIndex).  Its methods are synchronous, so each is one step.     *)
(* `left' is expiresAt - now, 0 meaning expired.  A credential is a uuid:  *)
(* one that was handed out is never drawn again.                           *)
(***************************************************************************)
EXTENDS Naturals, FiniteSets

CONSTANTS
    Identities,
    Credentials,
    NoCredential,
    TTL,         \* ttlMs
    Limited,     \* is maxUses configured?
    MaxUses,     \* maxUses, if it is
    MaxEntries   \* maxEntries

ASSUME RegistryAssumption ==
    /\ NoCredential \notin Credentials
    /\ TTL \in Nat
    /\ Limited \in BOOLEAN
    /\ MaxUses \in Nat
    /\ MaxEntries \in Nat

VARIABLES
    table,   \* the keys of entries
    entry,   \* their values; what an entry was when it was dropped, after that
    index,   \* identityIndex
    issued,  \* history: the credentials ever handed out
    shown,   \* history: how often a credential was presented and honoured
    barred   \* history: those handed out to an identity before it was revoked

vars == <<table, entry, index, issued, shown, barred>>

Entry == [identity : Identities, left : 0..TTL, uses : Nat]

TypeOK ==
    /\ table \subseteq issued
    /\ issued \subseteq Credentials
    /\ entry \in [Credentials -> Entry]
    /\ index \in [Identities -> Credentials \cup {NoCredential}]
    /\ shown \in [Credentials -> Nat]
    /\ barred \subseteq issued

Init ==
    /\ table = {}
    /\ entry \in {[c \in Credentials |-> [identity |-> i, left |-> 0, uses |-> 0]] : i \in Identities}
    /\ index = [i \in Identities |-> NoCredential]
    /\ issued = {}
    /\ shown = [c \in Credentials |-> 0]
    /\ barred = {}

Expired(c) == entry[c].left = 0
UsedUp(c) == Limited /\ entry[c].uses >= MaxUses

\* Variant: the credential goes and its index entry stays.
IndexWithoutStale(S) == index

\* drop() of every credential in S: each takes the index entry of its
\* identity with it, if that still points to it.
IndexWithout(S) ==
    [i \in Identities |-> IF \E c \in S : entry[c].identity = i /\ index[i] = c
                          THEN NoCredential ELSE index[i]]

\* Variant: making room by starting over.
PrunedAll == table

\* prune(now)
Pruned == {c \in table : Expired(c)}

Fresh(c) == c \in Credentials \ issued

Issue(c, i, room, idx) ==
    /\ Fresh(c)
    /\ table' = room \cup {c}
    /\ entry' = [entry EXCEPT ![c] = [identity |-> i, left |-> TTL, uses |-> 0]]
    /\ index' = [idx EXCEPT ![i] = c]
    /\ issued' = issued \cup {c}
    /\ UNCHANGED <<shown, barred>>
-----------------------------------------------------------------------------
\* Variant: a renewed credential starts counting again.
RenewAfresh(i) ==
    /\ index[i] \in table
    /\ entry' = [entry EXCEPT ![index[i]].left = TTL, ![index[i]].uses = 0]
    /\ UNCHANGED <<table, index, issued, shown, barred>>

\* ensureCredential for an identity that has one: only the expiry slides.
Renew(i) ==
    /\ index[i] \in table
    /\ entry' = [entry EXCEPT ![index[i]].left = TTL]
    /\ UNCHANGED <<table, index, issued, shown, barred>>

\* Variant: a credential the identity has is not looked for.
GrantAnother(i) ==
    /\ Cardinality(table) < MaxEntries
    /\ \E c \in Credentials : Issue(c, i, table, index)

\* ensureCredential for an identity without one, while there is room.
Grant(i) ==
    /\ index[i] \notin table
    /\ Cardinality(table) < MaxEntries
    /\ \E c \in Credentials : Issue(c, i, table, index)

\* Variant: a prune is taken to have made room.
GrantPrunedAnyway(i) ==
    /\ index[i] \notin table
    /\ Cardinality(table) >= MaxEntries
    /\ \E c \in Credentials : Issue(c, i, table \ Pruned, IndexWithout(Pruned))

\* The table is full: expired entries are pruned first.
GrantPruned(i) ==
    /\ index[i] \notin table
    /\ Cardinality(table) >= MaxEntries
    /\ Cardinality(table \ Pruned) < MaxEntries
    /\ \E c \in Credentials : Issue(c, i, table \ Pruned, IndexWithout(Pruned))

\* Still full: the connection is served without a credential.
Deny(i) ==
    /\ index[i] \notin table
    /\ Cardinality(table \ Pruned) >= MaxEntries
    /\ table' = table \ Pruned
    /\ index' = [IndexWithout(Pruned) EXCEPT ![i] = NoCredential]
    /\ UNCHANGED <<entry, issued, shown, barred>>

\* lookupIdentity of a credential that has expired or is used up.
Reject(c) ==
    /\ c \in table
    /\ Expired(c) \/ UsedUp(c)
    /\ table' = table \ {c}
    /\ index' = IndexWithout({c})
    /\ UNCHANGED <<entry, issued, shown, barred>>

\* Variant: what is left of the window is added to the new one.
HonourOnTop(c) ==
    /\ c \in table
    /\ ~Expired(c)
    /\ ~UsedUp(c)
    /\ entry' = [entry EXCEPT ![c].left = @ + TTL, ![c].uses = IF Limited THEN @ + 1 ELSE @]
    /\ shown' = [shown EXCEPT ![c] = IF Limited THEN @ + 1 ELSE @]
    /\ UNCHANGED <<table, index, issued, barred>>

\* lookupIdentity of one that is good: it is counted and slides.  Uses are
\* only counted when they are limited.
Honour(c) ==
    /\ c \in table
    /\ ~Expired(c)
    /\ ~UsedUp(c)
    /\ entry' = [entry EXCEPT ![c].left = TTL, ![c].uses = IF Limited THEN @ + 1 ELSE @]
    /\ shown' = [shown EXCEPT ![c] = IF Limited THEN @ + 1 ELSE @]
    /\ UNCHANGED <<table, index, issued, barred>>

Revoke(i) ==
    /\ table' = table \ {index[i]}
    /\ index' = [index EXCEPT ![i] = NoCredential]
    /\ barred' = barred \cup {c \in issued : entry[c].identity = i}
    /\ UNCHANGED <<entry, issued, shown>>

Prune ==
    /\ table' = table \ Pruned
    /\ index' = IndexWithout(Pruned)
    /\ UNCHANGED <<entry, issued, shown, barred>>

Tick ==
    /\ entry' = [c \in Credentials |->
                   [entry[c] EXCEPT !.left = IF @ = 0 THEN 0 ELSE @ - 1]]
    /\ UNCHANGED <<table, index, issued, shown, barred>>
-----------------------------------------------------------------------------
EnsureCredential(i) == Renew(i) \/ Grant(i) \/ GrantPruned(i) \/ Deny(i)
LookupIdentity(c) == Reject(c) \/ Honour(c)

Next ==
    \/ \E i \in Identities : EnsureCredential(i) \/ Revoke(i)
    \/ \E c \in Credentials : LookupIdentity(c)
    \/ Prune \/ Tick

Spec == Init /\ [][Next]_vars
-----------------------------------------------------------------------------
(***************************************************************************)
(* The two maps are inverses of each other: an identity has at most one    *)
(* credential, and every credential in the table can be found, renewed and *)
(* revoked through its identity, whichever of the five ways entries go.    *)
(***************************************************************************)
OneCredentialEach ==
    /\ \A c \in table : index[entry[c].identity] = c
    /\ \A i \in Identities : index[i] # NoCredential =>
          index[i] \in table /\ entry[index[i]].identity = i

\* The table never outgrows maxEntries, however pruning and expiry fall.
CapacityKept == Cardinality(table) <= MaxEntries

(***************************************************************************)
(* Over its whole life, renewals included, a credential is honoured at     *)
(* most maxUses times.                                                     *)
(***************************************************************************)
ReplayWindow == Limited => \A c \in Credentials : shown[c] <= MaxUses

(***************************************************************************)
(* Revoking an identity bars every credential it was ever handed out, not  *)
(* only the one the index names: none of them is in the table again, after *)
(* any renewals, prunings and replacements before it.                      *)
(***************************************************************************)
RevokedIsOut == barred \cap table = {}

(***************************************************************************)
(* A credential that is neither expired nor used up only goes when its     *)
(* identity is revoked: a full table evicts nobody who is active.          *)
(***************************************************************************)
ActiveIsKept ==
    [][\A c \in table \ table' :
         \/ entry[c].left = 0
         \/ Limited /\ entry[c].uses >= MaxUses
         \/ Revoke(entry[c].identity)]_vars
=============================================================================
