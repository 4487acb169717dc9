------------------------------ MODULE Routing ------------------------------
(***************************************************************************)
(* How a transport declares routes (server.ts) and what a request is then  *)
(* taken for: by the HTTP server (http-server.ts), which finds the prefix  *)
(* among the keys mounted on its base when it was started, and by the      *)
(* mailbox server (mailbox-server.ts), which has one address.              *)
(***************************************************************************)
EXTENDS RoutePath, FiniteSets

CONSTANTS
    ClaimPaths,  \* the paths of the apiUrls that routes are declared with
    RowPaths,    \* the paths within a prefix that addRoute() is given
    Methods, Acts, Unset,
    Conditions,  \* the conditions addRoute() is given: a method and an act
    Tools, RpcApis,
    OwnPath,     \* the path of the transport's own apiUrl
    RequestPaths,
    MaxDeclared  \* bound on the calls of addRoute()

ClaimPrefixes == {Normalized(p).path : p \in {q \in ClaimPaths : Normalized(q).ok}} \cup {RootPath}
NoPrefix == [segs |-> <<>>, slash |-> TRUE]

ASSUME RoutingAssumption ==
    /\ {"GET"} \subseteq Methods /\ {"list", "get"} \subseteq Acts
    /\ Unset \notin Methods \cup Acts
    /\ Conditions \subseteq (Methods \cup {Unset}) \X (Acts \cup {Unset})
    /\ RpcApis \notin Tools
    /\ ClaimPaths \cup RowPaths \cup RequestPaths \cup {OwnPath} \subseteq WrittenPaths
    /\ \A p \in ClaimPaths \cup {OwnPath} : Normalized(p).ok
    /\ MaxDeclared \in Nat

Row(path, method, act, tool, to) ==
    [path |-> path, method |-> method, act |-> act, tool |-> tool, to |-> to]

VARIABLES
    claims,    \* the keys of routeClaims, in order
    kinds,     \* of a claim: was it made for rpc, for discovery?
    table,     \* routeTable
    rpcPrefix, \* rpcPrefix
    mounted,   \* the prefixes this transport has on its base
    declared   \* the rows given to addRoute(), the last one of each key

vars == <<claims, kinds, table, rpcPrefix, mounted, declared>>

Claimed == ToSet(claims)
RoutesOf == IF claims = <<>> THEN {RootPath} ELSE Claimed

Init ==
    /\ claims = <<>>
    /\ kinds = [p \in ClaimPrefixes |-> {}]
    /\ table = [p \in ClaimPrefixes |-> <<>>]
    /\ rpcPrefix = NoPrefix
    /\ mounted = {}
    /\ declared = {}
-----------------------------------------------------------------------------
(***************************************************************************)
(* Declaring                                                               *)
(***************************************************************************)
BuiltinRows == <<Row(RootPath, "GET", Unset, RpcApis, "list"),
                 Row(RootPath, Unset, "list", RpcApis, "list"),
                 Row(RootPath, Unset, "get", RpcApis, "get")>>

Key(row) == <<row.path, row.method, row.act>>
IndexOf(rows, row) == SelectInSeq(rows, LAMBDA r : Key(r) = Key(row))

\* A row takes the place of the one with its key, or goes last.
Declare(rows, row) ==
    IF IndexOf(rows, row) = 0 THEN Append(rows, row)
    ELSE [rows EXCEPT ![IndexOf(rows, row)] = row]

\* A row whose key is there already is left out.
Ensure(rows, row) == IF IndexOf(rows, row) = 0 THEN Append(rows, row) ELSE rows

\* Variant: the built-in rows are put back.
WithBuiltinsAgain(rows) ==
    Declare(Declare(Declare(rows, BuiltinRows[1]), BuiltinRows[2]), BuiltinRows[3])

\* ensureBuiltinRoutes adds those whose key is not there, one after the other.
WithBuiltins(rows) ==
    Ensure(Ensure(Ensure(rows, BuiltinRows[1]), BuiltinRows[2]), BuiltinRows[3])

Claim(p, kind) ==
    /\ claims' = IF p \in Claimed THEN claims ELSE Append(claims, p)
    /\ kinds' = [kinds EXCEPT ![p] = @ \cup kind]
    /\ table' = [table EXCEPT ![p] = WithBuiltins(@)]

\* A prefix declared again for the same kind keeps its rows and the transport
\* its rpcPrefix; with remount 'throw' the call throws, to the same effect.
AddRpcHandler(raw) ==
    LET p == Normalized(raw).path IN
    /\ "rpc" \notin kinds[p]
    /\ Claim(p, {"rpc"})
    /\ rpcPrefix' = p
    /\ UNCHANGED <<mounted, declared>>

AddDiscoveryHandler(raw) ==
    LET p == Normalized(raw).path IN
    /\ "discovery" \notin kinds[p]
    /\ Claim(p, {"discovery"})
    /\ UNCHANGED <<rpcPrefix, mounted, declared>>

\* The prefix is claimed before the path of the row turns out malformed.
AddRouteFails(raw, path) ==
    /\ ~Normalized(path).ok
    /\ Claim(Normalized(raw).path, {})
    /\ UNCHANGED <<rpcPrefix, mounted, declared>>

\* The methods there are stand for their upper-case form (server.ts:578), and
\* the rows of tools that name no act of their own.
AddRoute(raw, path, method, act, tool) ==
    LET p == Normalized(raw).path
        row == Row(Normalized(path).path, method, act, tool, Unset)
    IN
    /\ Normalized(path).ok
    /\ Cardinality(declared) < MaxDeclared \/ \E d \in declared : d[1] = p /\ Key(d[2]) = Key(row)
    /\ claims' = IF p \in Claimed THEN claims ELSE Append(claims, p)
    /\ table' = [table EXCEPT ![p] = Declare(WithBuiltins(@), row)]
    /\ declared' = {d \in declared : d[1] # p \/ Key(d[2]) # Key(row)} \cup {<<p, row>>}
    /\ UNCHANGED <<kinds, rpcPrefix, mounted>>

\* start() mounts what is declared by then, stop() all there is.
Start ==
    /\ mounted' = mounted \cup RoutesOf
    /\ UNCHANGED <<claims, kinds, table, rpcPrefix, declared>>

Stop ==
    /\ mounted' = {}
    /\ UNCHANGED <<claims, kinds, table, rpcPrefix, declared>>

Next ==
    \/ \E raw \in ClaimPaths :
        \/ AddRpcHandler(raw)
        \/ AddDiscoveryHandler(raw)
        \/ \E path \in RowPaths : AddRouteFails(raw, path)
        \/ \E path \in RowPaths, when \in Conditions, tool \in Tools :
              AddRoute(raw, path, when[1], when[2], tool)
    \/ Start
    \/ Stop

Spec == Init /\ [][Next]_vars
-----------------------------------------------------------------------------
(***************************************************************************)
(* Requests: a path, a method and an act, and no tool named in the headers *)
(***************************************************************************)
\* matchRouteEntry, given the path within the prefix as a string.
Matches(row, path, method, act) ==
    /\ row.path = path
    /\ row.method \in {Unset, method}
    /\ row.act \in {Unset, act}

RowAt(rows, path, method, act) ==
    SelectInSeq(rows, LAMBDA row : Matches(row, path, method, act))

\* The prefix handed on by the base, if it finds one; otherwise the longest of
\* one's own claims, or the last prefix declared for rpc.
ClaimPrefixOf(segs) ==
    LET own == {MatchKey(p) : p \in Claimed}
        onBase == MatchRoute({MatchKey(p) : p \in mounted}, segs)
    IN IF onBase # {} THEN CHOOSE p \in onBase : TRUE
       ELSE IF Hits(own, segs) # {} THEN CHOOSE p \in Claimed : MatchKey(p) = Longest(Hits(own, segs))
       ELSE IF rpcPrefix # NoPrefix THEN rpcPrefix ELSE RootPath

Reply(status) == [status |-> status]
Call(prefix, tool, to) == [status |-> 200, prefix |-> prefix, tool |-> tool, to |-> to]

\* toRpcRequest: what lies behind the prefix is joined again and looked up; if
\* no row has it, its first segment is the name of a tool.
Addressed(prefix, path, method, act) ==
    LET parts == SubSeq(Segments(path), Len(prefix.segs) + 1, Len(path.segs))
        rel == Normalized(Path(parts, FALSE))
        rows == IF prefix \in ClaimPrefixes THEN table[prefix] ELSE <<>>
        i == RowAt(rows, rel.path, method, act)
    IN IF rows # <<>> /\ ~rel.ok THEN Reply(400)
       ELSE IF rows # <<>> /\ i # 0
       THEN Call(prefix, rows[i].tool, IF rows[i].to # Unset THEN rows[i].to ELSE act)
       ELSE IF parts # <<>> THEN Call(prefix, parts[1], act) ELSE Reply(400)

\* handleIncomingHttpRequest and handleInternalRequest
HttpRequest(raw, method, act) ==
    LET route == Normalized(raw)
        prefix == ClaimPrefixOf(route.path.segs)
    IN IF mounted = {} THEN Reply(503)
       ELSE IF ~route.ok THEN Reply(400)
       ELSE IF ~IsPrefix(MatchKey(prefix), MatchKey(route.path)) THEN Reply(404)
       ELSE Addressed(prefix, route.path, method, act)

\* The mailbox server takes the registry of the prefix that its own address
\* lies under (requestRegistry) ...
OwnPrefix == Normalized(OwnPath).path
MailboxRegistryPrefix == MatchRoute({MatchKey(p) : p \in Claimed}, OwnPrefix.segs)

\* ... and the rows of that very prefix, or of its first claim.
MailboxPrefix ==
    IF OwnPrefix \in Claimed THEN OwnPrefix
    ELSE IF claims # <<>> THEN Head(claims) ELSE RootPath

MailboxRequest(act) ==
    LET rows == table[MailboxPrefix]
        i == RowAt(rows, RootPath, Unset, act)
    IN IF i = 0 THEN Reply(400)
       ELSE Call(MailboxPrefix, rows[i].tool, IF rows[i].to # Unset THEN rows[i].to ELSE act)
-----------------------------------------------------------------------------
(***************************************************************************)
(* Properties                                                              *)
(***************************************************************************)
\* A second account of what a path means: a name counts unless the dot
\* segments after it take it away, and no more may be taken than was there.
Ups(segs, i, j) == {k \in i..j : Decoded(segs[k]) = Segment(DotDot, 0)}
Names(segs, i, j) ==
    {k \in i..j : segs[k].text # Nothing
                    /\ Decoded(segs[k]) \notin {Segment(Dot, 0), Segment(DotDot, 0)}}
Covered(segs, i, j) == Cardinality(Ups(segs, i, j)) <= Cardinality(Names(segs, i, j))

Meaningless(segs) ==
    \/ \E i \in DOMAIN segs : Malformed(segs[i])
    \/ \E j \in DOMAIN segs : ~Covered(segs, 1, j)

Meaning(segs) ==
    LET left == {i \in Names(segs, 1, Len(segs)) :
                    \A j \in (i + 1)..Len(segs) : Covered(segs, i + 1, j)}
        Nth(k) == CHOOSE i \in left : Cardinality({j \in left : j <= i}) = k
    IN [k \in 1..Cardinality(left) |-> Encoded(Decoded(segs[Nth(k)]))]

\* What a request should be taken for: the first row for it of the nearest
\* claimed prefix, or a tool named by the path.  A transport with no prefix
\* for rpc takes the paths outside its claims as well.
Expected(raw, method, act) ==
    LET written == WithoutQuery(raw).segs
        segs == Meaning(written)
        others == IF rpcPrefix = NoPrefix THEN {RootPath} ELSE {}
        prefixes == {p \in RoutesOf \cup others : IsPrefix(p.segs, segs)}
        nearest == CHOOSE p \in prefixes : \A q \in prefixes : Len(q.segs) <= Len(p.segs)
        rest == SubSeq(segs, Len(nearest.segs) + 1, Len(segs))
        rows == table[nearest]
        fits == {i \in DOMAIN rows : Matches(rows[i], Path(rest, FALSE), method, act)}
        row == rows[CHOOSE i \in fits : \A j \in fits : i <= j]
    IN IF Meaningless(written) THEN Reply(400)
       ELSE IF prefixes = {} THEN Reply(404)
       ELSE IF fits # {} THEN Call(nearest, row.tool, IF row.to # Unset THEN row.to ELSE act)
       ELSE IF rest # <<>> THEN Call(nearest, Segments(Path(rest, FALSE))[1], act)
       ELSE Reply(400)

\* While the base has the claims of the transport, a request finds the row or
\* the tool declared for what its path means, in whatever way prefix, row and
\* request are written: the search among the mounted keys, the cut at the
\* depth of the claim and the second normalization together lose nothing.
\* The mailbox server does the same for its own address if that is claimed,
\* and asks the registry of the very prefix whose rows it took.  "Whatever
\* way" is one of RequestPaths: in the code it is not so of an encoded percent
\* sign or question mark, as in /api/100%25 and /api/x%3Fy, and of what is
\* encoded twice, where the second normalization decodes once too often.
RequestsFollowClaims ==
    /\ mounted = RoutesOf =>
        \A raw \in RequestPaths, method \in Methods, act \in Acts \cup {Unset} :
            HttpRequest(raw, method, act) = Expected(raw, method, act)
    /\ OwnPrefix \in Claimed =>
        /\ MailboxRegistryPrefix = {MailboxPrefix}
        /\ \A act \in Acts \cup {Unset} : MailboxRequest(act) = Expected(OwnPath, Unset, act)

\* A claimed prefix has the rows it was given, each in one place, and for the
\* other keys the built-in ones: no later declaration brings those back over
\* a row that replaced them, whatever else it is for.
RowsFollowDeclarations ==
    \A p \in ClaimPrefixes :
        LET rows == table[p]
            given == {d[2] : d \in {e \in declared : e[1] = p}}
        IN /\ \A i, j \in DOMAIN rows : Key(rows[i]) = Key(rows[j]) => i = j
           /\ ToSet(rows) = IF p \notin Claimed THEN {} ELSE
                given \cup {r \in ToSet(BuiltinRows) : \A g \in given : Key(g) # Key(r)}
=============================================================================
