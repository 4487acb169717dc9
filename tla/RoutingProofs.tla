--------------------------- MODULE RoutingProofs ---------------------------
(***************************************************************************)
(* Theorems about Routing for any paths, rows, conditions and tools: a     *)
(* claimed prefix has the rows it was given, and no declaration disturbs   *)
(* those of another.                                                       *)
(***************************************************************************)
EXTENDS Routing, TLAPS

\* The rows a table can hold.
Rows == ToSet(BuiltinRows) \cup
    {Row(Normalized(path).path, when[1], when[2], tool, Unset) :
        path \in RowPaths, when \in Conditions, tool \in Tools}

\* The rows given for a prefix.
Given(p) == {d[2] : d \in {e \in declared : e[1] = p}}

\* No two rows have one key.
Distinct(rows) == \A i, j \in DOMAIN rows : Key(rows[i]) = Key(rows[j]) => i = j
OnePerKey(S) == \A r, s \in S : Key(r) = Key(s) => r = s

\* What a table is for the rows given to it.
Laid(rows, given) ==
    /\ rows \in Seq(Rows)
    /\ Distinct(rows)
    /\ ToSet(rows) = given \cup {r \in ToSet(BuiltinRows) : \A g \in given : Key(g) # Key(r)}

RowsInv ==
    /\ claims \in Seq(ClaimPrefixes)
    /\ table \in [ClaimPrefixes -> Seq(Rows)]
    /\ \A d \in declared : d[1] \in Claimed
    /\ \A p \in ClaimPrefixes :
        IF p \in Claimed THEN OnePerKey(Given(p)) /\ Laid(table[p], Given(p))
        ELSE table[p] = <<>>
-----------------------------------------------------------------------------
(***************************************************************************)
(* What the operators on rows return                                       *)
(***************************************************************************)

\* Where no two rows have one key, the search finds the row with the key
\* it looks for, or there is none.
LEMMA IndexFound ==
    ASSUME NEW R, NEW rows \in Seq(R), NEW row, Distinct(rows)
    PROVE  \/ /\ IndexOf(rows, row) = 0
              /\ \A i \in DOMAIN rows : Key(rows[i]) # Key(row)
           \/ /\ IndexOf(rows, row) \in DOMAIN rows
              /\ Key(rows[IndexOf(rows, row)]) = Key(row)
  <1> DEFINE I == {i \in 1..Len(rows) : Key(rows[i]) = Key(row)}
  <1>1. IndexOf(rows, row) = IF I # {} THEN Min(I) ELSE 0
    BY DEF IndexOf, SelectInSeq
  <1>2. CASE I = {}
    BY <1>1, <1>2
  <1>3. ASSUME NEW i \in I PROVE I = {i}
    BY DEF Distinct
  <1>4. ASSUME NEW i \in I PROVE Min(I) = i
    <2>1. I = {i} /\ i \in Nat
      BY <1>3
    <2>2. Min({i}) = i
      BY <2>1 DEF Min
    <2>3. QED
      BY <2>1, <2>2
  <1>5. CASE I # {}
    <2>1. PICK i \in I : TRUE
      BY <1>5
    <2>2. IndexOf(rows, row) = i
      BY <1>1, <1>4, <1>5
    <2>3. QED
      BY <2>2
  <1>6. QED
    BY <1>2, <1>5

\* A declared row takes the place of the row with its key and leaves every
\* other row where it is.
LEMMA DeclareLays ==
    ASSUME NEW R, NEW rows \in Seq(R), NEW row \in R, Distinct(rows)
    PROVE  /\ Declare(rows, row) \in Seq(R)
           /\ Distinct(Declare(rows, row))
           /\ ToSet(Declare(rows, row)) = {r \in ToSet(rows) : Key(r) # Key(row)} \cup {row}
  <1> DEFINE n == IndexOf(rows, row)
             new == Declare(rows, row)
  <1>1. CASE n = 0
    <2>1. \A i \in DOMAIN rows : Key(rows[i]) # Key(row)
      BY <1>1, IndexFound
    <2>2. new = Append(rows, row)
      BY <1>1 DEF Declare
    <2>3. /\ new \in Seq(R)
          /\ DOMAIN new = DOMAIN rows \cup {Len(rows) + 1}
          /\ Len(rows) + 1 \notin DOMAIN rows
          /\ \A i \in DOMAIN rows : new[i] = rows[i]
          /\ new[Len(rows) + 1] = row
      BY <2>2
    <2> HIDE DEF new
    <2>4. Distinct(new)
      BY <2>1, <2>3 DEF Distinct
    <2>5. ToSet(new) = {r \in ToSet(rows) : Key(r) # Key(row)} \cup {row}
      BY <2>1, <2>3 DEF ToSet
    <2>6. QED
      BY <2>3, <2>4, <2>5 DEF new
  <1>2. CASE n # 0
    <2>1. n \in DOMAIN rows /\ Key(rows[n]) = Key(row)
      BY <1>2, IndexFound
    <2>2. new = [rows EXCEPT ![n] = row]
      BY <1>2 DEF Declare
    <2> HIDE DEF n
    <2>3. /\ new \in Seq(R)
          /\ DOMAIN new = DOMAIN rows
          /\ \A i \in DOMAIN rows : new[i] = IF i = n THEN row ELSE rows[i]
      BY <2>1, <2>2
    <2> HIDE DEF new
    <2>4. Distinct(new)
      BY <2>1, <2>3 DEF Distinct
    <2>5. ToSet(new) = {r \in ToSet(rows) : Key(r) # Key(row)} \cup {row}
      <3>1. \A i \in DOMAIN rows : i # n => Key(rows[i]) # Key(row)
        BY <2>1 DEF Distinct
      <3>2. QED
        BY <2>1, <2>3, <3>1 DEF ToSet
    <2>6. QED
      BY <2>3, <2>4, <2>5 DEF new
  <1>3. QED
    BY <1>1, <1>2

\* A row is not put in where its key is there already.
LEMMA EnsureKeeps ==
    ASSUME NEW R, NEW rows \in Seq(R), NEW row, Distinct(rows),
           \E r \in ToSet(rows) : Key(r) = Key(row)
    PROVE  Ensure(rows, row) = rows
  BY IndexFound DEF Ensure, ToSet

\* Otherwise it goes last.
LEMMA EnsureAdds ==
    ASSUME NEW R, NEW rows \in Seq(R), NEW row, Distinct(rows),
           \A i \in DOMAIN rows : Key(rows[i]) # Key(row)
    PROVE  Ensure(rows, row) = Append(rows, row)
  <1>1. IndexOf(rows, row) = 0
    BY IndexFound
  <1>2. QED
    BY <1>1 DEF Ensure

\* The built-in rows have three keys.
LEMMA BuiltinKeys ==
    /\ BuiltinRows \in Seq(Rows)
    /\ Len(BuiltinRows) = 3
    /\ Key(BuiltinRows[1]) # Key(BuiltinRows[2])
    /\ Key(BuiltinRows[1]) # Key(BuiltinRows[3])
    /\ Key(BuiltinRows[2]) # Key(BuiltinRows[3])
    /\ ToSet(BuiltinRows) = {BuiltinRows[1], BuiltinRows[2], BuiltinRows[3]}
  <1>1. Len(BuiltinRows) = 3 /\ DOMAIN BuiltinRows = {1, 2, 3}
    BY DEF BuiltinRows
  <1>2. ToSet(BuiltinRows) = {BuiltinRows[1], BuiltinRows[2], BuiltinRows[3]}
    BY <1>1 DEF ToSet
  <1>3. \A i \in 1..3 : BuiltinRows[i] \in Rows
    BY <1>2 DEF Rows
  <1>4. BuiltinRows \in Seq(Rows)
    BY <1>1, <1>3 DEF BuiltinRows
  <1>5. /\ Key(BuiltinRows[1]) = <<RootPath, "GET", Unset>>
        /\ Key(BuiltinRows[2]) = <<RootPath, Unset, "list">>
        /\ Key(BuiltinRows[3]) = <<RootPath, Unset, "get">>
    BY DEF BuiltinRows, Row, Key
  <1>6. Unset # "GET" /\ Unset # "list" /\ Unset # "get"
    BY RoutingAssumption
  <1>7. QED
    BY <1>1, <1>2, <1>4, <1>5, <1>6

\* Three rows with three keys go one behind the other.
LEMMA EnsureInOrder ==
    ASSUME NEW R, NEW a \in R, NEW b \in R, NEW c \in R,
           Key(a) # Key(b), Key(a) # Key(c), Key(b) # Key(c)
    PROVE  /\ Ensure(Ensure(Ensure(<<>>, a), b), c) = <<a, b, c>>
           /\ Distinct(<<a, b, c>>)
  <1>1. <<>> \in Seq(R) /\ Distinct(<<>>) /\ DOMAIN <<>> = {}
    BY DEF Distinct
  <1>2. Ensure(<<>>, a) = <<a>>
    <2>1. \A i \in DOMAIN <<>> : Key(<<>>[i]) # Key(a)
      BY <1>1
    <2>2. Ensure(<<>>, a) = Append(<<>>, a)
      BY <1>1, <2>1, EnsureAdds
    <2>3. QED
      BY <2>2
  <1>3. <<a>> \in Seq(R) /\ DOMAIN <<a>> = {1} /\ <<a>>[1] = a
    OBVIOUS
  <1>4. Distinct(<<a>>) /\ \A i \in DOMAIN <<a>> : Key(<<a>>[i]) # Key(b)
    BY <1>3 DEF Distinct
  <1>5. Ensure(<<a>>, b) = <<a, b>>
    <2>1. Ensure(<<a>>, b) = Append(<<a>>, b)
      BY <1>3, <1>4, EnsureAdds
    <2>2. QED
      BY <2>1
  <1>6. <<a, b>> \in Seq(R) /\ DOMAIN <<a, b>> = {1, 2} /\ <<a, b>>[1] = a /\ <<a, b>>[2] = b
    OBVIOUS
  <1>7. Distinct(<<a, b>>) /\ \A i \in DOMAIN <<a, b>> : Key(<<a, b>>[i]) # Key(c)
    BY <1>6 DEF Distinct
  <1>8. Ensure(<<a, b>>, c) = <<a, b, c>>
    <2>1. Ensure(<<a, b>>, c) = Append(<<a, b>>, c)
      BY <1>6, <1>7, EnsureAdds
    <2>2. QED
      BY <2>1
  <1>9. Distinct(<<a, b, c>>)
    <2>1. /\ DOMAIN <<a, b, c>> = {1, 2, 3}
          /\ <<a, b, c>>[1] = a /\ <<a, b, c>>[2] = b /\ <<a, b, c>>[3] = c
      OBVIOUS
    <2>2. QED
      BY <2>1 DEF Distinct
  <1>10. QED
    BY <1>2, <1>5, <1>8, <1>9

\* An empty table is given the built-in rows ...
LEMMA BuiltinsLaid ==
    /\ WithBuiltins(<<>>) = BuiltinRows
    /\ Laid(BuiltinRows, {})
  <1>1. \A i \in 1..3 : BuiltinRows[i] \in Rows
    BY BuiltinKeys DEF Rows
  <1>2. BuiltinRows = <<BuiltinRows[1], BuiltinRows[2], BuiltinRows[3]>>
    BY DEF BuiltinRows
  <1>3. WithBuiltins(<<>>) = BuiltinRows /\ Distinct(BuiltinRows)
    BY <1>1, <1>2, BuiltinKeys, EnsureInOrder DEF WithBuiltins
  <1>4. QED
    BY <1>3, BuiltinKeys DEF Laid

\* ... and one that has been laid out is left as it is.
LEMMA BuiltinsStay ==
    ASSUME NEW rows, NEW given, Laid(rows, given)
    PROVE  WithBuiltins(rows) = rows
  <1>1. ASSUME NEW b \in ToSet(BuiltinRows)
        PROVE  \E r \in ToSet(rows) : Key(r) = Key(b)
    BY DEF Laid
  <1>2. ASSUME NEW i \in 1..3
        PROVE  Ensure(rows, BuiltinRows[i]) = rows
    BY <1>1, BuiltinKeys, EnsureKeeps DEF Laid
  <1>3. QED
    BY <1>2 DEF WithBuiltins

\* A row declared for a table that is laid out is one more row given to it,
\* in place of the last one with its key.
LEMMA DeclaredLays ==
    ASSUME NEW rows, NEW given, NEW row \in Rows, Laid(rows, given), OnePerKey(given)
    PROVE  LET now == {g \in given : Key(g) # Key(row)} \cup {row}
           IN Laid(Declare(rows, row), now) /\ OnePerKey(now)
  <1> DEFINE now == {g \in given : Key(g) # Key(row)} \cup {row}
  <1>1. /\ Declare(rows, row) \in Seq(Rows)
        /\ Distinct(Declare(rows, row))
        /\ ToSet(Declare(rows, row)) = {r \in ToSet(rows) : Key(r) # Key(row)} \cup {row}
    BY DeclareLays DEF Laid
  <1>2. ToSet(rows) = given \cup {r \in ToSet(BuiltinRows) : \A g \in given : Key(g) # Key(r)}
    BY DEF Laid
  <1>3. {r \in ToSet(rows) : Key(r) # Key(row)} \cup {row}
            = now \cup {r \in ToSet(BuiltinRows) : \A g \in now : Key(g) # Key(r)}
    BY <1>2
  <1>4. OnePerKey(now)
    BY DEF OnePerKey
  <1>5. QED
    BY <1>1, <1>3, <1>4 DEF Laid
-----------------------------------------------------------------------------
(***************************************************************************)
(* The invariant                                                           *)
(***************************************************************************)
LEMMA RowsInit == Init => RowsInv
  <1>1. ToSet(<<>>) = {}
    BY DEF ToSet
  <1>2. QED
    BY <1>1 DEF Init, RowsInv, Claimed

LEMMA PrefixClaimed ==
    ASSUME NEW raw \in ClaimPaths
    PROVE  Normalized(raw).path \in ClaimPrefixes
  BY RoutingAssumption DEF ClaimPrefixes

\* A prefix that is claimed, for the first time or again, is among the claims
\* from then on; its table has been laid out, and no other is touched.
LEMMA ClaimLays ==
    ASSUME RowsInv, NEW p \in ClaimPrefixes,
           claims' = IF p \in Claimed THEN claims ELSE Append(claims, p)
    PROVE  /\ claims' \in Seq(ClaimPrefixes)
           /\ Claimed' = Claimed \cup {p}
           /\ OnePerKey(Given(p))
           /\ Laid(WithBuiltins(table[p]), Given(p))
  <1>1. claims \in Seq(ClaimPrefixes)
    BY DEF RowsInv
  <1>2. CASE p \in Claimed
    <2>1. OnePerKey(Given(p)) /\ Laid(table[p], Given(p))
      BY <1>2 DEF RowsInv
    <2>2. WithBuiltins(table[p]) = table[p]
      BY <2>1, BuiltinsStay
    <2>3. QED
      BY <1>1, <1>2, <2>1, <2>2 DEF Claimed
  <1>3. CASE p \notin Claimed
    <2>1. table[p] = <<>> /\ Given(p) = {}
      BY <1>3 DEF RowsInv, Given
    <2>2. OnePerKey(Given(p)) /\ Laid(WithBuiltins(table[p]), Given(p))
      BY <2>1, BuiltinsLaid DEF OnePerKey
    <2>3. claims' = Append(claims, p)
      BY <1>3
    <2>4. claims' \in Seq(ClaimPrefixes) /\ Claimed' = Claimed \cup {p}
      <3>1. /\ claims' \in Seq(ClaimPrefixes)
            /\ DOMAIN claims' = DOMAIN claims \cup {Len(claims) + 1}
            /\ \A i \in DOMAIN claims : claims'[i] = claims[i]
            /\ claims'[Len(claims) + 1] = p
        BY <1>1, <2>3
      <3>2. QED
        BY <3>1 DEF Claimed, ToSet
    <2>5. QED
      BY <2>2, <2>4
  <1>4. QED
    BY <1>2, <1>3

\* Claiming alone gives a prefix no rows of its own.
LEMMA ClaimKeeps ==
    ASSUME RowsInv, NEW p \in ClaimPrefixes, NEW kind, Claim(p, kind), declared' = declared
    PROVE  RowsInv'
  <1>1. /\ claims' \in Seq(ClaimPrefixes)
        /\ Claimed' = Claimed \cup {p}
        /\ OnePerKey(Given(p))
        /\ Laid(WithBuiltins(table[p]), Given(p))
    BY ClaimLays DEF Claim
  <1>2. table' = [table EXCEPT ![p] = WithBuiltins(@)]
    BY DEF Claim
  <1>3. table' \in [ClaimPrefixes -> Seq(Rows)]
    BY <1>1, <1>2 DEF RowsInv, Laid
  <1>4. \A d \in declared' : d[1] \in Claimed'
    BY <1>1 DEF RowsInv
  <1>5. ASSUME NEW q \in ClaimPrefixes
        PROVE  IF q \in Claimed' THEN OnePerKey(Given(q)') /\ Laid(table'[q], Given(q)')
               ELSE table'[q] = <<>>
    <2>1. Given(q)' = Given(q)
      BY DEF Given
    <2>2. CASE q = p
      BY <1>1, <1>2, <2>1, <2>2 DEF RowsInv
    <2>3. CASE q # p
      BY <1>1, <1>2, <2>1, <2>3 DEF RowsInv
    <2>4. QED
      BY <2>2, <2>3
  <1>6. QED
    BY <1>1, <1>3, <1>4, <1>5 DEF RowsInv, OnePerKey, Laid, Distinct

\* A row given for a prefix is one of the rows given for that prefix alone.
LEMMA RouteKeeps ==
    ASSUME RowsInv, NEW raw \in ClaimPaths, NEW path \in RowPaths,
           NEW when \in Conditions, NEW tool \in Tools,
           AddRoute(raw, path, when[1], when[2], tool)
    PROVE  RowsInv'
  <1> DEFINE p == Normalized(raw).path
             row == Row(Normalized(path).path, when[1], when[2], tool, Unset)
  <1>1. p \in ClaimPrefixes /\ row \in Rows
    BY PrefixClaimed DEF Rows
  <1>2. /\ claims' = IF p \in Claimed THEN claims ELSE Append(claims, p)
        /\ table' = [table EXCEPT ![p] = Declare(WithBuiltins(@), row)]
        /\ declared' = {d \in declared : d[1] # p \/ Key(d[2]) # Key(row)} \cup {<<p, row>>}
    BY DEF AddRoute
  <1> HIDE DEF p, row
  <1>3. /\ claims' \in Seq(ClaimPrefixes)
        /\ Claimed' = Claimed \cup {p}
        /\ OnePerKey(Given(p))
        /\ Laid(WithBuiltins(table[p]), Given(p))
    BY <1>1, <1>2, ClaimLays
  <1> DEFINE now == {g \in Given(p) : Key(g) # Key(row)} \cup {row}
  <1>4. Laid(Declare(WithBuiltins(table[p]), row), now) /\ OnePerKey(now)
    BY <1>1, <1>3, DeclaredLays
  <1>5. table' \in [ClaimPrefixes -> Seq(Rows)]
    BY <1>2, <1>4 DEF RowsInv, Laid
  <1>6. \A d \in declared' : d[1] \in Claimed'
    BY <1>2, <1>3 DEF RowsInv
  <1>7. ASSUME NEW q \in ClaimPrefixes
        PROVE  IF q \in Claimed' THEN OnePerKey(Given(q)') /\ Laid(table'[q], Given(q)')
               ELSE table'[q] = <<>>
    <2>1. CASE q = p
      <3>1. Given(q)' = now
        <4>1. /\ \A g : g \in Given(q) <=> \E d \in declared : d[1] = q /\ d[2] = g
              /\ \A g : g \in Given(q)' <=> \E d \in declared' : d[1] = q /\ d[2] = g
          BY DEF Given
        <4>2. <<p, row>>[1] = p /\ <<p, row>>[2] = row
          OBVIOUS
        <4>3. \A d : d \in declared' <=>
                    (d \in declared /\ (d[1] # p \/ Key(d[2]) # Key(row))) \/ d = <<p, row>>
          BY <1>2
        <4>4. \A g : g \in Given(q)' <=> g \in now
          BY <2>1, <4>1, <4>2, <4>3
        <4>5. QED
          BY <4>4
      <3>2. table'[q] = Declare(WithBuiltins(table[p]), row)
        BY <1>1, <1>2, <2>1 DEF RowsInv
      <3>3. q \in Claimed'
        BY <1>3, <2>1
      <3>4. QED
        BY <1>4, <3>1, <3>2, <3>3
    <2>2. CASE q # p
      <3>1. Given(q)' = Given(q)
        BY <1>2, <2>2 DEF Given
      <3>2. table'[q] = table[q] /\ (q \in Claimed' <=> q \in Claimed)
        BY <1>1, <1>2, <1>3, <2>2 DEF RowsInv
      <3>3. QED
        BY <3>1, <3>2 DEF RowsInv
    <2>3. QED
      BY <2>1, <2>2
  <1>8. QED
    BY <1>3, <1>5, <1>6, <1>7 DEF RowsInv, OnePerKey, Laid, Distinct

LEMMA NextRows == RowsInv /\ [Next]_vars => RowsInv'
  <1> SUFFICES ASSUME RowsInv, [Next]_vars PROVE RowsInv'
    OBVIOUS
  <1>1. ASSUME NEW raw \in ClaimPaths, AddRpcHandler(raw) PROVE RowsInv'
    BY <1>1, PrefixClaimed, ClaimKeeps DEF AddRpcHandler
  <1>2. ASSUME NEW raw \in ClaimPaths, AddDiscoveryHandler(raw) PROVE RowsInv'
    BY <1>2, PrefixClaimed, ClaimKeeps DEF AddDiscoveryHandler
  <1>3. ASSUME NEW raw \in ClaimPaths, NEW path \in RowPaths, AddRouteFails(raw, path)
        PROVE  RowsInv'
    BY <1>3, PrefixClaimed, ClaimKeeps DEF AddRouteFails
  <1>4. ASSUME NEW raw \in ClaimPaths, NEW path \in RowPaths, NEW when \in Conditions,
               NEW tool \in Tools, AddRoute(raw, path, when[1], when[2], tool)
        PROVE  RowsInv'
    BY <1>4, RouteKeeps
  <1>5. CASE UNCHANGED <<claims, table, declared>>
    BY <1>5 DEF RowsInv, Claimed, Given, OnePerKey, Laid, Distinct
  <1>6. QED
    BY <1>1, <1>2, <1>3, <1>4, <1>5 DEF Next, Start, Stop, vars

\* In every reachable state each claimed prefix has been laid out from the
\* rows given for it, one for each key, and no other prefix has any.
THEOREM RowsInvariant == Spec => []RowsInv
  BY RowsInit, NextRows, PTL DEF Spec

\* A claimed prefix has the rows it was given and the built-in ones of the
\* keys that were not given, whatever is declared, in whichever order and
\* however it is written, and whether or not the path of a row is malformed.
THEOREM RowsAreKept == Spec => []RowsFollowDeclarations
  <1>1. RowsInv => RowsFollowDeclarations
    <2> SUFFICES ASSUME RowsInv, NEW p \in ClaimPrefixes
                 PROVE  /\ Distinct(table[p])
                        /\ ToSet(table[p]) = IF p \notin Claimed THEN {} ELSE
                             Given(p) \cup {r \in ToSet(BuiltinRows) :
                                               \A g \in Given(p) : Key(g) # Key(r)}
      BY DEF RowsFollowDeclarations, Given, Distinct
    <2>1. CASE p \in Claimed
      BY <2>1 DEF RowsInv, Laid
    <2>2. CASE p \notin Claimed
      BY <2>2 DEF RowsInv, Distinct, ToSet
    <2>3. QED
      BY <2>1, <2>2
  <1>2. QED
    BY <1>1, RowsInvariant, PTL
=============================================================================
