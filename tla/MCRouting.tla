----------------------------- MODULE MCRouting -----------------------------
(***************************************************************************)
(* A small instance of Routing: three nested prefixes, written in various  *)
(* ways, and paths with every kind of segment.                             *)
(***************************************************************************)
EXTENDS Routing

CONSTANTS nothing, dot, dotdot, slashed, percent, asked, before, spaced, api, v2, other

SomeTexts == {nothing, dot, dotdot, slashed, percent, asked, before, spaced, api, v2, other}

S0(text) == Segment(text, 0)
S1(text) == Segment(text, 1)
P(segs) == Path(segs, FALSE)

\* "/", "/%61pi/" and "//api/./v2"
NestedPrefixes ==
    {P(<<>>), Path(<<S1(api)>>, TRUE), P(<<S0(nothing), S0(api), S0(dot), S0(v2)>>)}

\* "", "/a%20b" and "/100%"
SomeRows == {P(<<>>), P(<<S1(spaced)>>), P(<<S0(percent)>>)}

\* the same and "/x"
RowsBefore == SomeRows \cup {P(<<S0(before)>>)}

Written == {
    P(<<>>),                                         \* /
    P(<<S0(api)>>), Path(<<S1(api)>>, TRUE),         \* /api, /%61pi/
    P(<<S0(other)>>),                                \* /apix
    P(<<S1(spaced)>>), P(<<S0(api), S1(spaced)>>),   \* /a%20b, /api/a%20b
    P(<<S0(api), S0(nothing), S1(v2)>>),             \* /api//%762
    P(<<S0(api), S0(v2), S0(dotdot), S1(spaced)>>),  \* /api/v2/../a%20b
    P(<<S0(api), S0(v2), S1(spaced)>>),              \* /api/v2/a%20b
    P(<<S0(api), S0(v2), S1(slashed), S0(other)>>),  \* /api/v2/a%2Fb/apix
    P(<<S0(api), S1(dotdot), S0(dot), S0(other)>>),  \* /api/%2e%2e/./apix
    P(<<S0(api), S0(dotdot), S1(dotdot)>>),          \* /api/../%2e%2e
    P(<<S0(api), S0(v2), S0(asked), S0(dotdot)>>),   \* /api/v2/x?y/..
    P(<<S0(api), S0(percent)>>)}                     \* /api/100%

\* "/api/100%25" and "/api/x%3Fy": decoded, they are no path or another one.
EncodedTwice == Written \cup {P(<<S0(api), S1(percent)>>)}
EncodedQuery == Written \cup {P(<<S0(api), S1(asked)>>)}

ApiAddress == P(<<S0(api)>>)
GetPost == {"GET", "POST"}
ListGet == {"list", "get"}
SomeConditions == {<<"GET", Unset>>, <<Unset, "list">>, <<Unset, Unset>>}
=============================================================================
