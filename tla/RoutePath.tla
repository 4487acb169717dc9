----------------------------- MODULE RoutePath -----------------------------
(***************************************************************************)
(* The canonical form of route paths (route-path.ts), which declarations   *)
(* and requests share, and the longest-prefix search over them.            *)
(*                                                                         *)
(* A segment is a text under some layers of percent-encoding: "%2541" is   *)
(* the text "A" under two.  Texts are told apart by what the code tests:   *)
(* dot segments, a text with a slash, one that is no valid encoding as it  *)
(* stands ("100%"), one with a question mark.  A path is a sequence of     *)
(* segments as written, with or without a slash at its end.                *)
(***************************************************************************)
EXTENDS Naturals, Sequences, SequencesExt

CONSTANTS
    Texts,
    Nothing,   \* the empty text, between the slashes of "//"
    Dot, DotDot,
    Slashed,   \* a text with a slash in it
    Percent,   \* a text with a percent sign that encodes nothing
    Asked,     \* a text with a question mark ...
    Before,    \* ... and what stands before it
    Spaced,    \* other texts that are written encoded
    Strict     \* strictTrailingSlash

ASSUME PathAssumption ==
    /\ LET marked == <<Nothing, Dot, DotDot, Slashed, Percent, Asked, Before, Spaced>>
       IN \A i \in 1..8 : marked[i] \in Texts /\ \A j \in 1..8 : marked[i] = marked[j] => i = j
    /\ Strict \in BOOLEAN

Segment(text, layers) == [text |-> text, layers |-> layers]
Path(segs, slash) == [segs |-> segs, slash |-> slash]

WrittenSegments == [text : Texts, layers : Nat]
WrittenPaths == [segs : Seq(WrittenSegments), slash : BOOLEAN]

\* decodeSegment takes one layer off, and throws if what it finds is none.
Malformed(s) == s = Segment(Percent, 0)
Decoded(s) == IF s.layers > 0 THEN Segment(s.text, s.layers - 1) ELSE s

\* encodeURIComponent adds one; a text that needs none stays as it is.
MustEncode == {Slashed, Percent, Asked, Spaced}
Encoded(s) == IF s.layers > 0 \/ s.text \in MustEncode THEN Segment(s.text, s.layers + 1) ELSE s

\* The query begins at the first bare question mark.
WithoutQuery(raw) ==
    LET i == SelectInSeq(raw.segs, LAMBDA s : s = Segment(Asked, 0)) IN
    IF i = 0 THEN raw
    ELSE Path(Append(SubSeq(raw.segs, 1, i - 1), Segment(Before, 0)), FALSE)

\* One segment of the path is taken up, as the loop of normalizeRoutePath does.
Walk(acc, s) ==
    IF ~acc.ok \/ s.text = Nothing \/ Decoded(s) = Segment(Dot, 0) THEN acc
    ELSE IF Decoded(s) = Segment(DotDot, 0)
    THEN [ok |-> acc.segs # <<>>,
          segs |-> IF acc.segs # <<>> THEN Front(acc.segs) ELSE <<>>]
    ELSE IF Malformed(s) THEN [acc EXCEPT !.ok = FALSE]
    ELSE [acc EXCEPT !.segs = Append(@, Encoded(Decoded(s)))]

\* The loop over all segments.
Walked(segs) ==
    LET upTo[i \in 0..Len(segs)] ==
          IF i = 0 THEN [ok |-> TRUE, segs |-> <<>>] ELSE Walk(upTo[i - 1], segs[i])
    IN upTo[Len(segs)]

\* normalizeRoutePath; ok is FALSE when it throws a RoutePathError.
Normalized(raw) ==
    LET path == WithoutQuery(raw)
        walked == Walked(path.segs)
    IN [ok |-> walked.ok,
        path |-> Path(walked.segs, Strict /\ path.slash /\ walked.segs # <<>>)]

\* The decoded segments of a normalized path; an encoded slash stays encoded.
Segments(path) ==
    [i \in DOMAIN path.segs |->
        IF Decoded(path.segs[i]) = Segment(Slashed, 0)
        THEN path.segs[i] ELSE Decoded(path.segs[i])]

RootPath == Path(<<>>, FALSE)

\* routeMatchKey ends a path with a slash, and matchRoute takes it off again.
MatchKey(path) == path.segs
PrefixOfKey(key) == Path(key, FALSE)

Longest(S) == CHOOSE k \in S : \A l \in S : Len(l) <= Len(k)

\* matchRoute over a table with the given keys: the longest one that is the
\* path or an ancestor of it; {} if there is none.
Hits(keys, segs) == {k \in keys : IsPrefix(k, segs)}

\* Variant: any ancestor will do.
MatchRouteFirst(keys, segs) ==
    IF Hits(keys, segs) = {} THEN {} ELSE {PrefixOfKey(CHOOSE k \in Hits(keys, segs) : TRUE)}

MatchRoute(keys, segs) ==
    IF Hits(keys, segs) = {} THEN {} ELSE {PrefixOfKey(Longest(Hits(keys, segs)))}
=============================================================================
