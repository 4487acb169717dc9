--------------------------- MODULE RequestProofs ---------------------------
(***************************************************************************)
(* What a request is taken for, for any paths of any length: the loop of   *)
(* normalizeRoutePath computes what a path means, the searches for the     *)
(* longest prefix agree, and RequestsFollowClaims holds.                   *)
(***************************************************************************)
EXTENDS RoutingProofs, FiniteSetTheorems, WellFoundedInduction

(***************************************************************************)
(* Induction over numbers, by way of sets                                  *)
(***************************************************************************)
\* A set of naturals that is not empty has a least element.
LEMMA LeastElement ==
    ASSUME NEW T, T \subseteq Nat, T # {}
    PROVE  \E m \in T : \A k \in T : m <= k
  <1> DEFINE R == {p \in Nat \X Nat : p[1] < p[2]}
  <1>1. IsWellFoundedOn(R, Nat)
    BY NatLessThanWellFounded DEF OpToRel
  <1>2. \A k, m \in Nat : k < m => <<k, m>> \in R
    OBVIOUS
  <1> HIDE DEF R
  <1>3. PICK m \in T : \A k \in T : <<k, m>> \notin R
    BY <1>1, WFMin
  <1>4. ASSUME NEW k \in T PROVE m <= k
    <2>1. m \in Nat /\ k \in Nat /\ ~(k < m)
      BY <1>2, <1>3
    <2>2. QED
      BY <2>1
  <1>5. QED
    BY <1>4

LEMMA MinIs ==
    ASSUME NEW T, T \subseteq Nat, T # {}
    PROVE  Min(T) \in T /\ \A k \in T : Min(T) <= k
  BY LeastElement DEF Min

LEMMA Inductive ==
    ASSUME NEW n \in Nat, NEW T, 0 \in T, \A i \in 0..(n - 1) : i \in T => i + 1 \in T
    PROVE  0..n \subseteq T
  <1> SUFFICES ASSUME (0..n) \ T # {} PROVE FALSE
    OBVIOUS
  <1>1. PICK m \in (0..n) \ T : \A k \in (0..n) \ T : m <= k
    <2>1. (0..n) \ T \subseteq Nat
      OBVIOUS
    <2>2. QED
      BY <2>1, LeastElement
  <1>2. m # 0 /\ m - 1 \in 0..(n - 1) /\ m - 1 \in T
    BY <1>1
  <1>3. QED
    BY <1>1, <1>2
-----------------------------------------------------------------------------
(***************************************************************************)
(* Segments and the loop over them                                         *)
(***************************************************************************)
LEMMA MarkedTexts ==
    /\ Nothing \in Texts /\ Dot \in Texts /\ DotDot \in Texts /\ Slashed \in Texts
    /\ Percent \in Texts /\ Asked \in Texts /\ Before \in Texts /\ Spaced \in Texts
    /\ Nothing # Dot /\ Nothing # DotDot /\ Nothing # Percent /\ Dot # DotDot
    /\ Percent # Dot /\ Percent # DotDot /\ Asked # Before
  <1> DEFINE marked == <<Nothing, Dot, DotDot, Slashed, Percent, Asked, Before, Spaced>>
  <1>1. \A i \in 1..8 : marked[i] \in Texts /\ \A j \in 1..8 : marked[i] = marked[j] => i = j
    BY PathAssumption
  <1>2. /\ marked[1] = Nothing /\ marked[2] = Dot /\ marked[3] = DotDot /\ marked[4] = Slashed
        /\ marked[5] = Percent /\ marked[6] = Asked /\ marked[7] = Before /\ marked[8] = Spaced
    OBVIOUS
  <1> HIDE DEF marked
  <1>3. QED
    BY <1>1, <1>2

LEMMA SegmentTypes ==
    ASSUME NEW s \in WrittenSegments
    PROVE  /\ s = Segment(s.text, s.layers)
           /\ Decoded(s) \in WrittenSegments
           /\ Encoded(s) \in WrittenSegments
  BY DEF WrittenSegments, Segment, Decoded, Encoded

\* The query is cut off: what is left has no bare question mark.
LEMMA QueryGone ==
    ASSUME NEW raw \in WrittenPaths
    PROVE  /\ WithoutQuery(raw) \in WrittenPaths
           /\ \A i \in DOMAIN WithoutQuery(raw).segs :
                WithoutQuery(raw).segs[i] # Segment(Asked, 0)
  <1> DEFINE I == {i \in 1..Len(raw.segs) : raw.segs[i] = Segment(Asked, 0)}
  <1>1. raw.segs \in Seq(WrittenSegments) /\ I \subseteq Nat
    BY DEF WrittenPaths
  <1>2. CASE I = {}
    <2>1. WithoutQuery(raw) = raw
      BY <1>2 DEF WithoutQuery, SelectInSeq
    <2>2. QED
      BY <1>1, <1>2, <2>1
  <1>3. CASE I # {}
    <2> DEFINE m == Min(I)
               kept == SubSeq(raw.segs, 1, m - 1)
    <2>1. m \in 1..Len(raw.segs) /\ \A k \in I : m <= k
      BY <1>1, <1>3, MinIs
    <2>2. WithoutQuery(raw) = Path(Append(kept, Segment(Before, 0)), FALSE)
      <3> DEFINE first == SelectInSeq(raw.segs, LAMBDA s : s = Segment(Asked, 0))
      <3>1. first = m
        BY <1>3 DEF SelectInSeq
      <3>2. WithoutQuery(raw) = IF first = 0 THEN raw
              ELSE Path(Append(SubSeq(raw.segs, 1, first - 1), Segment(Before, 0)), FALSE)
        BY DEF WithoutQuery
      <3> HIDE DEF first, m, I
      <3>3. m # 0
        BY <2>1
      <3>4. QED
        BY <3>1, <3>2, <3>3
    <2> HIDE DEF m
    <2>3. kept \in Seq(WrittenSegments) /\ Len(kept) = m - 1
          /\ \A i \in 1..(m - 1) : kept[i] = raw.segs[i] /\ i \notin I
      BY <1>1, <2>1
    <2>4. Segment(Before, 0) \in WrittenSegments /\ Segment(Before, 0) # Segment(Asked, 0)
      BY MarkedTexts DEF Segment, WrittenSegments
    <2> HIDE DEF kept
    <2>5. \A i \in 1..(m - 1) : kept[i] # Segment(Asked, 0)
      BY <2>1, <2>3
    <2> DEFINE new == Append(kept, Segment(Before, 0))
    <2>6. new \in Seq(WrittenSegments) /\ \A i \in DOMAIN new : new[i] # Segment(Asked, 0)
      BY <2>3, <2>4, <2>5
    <2>7. QED
      BY <2>2, <2>6 DEF Path, WrittenPaths
  <1>4. QED
    BY <1>2, <1>3

Walks == [ok : BOOLEAN, segs : Seq(WrittenSegments)]
Start0 == [ok |-> TRUE, segs |-> <<>>]

LEMMA WalkType ==
    ASSUME NEW acc \in Walks, NEW s \in WrittenSegments
    PROVE  Walk(acc, s) \in Walks
  <1>1. Encoded(Decoded(s)) \in WrittenSegments
    BY SegmentTypes
  <1>2. acc.segs # <<>> => Front(acc.segs) \in Seq(WrittenSegments)
    BY DEF Walks, Front
  <1>3. Append(acc.segs, Encoded(Decoded(s))) \in Seq(WrittenSegments)
    BY <1>1 DEF Walks
  <1>4. QED
    BY <1>2, <1>3 DEF Walk, Walks

\* The states of the loop are well defined and follow one another.
Steps(w, segs, n) ==
    /\ w \in [0..n -> Walks]
    /\ w[0] = Start0
    /\ \A i \in 1..n : w[i] = Walk(w[i - 1], segs[i])

LEMMA StepsExist ==
    ASSUME NEW segs \in Seq(WrittenSegments)
    PROVE  \E w : Steps(w, segs, Len(segs))
  <1> DEFINE T == {n \in 0..Len(segs) : \E w : Steps(w, segs, n)}
  <1>1. 0 \in T
    <2>1. Steps([i \in 0..0 |-> Start0], segs, 0)
      BY DEF Steps, Start0, Walks
    <2>2. QED
      BY <2>1
  <1>2. ASSUME NEW n \in 0..(Len(segs) - 1), n \in T
        PROVE  n + 1 \in T
    <2>1. PICK w : Steps(w, segs, n)
      BY <1>2
    <2> DEFINE v == [i \in 0..(n + 1) |-> IF i = n + 1 THEN Walk(w[n], segs[n + 1]) ELSE w[i]]
    <2>2. Walk(w[n], segs[n + 1]) \in Walks
      BY <2>1, WalkType DEF Steps
    <2>3. v \in [0..(n + 1) -> Walks] /\ v[0] = Start0
      BY <2>1, <2>2 DEF Steps
    <2>4. ASSUME NEW i \in 1..(n + 1) PROVE v[i] = Walk(v[i - 1], segs[i])
      <3>1. CASE i = n + 1
        BY <3>1
      <3>2. CASE i # n + 1
        BY <2>1, <3>2 DEF Steps
      <3>3. QED
        BY <3>1, <3>2
    <2>5. Steps(v, segs, n + 1)
      BY <2>3, <2>4 DEF Steps
    <2>6. n + 1 \in 0..Len(segs)
      OBVIOUS
    <2>7. QED
      BY <2>5, <2>6
  <1> HIDE DEF T
  <1>3. Len(segs) \in Nat
    OBVIOUS
  <1>4. 0..Len(segs) \subseteq T
    BY <1>1, <1>2, <1>3, Inductive
  <1>5. QED
    BY <1>3, <1>4 DEF T

LEMMA WalkedIs ==
    ASSUME NEW segs \in Seq(WrittenSegments)
    PROVE  \E w : Steps(w, segs, Len(segs)) /\ Walked(segs) = w[Len(segs)]
  <1> DEFINE Body(w) == [i \in 0..Len(segs) |-> IF i = 0 THEN [ok |-> TRUE, segs |-> <<>>]
                                                ELSE Walk(w[i - 1], segs[i])]
             g == CHOOSE w : w = Body(w)
  <1>1. Walked(segs) = g[Len(segs)]
    BY DEF Walked
  <1>2. PICK v : Steps(v, segs, Len(segs))
    BY StepsExist
  <1>3. v = Body(v)
    BY <1>2 DEF Steps, Start0
  <1>4. g = Body(g)
    BY <1>3
  <1> HIDE DEF g
  <1>5. /\ g = [i \in 0..Len(segs) |-> g[i]]
        /\ g[0] = Start0
        /\ \A i \in 1..Len(segs) : g[i] = Walk(g[i - 1], segs[i])
    <2>1. Len(segs) \in Nat
      OBVIOUS
    <2>2. \A i \in 0..Len(segs) : g[i] = IF i = 0 THEN [ok |-> TRUE, segs |-> <<>>]
                                         ELSE Walk(g[i - 1], segs[i])
      BY <1>4
    <2>3. DOMAIN g = 0..Len(segs) /\ g = [i \in DOMAIN g |-> g[i]]
      BY <1>4
    <2> HIDE DEF Body
    <2>4. QED
      BY <2>1, <2>2, <2>3 DEF Start0
  <1> DEFINE T == {i \in 0..Len(segs) : g[i] \in Walks}
  <1>6. \A i \in 0..Len(segs) : g[i] \in Walks
    <2>1. 0 \in T
      <3>1. Start0 \in Walks /\ 0 \in 0..Len(segs)
        BY DEF Start0, Walks
      <3>2. QED
        BY <1>5, <3>1
    <2>2. ASSUME NEW i \in 0..(Len(segs) - 1), i \in T PROVE i + 1 \in T
      <3>1. i + 1 \in 1..Len(segs) /\ (i + 1) - 1 = i /\ g[i] \in Walks
        BY <2>2
      <3>2. g[i + 1] = Walk(g[(i + 1) - 1], segs[i + 1])
        BY <1>5, <3>1
      <3>3. segs[i + 1] \in WrittenSegments
        BY <3>1
      <3>4. g[i + 1] \in Walks
        BY <3>1, <3>2, <3>3, WalkType
      <3>5. QED
        BY <3>1, <3>4
    <2> HIDE DEF T
    <2>3. 0..Len(segs) \subseteq T
      BY <2>1, <2>2, Inductive
    <2>4. QED
      BY <2>3 DEF T
  <1>7. Steps(g, segs, Len(segs))
    BY <1>5, <1>6 DEF Steps
  <1>8. QED
    BY <1>1, <1>7
-----------------------------------------------------------------------------
(***************************************************************************)
(* The loop computes the meaning of a path                                 *)
(***************************************************************************)
IsUp(s) == Decoded(s) = Segment(DotDot, 0)
IsName(s) == s.text # Nothing /\ Decoded(s) \notin {Segment(Dot, 0), Segment(DotDot, 0)}

UpCount(segs, k, i) == Cardinality(Ups(segs, k, i))
NameCount(segs, k, i) == Cardinality(Names(segs, k, i))

LEMMA CountsAre ==
    ASSUME NEW segs, NEW k \in Nat, NEW i \in Nat
    PROVE  /\ IsFiniteSet(Ups(segs, k, i)) /\ UpCount(segs, k, i) \in Nat
           /\ IsFiniteSet(Names(segs, k, i)) /\ NameCount(segs, k, i) \in Nat
           /\ k > i => UpCount(segs, k, i) = 0 /\ NameCount(segs, k, i) = 0
  <1>1. IsFiniteSet(k..i)
    BY FS_Interval
  <1>2. /\ Ups(segs, k, i) \in SUBSET (k..i) /\ Names(segs, k, i) \in SUBSET (k..i)
        /\ k > i => Ups(segs, k, i) = {} /\ Names(segs, k, i) = {}
    BY DEF Ups, Names
  <1>3. IsFiniteSet(Ups(segs, k, i)) /\ IsFiniteSet(Names(segs, k, i))
    BY <1>1, <1>2, FS_Subset
  <1>4. UpCount(segs, k, i) \in Nat /\ NameCount(segs, k, i) \in Nat
    BY <1>3, FS_CardinalityType DEF UpCount, NameCount
  <1>5. k > i => UpCount(segs, k, i) = 0 /\ NameCount(segs, k, i) = 0
    BY <1>2, FS_EmptySet DEF UpCount, NameCount
  <1>6. QED
    BY <1>3, <1>4, <1>5

\* One more segment adds one to the count it belongs to.
LEMMA CountsStep ==
    ASSUME NEW segs, NEW k \in Nat, NEW i \in Nat, k <= i + 1
    PROVE  /\ UpCount(segs, k, i + 1) = UpCount(segs, k, i) + IF IsUp(segs[i + 1]) THEN 1 ELSE 0
           /\ NameCount(segs, k, i + 1) = NameCount(segs, k, i) + IF IsName(segs[i + 1]) THEN 1 ELSE 0
  <1>1. k..(i + 1) = (k..i) \cup {i + 1} /\ i + 1 \notin k..i
    OBVIOUS
  <1>2. Ups(segs, k, i + 1) = IF IsUp(segs[i + 1]) THEN Ups(segs, k, i) \cup {i + 1} ELSE Ups(segs, k, i)
    BY <1>1 DEF Ups, IsUp
  <1>3. Names(segs, k, i + 1) = IF IsName(segs[i + 1]) THEN Names(segs, k, i) \cup {i + 1} ELSE Names(segs, k, i)
    BY <1>1 DEF Names, IsName
  <1>4. i + 1 \notin Ups(segs, k, i) /\ i + 1 \notin Names(segs, k, i)
    BY <1>1 DEF Ups, Names
  <1>5. UpCount(segs, k, i + 1) = UpCount(segs, k, i) + IF IsUp(segs[i + 1]) THEN 1 ELSE 0
    <2>1. CASE IsUp(segs[i + 1])
      BY <1>2, <1>4, <2>1, CountsAre, FS_AddElement DEF UpCount
    <2>2. CASE ~IsUp(segs[i + 1])
      BY <1>2, <2>2, CountsAre DEF UpCount
    <2>3. QED
      BY <2>1, <2>2
  <1>6. NameCount(segs, k, i + 1) = NameCount(segs, k, i) + IF IsName(segs[i + 1]) THEN 1 ELSE 0
    <2>1. CASE IsName(segs[i + 1])
      BY <1>3, <1>4, <2>1, CountsAre, FS_AddElement DEF NameCount
    <2>2. CASE ~IsName(segs[i + 1])
      BY <1>3, <2>2, CountsAre DEF NameCount
    <2>3. QED
      BY <2>1, <2>2
  <1>7. QED
    BY <1>5, <1>6

\* The names that count after the first i segments, and whether these mean
\* anything at all.
Left(segs, i) == {k \in Names(segs, 1, i) : \A j \in (k + 1)..i : Covered(segs, k + 1, j)}
Bad(segs, i) == \E j \in 1..i : Malformed(segs[j]) \/ ~Covered(segs, 1, j)

\* The segments kept so far are those names, in order; behind each of them,
\* and before the first, the names exceed the dot segments by those kept.
Keeps(segs, acc, idx, i) ==
    /\ idx \in Seq(1..i)
    /\ \A a, b \in DOMAIN idx : a < b => idx[a] < idx[b]
    /\ Left(segs, i) = {idx[a] : a \in DOMAIN idx}
    /\ acc.segs = [a \in DOMAIN idx |-> Encoded(Decoded(segs[idx[a]]))]
    /\ NameCount(segs, 1, i) = UpCount(segs, 1, i) + Len(idx)
    /\ \A a \in DOMAIN idx :
         NameCount(segs, idx[a] + 1, i) = UpCount(segs, idx[a] + 1, i) + (Len(idx) - a)

Means(segs, acc, i) ==
    /\ acc.ok <=> ~Bad(segs, i)
    /\ acc.ok => \E idx : Keeps(segs, acc, idx, i)

LEMMA MeansNothing ==
    ASSUME NEW segs \in Seq(WrittenSegments)
    PROVE  Means(segs, Start0, 0)
  <1>1. ~Bad(segs, 0) /\ Left(segs, 0) = {}
    BY DEF Bad, Left, Names
  <1>2. NameCount(segs, 1, 0) = 0 /\ UpCount(segs, 1, 0) = 0
    BY CountsAre
  <1>3. Keeps(segs, Start0, <<>>, 0)
    BY <1>1, <1>2 DEF Keeps, Start0
  <1>4. QED
    BY <1>1, <1>3 DEF Means, Start0

\* What the next segment does to Bad and Left.
LEMMA BadStep ==
    ASSUME NEW segs, NEW i \in Nat
    PROVE  Bad(segs, i + 1) <=> \/ Bad(segs, i)
                               \/ Malformed(segs[i + 1])
                               \/ ~Covered(segs, 1, i + 1)
  <1>1. 1..(i + 1) = (1..i) \cup {i + 1}
    OBVIOUS
  <1>2. QED
    BY <1>1 DEF Bad

LEMMA LeftStep ==
    ASSUME NEW segs, NEW i \in Nat
    PROVE  Left(segs, i + 1) =
             {k \in Left(segs, i) : Covered(segs, k + 1, i + 1)}
               \cup IF IsName(segs[i + 1]) THEN {i + 1} ELSE {}
  <1>1. Names(segs, 1, i + 1) =
          Names(segs, 1, i) \cup IF IsName(segs[i + 1]) THEN {i + 1} ELSE {}
    <2>1. 1..(i + 1) = (1..i) \cup {i + 1}
      OBVIOUS
    <2>2. QED
      BY <2>1 DEF Names, IsName
  <1>2. \A k \in 1..i : (k + 1)..(i + 1) = ((k + 1)..i) \cup {i + 1}
    OBVIOUS
  <1>3. ((i + 1) + 1)..(i + 1) = {}
    OBVIOUS
  <1>4. Names(segs, 1, i) \subseteq 1..i
    BY DEF Names
  <1>5. QED
    BY <1>1, <1>2, <1>3, <1>4 DEF Left

\* Only a dot segment can take away what was kept, and only the last of it.
LEMMA CoveredStep ==
    ASSUME NEW segs, NEW acc, NEW idx, NEW i \in Nat, Keeps(segs, acc, idx, i)
    PROVE  /\ Covered(segs, 1, i + 1) <=> (IsUp(segs[i + 1]) => Len(idx) > 0)
           /\ \A a \in DOMAIN idx :
                Covered(segs, idx[a] + 1, i + 1) <=> (IsUp(segs[i + 1]) => a < Len(idx))
  <1>1. Len(idx) \in Nat /\ DOMAIN idx = 1..Len(idx) /\ \A a \in DOMAIN idx : idx[a] \in 1..i
    BY DEF Keeps
  <1>2. ~(IsUp(segs[i + 1]) /\ IsName(segs[i + 1]))
    BY DEF IsUp, IsName
  <1>3. ASSUME NEW k \in Nat, k <= i + 1, NEW n \in Nat,
               NameCount(segs, k, i) = UpCount(segs, k, i) + n
        PROVE  Covered(segs, k, i + 1) <=> (IsUp(segs[i + 1]) => n > 0)
    <2>1. /\ UpCount(segs, k, i) \in Nat
          /\ UpCount(segs, k, i + 1) = UpCount(segs, k, i) + IF IsUp(segs[i + 1]) THEN 1 ELSE 0
          /\ NameCount(segs, k, i + 1) = NameCount(segs, k, i) + IF IsName(segs[i + 1]) THEN 1 ELSE 0
      BY <1>3, CountsStep, CountsAre
    <2>2. Covered(segs, k, i + 1) <=> UpCount(segs, k, i + 1) <= NameCount(segs, k, i + 1)
      BY DEF Covered, UpCount, NameCount
    <2>3. QED
      BY <1>2, <1>3, <2>1, <2>2
  <1>4. Covered(segs, 1, i + 1) <=> (IsUp(segs[i + 1]) => Len(idx) > 0)
    BY <1>1, <1>3 DEF Keeps
  <1>5. ASSUME NEW a \in DOMAIN idx
        PROVE  Covered(segs, idx[a] + 1, i + 1) <=> (IsUp(segs[i + 1]) => a < Len(idx))
    <2>1. idx[a] + 1 \in Nat /\ idx[a] + 1 <= i + 1 /\ Len(idx) - a \in Nat
      BY <1>1
    <2>2. NameCount(segs, idx[a] + 1, i) = UpCount(segs, idx[a] + 1, i) + (Len(idx) - a)
      BY DEF Keeps
    <2>3. Covered(segs, idx[a] + 1, i + 1) <=> (IsUp(segs[i + 1]) => Len(idx) - a > 0)
      BY <1>3, <2>1, <2>2
    <2>4. QED
      BY <1>1, <2>3
  <1>6. QED
    BY <1>4, <1>5

\* How the counts behind a kept name go on.
LEMMA CountsKeep ==
    ASSUME NEW segs, NEW k \in Nat, NEW i \in Nat, k <= i + 1, NEW n \in Int,
           NameCount(segs, k, i) = UpCount(segs, k, i) + n
    PROVE  NameCount(segs, k, i + 1) = UpCount(segs, k, i + 1) +
             (n + IF IsUp(segs[i + 1]) THEN -1 ELSE IF IsName(segs[i + 1]) THEN 1 ELSE 0)
  <1>1. /\ UpCount(segs, k, i) \in Nat
        /\ UpCount(segs, k, i + 1) = UpCount(segs, k, i) + IF IsUp(segs[i + 1]) THEN 1 ELSE 0
        /\ NameCount(segs, k, i + 1) = NameCount(segs, k, i) + IF IsName(segs[i + 1]) THEN 1 ELSE 0
    BY CountsStep, CountsAre
  <1>2. ~(IsUp(segs[i + 1]) /\ IsName(segs[i + 1]))
    BY DEF IsUp, IsName
  <1>3. QED
    BY <1>1, <1>2

\* An empty segment or a single dot changes nothing.
LEMMA MeansSkip ==
    ASSUME NEW segs, NEW acc, NEW idx, NEW i \in Nat, Keeps(segs, acc, idx, i),
           ~IsUp(segs[i + 1]), ~IsName(segs[i + 1])
    PROVE  Covered(segs, 1, i + 1) /\ Keeps(segs, acc, idx, i + 1)
  <1>1. /\ Covered(segs, 1, i + 1)
        /\ \A a \in DOMAIN idx : Covered(segs, idx[a] + 1, i + 1)
    BY CoveredStep
  <1>2. idx \in Seq(1..i) /\ idx \in Seq(1..(i + 1)) /\ Len(idx) \in Nat
        /\ DOMAIN idx = 1..Len(idx) /\ \A a \in DOMAIN idx : idx[a] \in 1..i
    <2>1. idx \in Seq(1..i)
      BY DEF Keeps
    <2>2. 1..i \subseteq 1..(i + 1)
      OBVIOUS
    <2>3. QED
      BY <2>1, <2>2
  <1>3. Left(segs, i + 1) = {idx[a] : a \in DOMAIN idx}
    <2>1. Left(segs, i + 1) = {k \in Left(segs, i) : Covered(segs, k + 1, i + 1)}
      BY LeftStep
    <2>2. Left(segs, i) = {idx[a] : a \in DOMAIN idx}
      BY DEF Keeps
    <2>3. QED
      BY <1>1, <2>1, <2>2
  <1>4. NameCount(segs, 1, i + 1) = UpCount(segs, 1, i + 1) + Len(idx)
    <2>1. NameCount(segs, 1, i) = UpCount(segs, 1, i) + Len(idx)
      BY DEF Keeps
    <2>2. NameCount(segs, 1, i + 1) = UpCount(segs, 1, i + 1) + (Len(idx) + 0)
      BY <1>2, <2>1, CountsKeep
    <2>3. QED
      BY <1>2, <2>2
  <1>5. ASSUME NEW a \in DOMAIN idx
        PROVE  NameCount(segs, idx[a] + 1, i + 1) = UpCount(segs, idx[a] + 1, i + 1) + (Len(idx) - a)
    <2>1. NameCount(segs, idx[a] + 1, i) = UpCount(segs, idx[a] + 1, i) + (Len(idx) - a)
      BY DEF Keeps
    <2>2. idx[a] + 1 \in Nat /\ idx[a] + 1 <= i + 1 /\ Len(idx) - a \in Int
      BY <1>2
    <2>3. NameCount(segs, idx[a] + 1, i + 1) = UpCount(segs, idx[a] + 1, i + 1) + ((Len(idx) - a) + 0)
      BY <2>1, <2>2, CountsKeep
    <2>4. QED
      BY <2>2, <2>3
  <1>6. QED
    BY <1>1, <1>2, <1>3, <1>4, <1>5 DEF Keeps

\* A double dot takes the last name away.
LEMMA MeansUp ==
    ASSUME NEW segs, NEW acc, NEW idx, NEW i \in Nat, Keeps(segs, acc, idx, i),
           IsUp(segs[i + 1]), Len(idx) > 0
    PROVE  Keeps(segs, [ok |-> TRUE, segs |-> Front(acc.segs)], Front(idx), i + 1)
  <1> DEFINE n == Len(idx)
             new == Front(idx)
  <1>1. n \in Nat /\ DOMAIN idx = 1..n /\ \A a \in DOMAIN idx : idx[a] \in 1..i
    BY DEF Keeps
  <1>2. new \in Seq(1..(i + 1)) /\ Len(new) = n - 1 /\ DOMAIN new = 1..(n - 1)
        /\ \A a \in 1..(n - 1) : new[a] = idx[a]
    <2>1. idx \in Seq(1..(i + 1))
      <3>1. idx \in Seq(1..i) /\ 1..i \subseteq 1..(i + 1)
        BY DEF Keeps
      <3>2. QED
        BY <3>1
    <2>2. QED
      BY <1>1, <2>1 DEF Front
  <1> HIDE DEF new
  <1>3. \A a, b \in DOMAIN new : a < b => new[a] < new[b]
    <2>1. \A a, b \in 1..n : a < b => idx[a] < idx[b]
      BY <1>1 DEF Keeps
    <2> HIDE DEF n
    <2>2. QED
      BY <1>1, <1>2, <2>1
  <1>4. Left(segs, i + 1) = {new[a] : a \in DOMAIN new}
    <2>1. Left(segs, i + 1) = {k \in Left(segs, i) : Covered(segs, k + 1, i + 1)}
      BY LeftStep DEF IsUp, IsName
    <2>2. Left(segs, i) = {idx[a] : a \in DOMAIN idx}
      BY DEF Keeps
    <2>3. \A a \in DOMAIN idx : Covered(segs, idx[a] + 1, i + 1) <=> a < n
      BY CoveredStep
    <2> HIDE DEF n
    <2>4. Left(segs, i + 1) = {idx[a] : a \in 1..(n - 1)}
      <3>1. \A a \in 1..n : a < n <=> a \in 1..(n - 1)
        BY <1>1
      <3>2. \A a \in 1..(n - 1) : a \in 1..n
        BY <1>1
      <3>3. QED
        BY <1>1, <2>1, <2>2, <2>3, <3>1, <3>2
    <2>5. QED
      BY <1>2, <2>4
  <1>5. Front(acc.segs) = [a \in DOMAIN new |-> Encoded(Decoded(segs[new[a]]))]
    <2>1. acc.segs = [a \in 1..n |-> Encoded(Decoded(segs[idx[a]]))]
      BY <1>1 DEF Keeps
    <2>2. Len(acc.segs) = n
      BY <1>1, <2>1
    <2>3. Front(acc.segs) = [a \in 1..(n - 1) |-> acc.segs[a]]
      BY <1>1, <2>2 DEF Front
    <2> HIDE DEF n
    <2>4. \A a \in 1..(n - 1) : acc.segs[a] = Encoded(Decoded(segs[new[a]]))
      BY <1>1, <1>2, <2>1
    <2>5. QED
      BY <1>2, <2>3, <2>4
  <1>6. NameCount(segs, 1, i + 1) = UpCount(segs, 1, i + 1) + Len(new)
    <2>1. NameCount(segs, 1, i) = UpCount(segs, 1, i) + n
      BY DEF Keeps
    <2>2. NameCount(segs, 1, i + 1) = UpCount(segs, 1, i + 1) + (n + -1)
      BY <1>1, <2>1, CountsKeep
    <2>3. QED
      BY <1>1, <1>2, <2>2
  <1>7. ASSUME NEW a \in DOMAIN new
        PROVE  NameCount(segs, new[a] + 1, i + 1) = UpCount(segs, new[a] + 1, i + 1) + (Len(new) - a)
    <2>1. a \in DOMAIN idx /\ new[a] = idx[a]
      BY <1>1, <1>2
    <2>2. NameCount(segs, idx[a] + 1, i) = UpCount(segs, idx[a] + 1, i) + (n - a)
      BY <2>1 DEF Keeps
    <2>3. idx[a] + 1 \in Nat /\ idx[a] + 1 <= i + 1 /\ n - a \in Int
      BY <1>1, <2>1
    <2>4. NameCount(segs, idx[a] + 1, i + 1) = UpCount(segs, idx[a] + 1, i + 1) + ((n - a) + -1)
      BY <2>2, <2>3, CountsKeep
    <2>5. (n - a) + -1 = Len(new) - a
      BY <1>1, <1>2, <2>1
    <2>6. QED
      BY <2>1, <2>4, <2>5
  <1> DEFINE now == [ok |-> TRUE, segs |-> Front(acc.segs)]
  <1>8. now.segs = [a \in DOMAIN new |-> Encoded(Decoded(segs[new[a]]))]
    BY <1>5
  <1>9. Keeps(segs, now, new, i + 1)
    <2> HIDE DEF now, n
    <2>1. QED
      BY <1>2, <1>3, <1>4, <1>6, <1>7, <1>8 DEF Keeps
  <1>10. QED
    BY <1>9 DEF new

\* A name is kept behind the others.
LEMMA MeansName ==
    ASSUME NEW segs, NEW acc, NEW idx, NEW i \in Nat, Keeps(segs, acc, idx, i),
           IsName(segs[i + 1])
    PROVE  /\ Covered(segs, 1, i + 1)
           /\ Keeps(segs, [acc EXCEPT !.segs = Append(@, Encoded(Decoded(segs[i + 1])))],
                    Append(idx, i + 1), i + 1)
  <1> DEFINE n == Len(idx)
             new == Append(idx, i + 1)
             now == [acc EXCEPT !.segs = Append(@, Encoded(Decoded(segs[i + 1])))]
  <1>1. n \in Nat /\ DOMAIN idx = 1..n /\ \A a \in DOMAIN idx : idx[a] \in 1..i
    BY DEF Keeps
  <1>2. new \in Seq(1..(i + 1)) /\ Len(new) = n + 1 /\ DOMAIN new = 1..(n + 1)
        /\ new[n + 1] = i + 1 /\ \A a \in 1..n : new[a] = idx[a]
    <2>1. idx \in Seq(1..(i + 1)) /\ i + 1 \in 1..(i + 1)
      <3>1. idx \in Seq(1..i) /\ 1..i \subseteq 1..(i + 1)
        BY DEF Keeps
      <3>2. QED
        BY <3>1
    <2>2. QED
      BY <1>1, <2>1
  <1> HIDE DEF new
  <1>3. ASSUME NEW a \in DOMAIN new, NEW b \in DOMAIN new, a < b
        PROVE  new[a] < new[b]
    <2>1. \A c, d \in 1..n : c < d => idx[c] < idx[d]
      BY <1>1 DEF Keeps
    <2> HIDE DEF n
    <2>2. a \in 1..n /\ a # n + 1
      BY <1>1, <1>2, <1>3
    <2>3. CASE b = n + 1
      <3>1. idx[a] \in 1..i
        BY <1>1, <2>2
      <3>2. idx[a] < i + 1
        BY <3>1
      <3>3. QED
        BY <1>2, <2>2, <2>3, <3>2
    <2>4. CASE b # n + 1
      <3>1. b \in 1..n
        BY <1>1, <1>2, <2>4
      <3>2. QED
        BY <1>2, <1>3, <2>1, <2>2, <3>1
    <2>5. QED
      BY <2>3, <2>4
  <1>4. ~IsUp(segs[i + 1])
    BY DEF IsUp, IsName
  <1>5. Left(segs, i + 1) = {new[a] : a \in DOMAIN new}
    <2>1. Left(segs, i + 1) = {k \in Left(segs, i) : Covered(segs, k + 1, i + 1)} \cup {i + 1}
      BY LeftStep
    <2>2. Left(segs, i) = {idx[a] : a \in DOMAIN idx}
      BY DEF Keeps
    <2>3. \A a \in DOMAIN idx : Covered(segs, idx[a] + 1, i + 1)
      BY <1>4, CoveredStep
    <2>4. DOMAIN new = DOMAIN idx \cup {n + 1}
      BY <1>1, <1>2
    <2> HIDE DEF n
    <2>5. Left(segs, i + 1) = {idx[a] : a \in DOMAIN idx} \cup {i + 1}
      BY <2>1, <2>2, <2>3
    <2>6. \A a \in DOMAIN idx : new[a] = idx[a]
      BY <1>1, <1>2
    <2>7. {new[a] : a \in DOMAIN new} = {new[a] : a \in DOMAIN idx} \cup {i + 1}
      BY <1>2, <2>4
    <2>8. {new[a] : a \in DOMAIN idx} = {idx[a] : a \in DOMAIN idx}
      BY <2>6
    <2>9. QED
      BY <2>5, <2>7, <2>8
  <1>6. now.segs = [a \in DOMAIN new |-> Encoded(Decoded(segs[new[a]]))]
    <2>1. acc.segs = [a \in 1..n |-> Encoded(Decoded(segs[idx[a]]))]
      BY <1>1 DEF Keeps
    <2>2. Len(acc.segs) = n
      BY <1>1, <2>1
    <2>3. now.segs = Append(acc.segs, Encoded(Decoded(segs[i + 1])))
      OBVIOUS
    <2>4. QED
      BY <1>1, <1>2, <2>1, <2>2, <2>3
  <1>7. NameCount(segs, 1, i + 1) = UpCount(segs, 1, i + 1) + Len(new)
    <2>1. NameCount(segs, 1, i) = UpCount(segs, 1, i) + n
      BY DEF Keeps
    <2>2. NameCount(segs, 1, i + 1) = UpCount(segs, 1, i + 1) + (n + 1)
      BY <1>1, <1>4, <2>1, CountsKeep
    <2>3. QED
      BY <1>1, <1>2, <2>2
  <1>8. ASSUME NEW a \in DOMAIN new
        PROVE  NameCount(segs, new[a] + 1, i + 1) = UpCount(segs, new[a] + 1, i + 1) + (Len(new) - a)
    <2>1. CASE a \in 1..n
      <3>1. NameCount(segs, idx[a] + 1, i) = UpCount(segs, idx[a] + 1, i) + (n - a)
        BY <1>1, <2>1 DEF Keeps
      <3>2. idx[a] + 1 \in Nat /\ idx[a] + 1 <= i + 1 /\ n - a \in Int
        BY <1>1, <2>1
      <3>3. NameCount(segs, idx[a] + 1, i + 1) = UpCount(segs, idx[a] + 1, i + 1) + ((n - a) + 1)
        BY <1>4, <3>1, <3>2, CountsKeep
      <3>4. (n - a) + 1 = Len(new) - a /\ new[a] = idx[a]
        BY <1>1, <1>2, <2>1
      <3>5. QED
        BY <3>3, <3>4
    <2>2. CASE a = n + 1
      <3>1. NameCount(segs, (i + 1) + 1, i + 1) = 0 /\ UpCount(segs, (i + 1) + 1, i + 1) = 0
        BY CountsAre
      <3>2. QED
        BY <1>1, <1>2, <2>2, <3>1
    <2>3. QED
      BY <1>1, <1>2, <2>1, <2>2
  <1>9. Keeps(segs, now, new, i + 1)
    <2> HIDE DEF now
    <2>1. QED
      BY <1>2, <1>3, <1>5, <1>6, <1>7, <1>8 DEF Keeps
  <1>10. QED
    BY <1>4, <1>9, CoveredStep DEF new

\* One more segment, whatever it is.
LEMMA WalkedOn ==
    ASSUME NEW segs \in Seq(WrittenSegments), NEW acc \in Walks, NEW i \in 0..(Len(segs) - 1),
           Means(segs, acc, i)
    PROVE  Means(segs, Walk(acc, segs[i + 1]), i + 1)
  <1> DEFINE s == segs[i + 1]
             now == Walk(acc, s)
  <1>1. s \in WrittenSegments /\ i \in Nat
    OBVIOUS
  <1>2. /\ IsUp(s) => /\ ~(s.text = Nothing \/ Decoded(s) = Segment(Dot, 0))
                      /\ ~Malformed(s)
        /\ Malformed(s) => IsName(s)
        /\ IsName(s) => ~(s.text = Nothing \/ Decoded(s) = Segment(Dot, 0))
        /\ ~IsUp(s) /\ ~IsName(s) => s.text = Nothing \/ Decoded(s) = Segment(Dot, 0)
    <2>1. \A text \in Texts : Decoded(s) = Segment(text, 0) => s.text = text
      BY <1>1 DEF Decoded, Segment, WrittenSegments
    <2>2. Malformed(s) => s.text = Percent
      BY DEF Malformed, Segment
    <2>3. QED
      BY <2>1, <2>2, MarkedTexts DEF IsUp, IsName
  <1>3. acc = [ok |-> acc.ok, segs |-> acc.segs]
    BY DEF Walks
  <1> HIDE DEF s
  <1>4. CASE ~acc.ok
    <2>1. now = acc
      BY <1>4 DEF Walk
    <2>2. Bad(segs, i + 1)
      BY <1>1, <1>4, BadStep DEF Means
    <2>3. QED
      BY <1>4, <2>1, <2>2 DEF Means, s
  <1>5. CASE acc.ok
    <2>1. PICK idx : Keeps(segs, acc, idx, i)
      BY <1>5 DEF Means
    <2>2. acc.segs # <<>> <=> Len(idx) > 0
      <3>1. acc.segs = [a \in DOMAIN idx |-> Encoded(Decoded(segs[idx[a]]))] /\ idx \in Seq(1..i)
        BY <2>1 DEF Keeps
      <3>2. QED
        BY <3>1
    <2>3. ~Bad(segs, i)
      BY <1>5 DEF Means
    <2>4. Bad(segs, i + 1) <=> Malformed(s) \/ ~Covered(segs, 1, i + 1)
      BY <1>1, <2>3, BadStep DEF s
    <2>5. CASE ~IsUp(s) /\ ~IsName(s)
      <3>1. now = acc
        BY <1>2, <2>5 DEF Walk
      <3>2. Covered(segs, 1, i + 1) /\ Keeps(segs, acc, idx, i + 1)
        BY <1>1, <2>1, <2>5, MeansSkip DEF s
      <3>3. QED
        BY <1>2, <1>5, <2>4, <2>5, <3>1, <3>2 DEF Means, s
    <2>6. CASE IsUp(s) /\ acc.segs = <<>>
      <3>1. now.ok = FALSE
        BY <1>2, <1>5, <2>6 DEF Walk, IsUp
      <3>2. ~Covered(segs, 1, i + 1)
        BY <1>1, <2>1, <2>2, <2>6, CoveredStep DEF s
      <3>3. QED
        BY <2>4, <3>1, <3>2 DEF Means, s
    <2>7. CASE IsUp(s) /\ acc.segs # <<>>
      <3>1. now = [ok |-> TRUE, segs |-> Front(acc.segs)]
        BY <1>2, <1>5, <2>7 DEF Walk, IsUp
      <3>2. Covered(segs, 1, i + 1)
        BY <1>1, <2>1, <2>2, <2>7, CoveredStep DEF s
      <3>3. Keeps(segs, now, Front(idx), i + 1)
        BY <1>1, <2>1, <2>2, <2>7, <3>1, MeansUp DEF s
      <3>4. now.ok
        BY <3>1
      <3>5. QED
        BY <1>2, <2>4, <2>7, <3>2, <3>3, <3>4 DEF Means, s
    <2>8. CASE IsName(s) /\ Malformed(s)
      <3>1. now.ok = FALSE
        BY <1>2, <1>3, <1>5, <2>8 DEF Walk, IsName
      <3>2. QED
        BY <2>4, <2>8, <3>1 DEF Means, s
    <2>9. CASE IsName(s) /\ ~Malformed(s)
      <3>1. now = [acc EXCEPT !.segs = Append(@, Encoded(Decoded(s)))]
        BY <1>2, <1>5, <2>9 DEF Walk, IsName
      <3>2. now.ok
        BY <1>3, <1>5, <3>1
      <3>3. Covered(segs, 1, i + 1) /\ Keeps(segs, now, Append(idx, i + 1), i + 1)
        BY <1>1, <2>1, <2>9, <3>1, MeansName DEF s
      <3>4. QED
        BY <2>4, <2>9, <3>2, <3>3 DEF Means, s
    <2>10. QED
      BY <2>5, <2>6, <2>7, <2>8, <2>9
  <1>6. acc.ok \in BOOLEAN
    BY DEF Walks
  <1>7. QED
    BY <1>4, <1>5, <1>6

LEMMA WalkedMeans ==
    ASSUME NEW segs \in Seq(WrittenSegments)
    PROVE  Walked(segs) \in Walks /\ Means(segs, Walked(segs), Len(segs))
  <1>1. PICK w : Steps(w, segs, Len(segs)) /\ Walked(segs) = w[Len(segs)]
    BY WalkedIs
  <1> DEFINE T == {i \in 0..Len(segs) : Means(segs, w[i], i)}
  <1>2. Len(segs) \in Nat /\ w \in [0..Len(segs) -> Walks]
    BY <1>1 DEF Steps
  <1>3. 0 \in T
    BY <1>1, <1>2, MeansNothing DEF Steps
  <1>4. ASSUME NEW i \in 0..(Len(segs) - 1), i \in T PROVE i + 1 \in T
    <2>1. i + 1 \in 1..Len(segs) /\ (i + 1) - 1 = i /\ i \in 0..Len(segs)
      BY <1>2
    <2>2. w[i + 1] = Walk(w[i], segs[i + 1])
      BY <1>1, <2>1 DEF Steps
    <2>3. Means(segs, w[i + 1], i + 1)
      BY <1>2, <1>4, <2>1, <2>2, WalkedOn
    <2>4. QED
      BY <1>2, <2>1, <2>3
  <1> HIDE DEF T
  <1>5. 0..Len(segs) \subseteq T
    BY <1>2, <1>3, <1>4, Inductive
  <1>6. Means(segs, w[Len(segs)], Len(segs))
    BY <1>2, <1>5 DEF T
  <1>7. QED
    BY <1>1, <1>2, <1>6

\* What stands in an order is counted by its places.
LEMMA PlacesCount ==
    ASSUME NEW idx \in Seq(Nat), NEW k \in DOMAIN idx,
           \A a, b \in DOMAIN idx : a < b => idx[a] < idx[b]
    PROVE  Cardinality({j \in {idx[a] : a \in DOMAIN idx} : j <= idx[k]}) = k
  <1> DEFINE S == {j \in {idx[a] : a \in DOMAIN idx} : j <= idx[k]}
             f == [a \in 1..k |-> idx[a]]
  <1>1. k \in Nat /\ 1..k \subseteq DOMAIN idx /\ \A a \in DOMAIN idx : a \in Nat /\ idx[a] \in Nat
    OBVIOUS
  <1>2. \A a \in DOMAIN idx : idx[a] <= idx[k] <=> a <= k
    BY <1>1
  <1>3. S = {idx[a] : a \in 1..k}
    <2>1. \A a \in DOMAIN idx : a <= k <=> a \in 1..k
      OBVIOUS
    <2>2. QED
      BY <1>1, <1>2, <2>1
  <1>4. f \in [1..k -> S]
    BY <1>3
  <1>5. \A a, b \in 1..k : f[a] = f[b] => a = b
    BY <1>1
  <1>6. \A j \in S : \E a \in 1..k : f[a] = j
    BY <1>3
  <1> HIDE DEF S, f
  <1>7. f \in Bijection(1..k, S)
    <2>1. DOMAIN f = 1..k
      BY <1>4
    <2>2. IsInjective(f)
      BY <1>5, <2>1 DEF IsInjective
    <2>3. QED
      BY <1>4, <1>6, <2>2 DEF Bijection, Injection, Surjection
  <1>8. ExistsBijection(1..k, S)
    BY <1>7 DEF ExistsBijection
  <1>9. QED
    BY <1>1, <1>8, FS_CountingElements DEF S

\* What the loop keeps is what the path means.
LEMMA MeaningIs ==
    ASSUME NEW segs \in Seq(WrittenSegments), NEW acc, NEW idx,
           Keeps(segs, acc, idx, Len(segs))
    PROVE  Meaning(segs) = acc.segs
  <1> DEFINE left == {i \in Names(segs, 1, Len(segs)) :
                        \A j \in (i + 1)..Len(segs) : Covered(segs, i + 1, j)}
             n == Len(idx)
             Nth(k) == CHOOSE i \in left : Cardinality({j \in left : j <= i}) = k
  <1>1. Meaning(segs) = [k \in 1..Cardinality(left) |-> Encoded(Decoded(segs[Nth(k)]))]
    BY DEF Meaning
  <1>2. left = Left(segs, Len(segs))
    BY DEF Left
  <1> HIDE DEF left
  <1>3. /\ idx \in Seq(Nat) /\ n \in Nat /\ DOMAIN idx = 1..n
        /\ \A a, b \in DOMAIN idx : a < b => idx[a] < idx[b]
        /\ left = {idx[a] : a \in DOMAIN idx}
        /\ acc.segs = [a \in 1..n |-> Encoded(Decoded(segs[idx[a]]))]
    BY <1>2 DEF Keeps
  <1>4. \A k \in 1..n : Cardinality({j \in left : j <= idx[k]}) = k
    BY <1>3, PlacesCount
  <1>5. ASSUME NEW k \in 1..n PROVE Nth(k) = idx[k]
    <2>1. idx[k] \in left /\ Cardinality({j \in left : j <= idx[k]}) = k
      BY <1>3, <1>4
    <2>2. ASSUME NEW i \in left, Cardinality({j \in left : j <= i}) = k PROVE i = idx[k]
      <3>1. PICK b \in 1..n : i = idx[b]
        BY <1>3
      <3>2. b = k
        BY <1>4, <2>2, <3>1
      <3>3. QED
        BY <3>1, <3>2
    <2>3. QED
      BY <2>1, <2>2
  <1> HIDE DEF Nth
  <1>6. Cardinality(left) = n
    <2>1. CASE n = 0
      <3>1. left = {}
        BY <1>3, <2>1
      <3>2. QED
        BY <2>1, <3>1, FS_EmptySet
    <2>2. CASE n # 0
      <3>1. n \in 1..n
        BY <1>3, <2>2
      <3>2. \A a \in 1..n : idx[a] \in Nat /\ idx[n] \in Nat /\ idx[a] <= idx[n]
        <4> HIDE DEF n
        <4>1. \A a \in 1..n : a = n \/ a < n
          BY <1>3
        <4>2. \A a \in 1..n : a < n => idx[a] < idx[n]
          BY <1>3, <3>1
        <4>3. \A a \in 1..n : idx[a] \in Nat
          BY <1>3
        <4>4. QED
          BY <3>1, <4>1, <4>2, <4>3
      <3>3. {j \in left : j <= idx[n]} = left
        BY <1>3, <3>2
      <3>4. QED
        BY <1>4, <3>1, <3>3
    <2>3. QED
      BY <2>1, <2>2
  <1> HIDE DEF n
  <1>7. [k \in 1..n |-> Encoded(Decoded(segs[Nth(k)]))] = [a \in 1..n |-> Encoded(Decoded(segs[idx[a]]))]
    BY <1>5
  <1>8. QED
    BY <1>1, <1>3, <1>6, <1>7

\* The loop of normalizeRoutePath throws where the path means nothing, and
\* otherwise returns the names that its dot segments leave, in their order.
THEOREM WalkedIsMeaning ==
    ASSUME NEW segs \in Seq(WrittenSegments)
    PROVE  /\ Walked(segs) \in Walks
           /\ Walked(segs).ok <=> ~Meaningless(segs)
           /\ Walked(segs).ok => Walked(segs).segs = Meaning(segs)
  <1>1. Walked(segs) \in Walks /\ Means(segs, Walked(segs), Len(segs))
    BY WalkedMeans
  <1>2. Bad(segs, Len(segs)) <=> Meaningless(segs)
    BY DEF Bad, Meaningless
  <1>3. Walked(segs).ok => Walked(segs).segs = Meaning(segs)
    BY <1>1, MeaningIs DEF Means
  <1>4. QED
    BY <1>1, <1>2, <1>3 DEF Means

LEMMA MeaningFrom ==
    ASSUME NEW segs \in Seq(WrittenSegments), ~Meaningless(segs)
    PROVE  /\ Meaning(segs) \in Seq(WrittenSegments)
           /\ \A a \in DOMAIN Meaning(segs) : \E i \in DOMAIN segs :
                IsName(segs[i]) /\ Meaning(segs)[a] = Encoded(Decoded(segs[i]))
  <1>1. Walked(segs) \in Walks /\ Walked(segs).ok /\ Walked(segs).segs = Meaning(segs)
    BY WalkedIsMeaning
  <1>2. PICK idx : Keeps(segs, Walked(segs), idx, Len(segs))
    BY <1>1, WalkedMeans DEF Means
  <1>3. Meaning(segs) = [a \in DOMAIN idx |-> Encoded(Decoded(segs[idx[a]]))]
    BY <1>1, <1>2 DEF Keeps
  <1>4. \A a \in DOMAIN idx : idx[a] \in Left(segs, Len(segs))
    BY <1>2 DEF Keeps
  <1>5. Left(segs, Len(segs)) \subseteq {i \in DOMAIN segs : IsName(segs[i])}
    BY DEF Left, Names, IsName
  <1>6. QED
    BY <1>1, <1>3, <1>4, <1>5 DEF Walks

\* normalizeRoutePath, of any path that can be written.
LEMMA NormalizedIs ==
    ASSUME NEW raw \in WrittenPaths, ~Strict
    PROVE  LET written == WithoutQuery(raw).segs
           IN /\ Normalized(raw).ok <=> ~Meaningless(written)
              /\ Normalized(raw).path = Path(Normalized(raw).path.segs, FALSE)
              /\ Normalized(raw).ok => Normalized(raw).path = Path(Meaning(written), FALSE)
  <1> DEFINE written == WithoutQuery(raw).segs
             walked == Walked(written)
  <1>1. written \in Seq(WrittenSegments)
    BY QueryGone DEF WrittenPaths
  <1>2. Normalized(raw) = [ok |-> walked.ok, path |-> Path(walked.segs, FALSE)]
    BY PathAssumption DEF Normalized
  <1> HIDE DEF written
  <1>3. (walked.ok <=> ~Meaningless(written)) /\ (walked.ok => walked.segs = Meaning(written))
    BY <1>1, WalkedIsMeaning
  <1> HIDE DEF walked
  <1>4. Normalized(raw).path = Path(walked.segs, FALSE) /\ Normalized(raw).ok = walked.ok
    BY <1>2
  <1>5. Normalized(raw).path.segs = walked.segs
    BY <1>4 DEF Path
  <1>6. QED
    BY <1>3, <1>4, <1>5 DEF written
-----------------------------------------------------------------------------
(***************************************************************************)
(* The second normalization, of what lies behind the prefix                *)
(***************************************************************************)
Plain(s) == IsName(s) /\ ~Malformed(s)

LEMMA PlainWalk ==
    ASSUME NEW kept \in Seq(WrittenSegments), NEW s \in WrittenSegments, Plain(s)
    PROVE  Walk([ok |-> TRUE, segs |-> kept], s) =
             [ok |-> TRUE, segs |-> Append(kept, Encoded(Decoded(s)))]
  <1> DEFINE acc == [ok |-> TRUE, segs |-> kept]
             e == Encoded(Decoded(s))
             now == [acc EXCEPT !.segs = Append(@, e)]
  <1>1. acc \in Walks /\ acc.ok /\ now.ok = TRUE /\ now.segs = Append(kept, e)
    BY DEF Walks
  <1> HIDE DEF acc
  <1>2. Walk(acc, s) = now
    BY <1>1 DEF Walk, Plain, IsName
  <1>3. now \in Walks
    BY <1>1, <1>2, WalkType
  <1> HIDE DEF now
  <1>4. now = [ok |-> now.ok, segs |-> now.segs]
    BY <1>3 DEF Walks
  <1>5. QED
    BY <1>1, <1>2, <1>4 DEF acc

\* Where every segment is a name, the loop writes each of them again.
LEMMA PlainWalked ==
    ASSUME NEW segs \in Seq(WrittenSegments), \A i \in DOMAIN segs : Plain(segs[i])
    PROVE  Walked(segs) = [ok |-> TRUE, segs |-> [i \in DOMAIN segs |-> Encoded(Decoded(segs[i]))]]
  <1>1. PICK w : Steps(w, segs, Len(segs)) /\ Walked(segs) = w[Len(segs)]
    BY WalkedIs
  <1> DEFINE Kept(i) == [a \in 1..i |-> Encoded(Decoded(segs[a]))]
             T == {i \in 0..Len(segs) : w[i] = [ok |-> TRUE, segs |-> Kept(i)]}
  <1>2. Len(segs) \in Nat /\ DOMAIN segs = 1..Len(segs)
    OBVIOUS
  <1>3. \A a \in 1..Len(segs) : Encoded(Decoded(segs[a])) \in WrittenSegments
    BY SegmentTypes
  <1>4. 0 \in T
    BY <1>1 DEF Steps, Start0
  <1>5. ASSUME NEW i \in 0..(Len(segs) - 1), i \in T PROVE i + 1 \in T
    <2> DEFINE s == segs[i + 1]
               e == Encoded(Decoded(s))
    <2>1. i + 1 \in 1..Len(segs) /\ (i + 1) - 1 = i /\ i \in Nat
      BY <1>2
    <2>2. w[i + 1] = Walk(w[i], s) /\ Plain(s)
      BY <1>1, <1>2, <2>1 DEF Steps
    <2>3. w[i] = [ok |-> TRUE, segs |-> Kept(i)]
      BY <1>5
    <2>4. Append(Kept(i), e) = Kept(i + 1)
      <3>1. Kept(i) \in Seq(WrittenSegments) /\ Len(Kept(i)) = i
        BY <1>2, <1>3, <2>1
      <3>2. \A a \in 1..i : Kept(i)[a] = Kept(i + 1)[a]
        BY <2>1
      <3>3. e \in WrittenSegments /\ Kept(i + 1)[i + 1] = e /\ Kept(i + 1) \in Seq(WrittenSegments)
            /\ Len(Kept(i + 1)) = i + 1
        BY <1>2, <1>3, <2>1
      <3> DEFINE old == Kept(i)
                 new == Kept(i + 1)
      <3> HIDE DEF e, old, new
      <3>4. old \in Seq(WrittenSegments) /\ Len(old) = i /\ \A a \in 1..i : old[a] = new[a]
        BY <3>1, <3>2 DEF old, new
      <3>5. new[i + 1] = e /\ new \in Seq(WrittenSegments) /\ Len(new) = i + 1
        BY <3>3 DEF new
      <3>6. Append(old, e) = new
        BY <2>1, <3>3, <3>4, <3>5
      <3>7. QED
        BY <3>6 DEF old, new
    <2>5. Walk(w[i], s) = [ok |-> TRUE, segs |-> Append(Kept(i), e)]
      <3>1. Kept(i) \in Seq(WrittenSegments) /\ s \in WrittenSegments
        BY <1>2, <1>3, <2>1
      <3> HIDE DEF Kept, s
      <3>2. QED
        BY <2>2, <2>3, <3>1, PlainWalk
    <2> HIDE DEF Kept
    <2>6. QED
      BY <1>2, <2>1, <2>2, <2>4, <2>5
  <1> HIDE DEF T
  <1>6. 0..Len(segs) \subseteq T
    BY <1>2, <1>4, <1>5, Inductive
  <1>7. QED
    BY <1>1, <1>2, <1>6 DEF T

\* How a segment of a request comes out of the first normalization, the part
\* that is cut from it, and that part's own normalization.
Clean(s) == s.layers <= 1 /\ s \notin {Segment(Percent, 1), Segment(Asked, 1)}
PartOf(e) == IF Decoded(e) = Segment(Slashed, 0) THEN e ELSE Decoded(e)

LEMMA WrittenAgain ==
    ASSUME NEW s \in WrittenSegments, Plain(s), Clean(s), s # Segment(Asked, 0)
    PROVE  LET e == Encoded(Decoded(s)) IN
           /\ PartOf(e) \in WrittenSegments
           /\ Plain(PartOf(e))
           /\ PartOf(e) # Segment(Asked, 0)
           /\ Encoded(Decoded(PartOf(e))) = e
  <1> DEFINE t == s.text
             e == Encoded(Decoded(s))
  <1>1. s = Segment(t, s.layers) /\ s.layers \in {0, 1} /\ t \in Texts
    BY DEF WrittenSegments, Segment, Clean
  <1>2. Decoded(s) = Segment(t, 0)
    BY <1>1 DEF Decoded, Segment
  <1>3. t \notin {Nothing, Dot, DotDot, Percent, Asked}
    BY <1>1, <1>2 DEF Plain, Clean, IsName, Malformed
  <1> HIDE DEF t
  <1>4. e = IF t \in MustEncode THEN Segment(t, 1) ELSE Segment(t, 0)
    BY <1>2 DEF Encoded, Segment
  <1>5. /\ Decoded(Segment(t, 0)) = Segment(t, 0)
        /\ Decoded(Segment(t, 1)) = Segment(t, 0)
        /\ \A u \in Texts : Segment(t, 0) = Segment(u, 0) <=> t = u
        /\ Segment(t, 1).text = t /\ Segment(t, 0).text = t
        /\ \A u \in Texts : Segment(t, 1) # Segment(u, 0)
        /\ Segment(t, 1) \in WrittenSegments /\ Segment(t, 0) \in WrittenSegments
    BY <1>1 DEF Decoded, Segment, WrittenSegments
  <1>6. PartOf(e) = IF t = Slashed THEN Segment(t, 1) ELSE Segment(t, 0)
    BY <1>4, <1>5, MarkedTexts DEF PartOf, MustEncode
  <1>7. Decoded(PartOf(e)) = Segment(t, 0)
    BY <1>5, <1>6
  <1> HIDE DEF e
  <1>8. PartOf(e).text # Nothing /\ PartOf(e) \in WrittenSegments
    BY <1>3, <1>5, <1>6
  <1>9. PartOf(e) # Segment(Percent, 0) /\ PartOf(e) # Segment(Asked, 0)
    BY <1>3, <1>5, <1>6, MarkedTexts
  <1>10. Decoded(PartOf(e)) \notin {Segment(Dot, 0), Segment(DotDot, 0)}
    BY <1>3, <1>5, <1>7, MarkedTexts
  <1>11. Encoded(Decoded(PartOf(e))) = e
    BY <1>2, <1>7 DEF e
  <1>12. QED
    BY <1>8, <1>9, <1>10, <1>11 DEF Plain, IsName, Malformed, e
-----------------------------------------------------------------------------
(***************************************************************************)
(* The row that is found, and the tool named by the path                   *)
(***************************************************************************)
\* What Expected says of a request once the nearest prefix is known.
Answer(p, rest, method, act) ==
    LET rows == table[p]
        fits == {i \in DOMAIN rows : Matches(rows[i], Path(rest, FALSE), method, act)}
        row == rows[CHOOSE i \in fits : \A j \in fits : i <= j]
    IN IF fits # {} THEN Call(p, row.tool, IF row.to # Unset THEN row.to ELSE act)
       ELSE IF rest # <<>> THEN Call(p, Segments(Path(rest, FALSE))[1], act)
       ELSE Reply(400)

\* The search among the rows finds the first one that fits.
LEMMA RowFound ==
    ASSUME NEW R, NEW rows \in Seq(R), NEW path, NEW method, NEW act
    PROVE  LET fits == {i \in DOMAIN rows : Matches(rows[i], path, method, act)}
           IN /\ RowAt(rows, path, method, act) # 0 <=> fits # {}
              /\ fits # {} => RowAt(rows, path, method, act)
                                = CHOOSE i \in fits : \A j \in fits : i <= j
  <1> DEFINE fits == {i \in DOMAIN rows : Matches(rows[i], path, method, act)}
             I == {i \in 1..Len(rows) : Matches(rows[i], path, method, act)}
  <1>1. RowAt(rows, path, method, act) = IF I # {} THEN Min(I) ELSE 0
    BY DEF RowAt, SelectInSeq
  <1>2. I = fits /\ fits \subseteq Nat /\ 0 \notin fits
    OBVIOUS
  <1>3. Min(fits) = CHOOSE i \in fits : \A j \in fits : i <= j
    BY DEF Min
  <1> HIDE DEF I, fits
  <1>4. fits # {} => Min(fits) \in fits
    BY <1>2, MinIs
  <1>5. QED
    BY <1>1, <1>2, <1>3, <1>4 DEF fits

\* A sequence of segments that stays what it is when it is cut off, joined
\* again and normalized.
Stable(segs) ==
    \A i \in DOMAIN segs :
        /\ PartOf(segs[i]) \in WrittenSegments
        /\ Plain(PartOf(segs[i]))
        /\ PartOf(segs[i]) # Segment(Asked, 0)
        /\ Encoded(Decoded(PartOf(segs[i]))) = segs[i]

\* The path behind the prefix is looked up as what it was in the request.
LEMMA SecondNormalization ==
    ASSUME NEW rest \in Seq(WrittenSegments), Stable(rest), ~Strict
    PROVE  Normalized(Path(Segments(Path(rest, FALSE)), FALSE))
             = [ok |-> TRUE, path |-> Path(rest, FALSE)]
  <1> DEFINE parts == Segments(Path(rest, FALSE))
             raw == Path(parts, FALSE)
  <1>1. parts = [i \in DOMAIN rest |-> PartOf(rest[i])]
    BY DEF Segments, Path, PartOf
  <1>2. parts \in Seq(WrittenSegments) /\ DOMAIN parts = DOMAIN rest /\ Len(parts) = Len(rest)
    <2>1. DOMAIN rest = 1..Len(rest) /\ Len(rest) \in Nat
      OBVIOUS
    <2>2. parts \in [1..Len(rest) -> WrittenSegments]
      BY <1>1, <2>1 DEF Stable
    <2> HIDE DEF parts
    <2>3. QED
      BY <2>1, <2>2
  <1> HIDE DEF parts
  <1>3. WithoutQuery(raw) = raw
    <2>1. raw.segs = parts
      BY DEF Path
    <2>2. \A i \in 1..Len(parts) : parts[i] # Segment(Asked, 0)
      <3>1. \A i \in 1..Len(parts) : i \in DOMAIN rest /\ parts[i] = PartOf(rest[i])
        BY <1>1, <1>2
      <3>2. QED
        BY <3>1 DEF Stable
    <2>3. {i \in 1..Len(raw.segs) : raw.segs[i] = Segment(Asked, 0)} = {}
      BY <2>1, <2>2
    <2>4. QED
      BY <2>3 DEF WithoutQuery, SelectInSeq
  <1>4. Walked(parts) = [ok |-> TRUE, segs |-> [i \in DOMAIN parts |-> Encoded(Decoded(parts[i]))]]
    BY <1>1, <1>2, PlainWalked DEF Stable
  <1>5. [i \in DOMAIN parts |-> Encoded(Decoded(parts[i]))] = rest
    <2>1. \A i \in DOMAIN rest : Encoded(Decoded(parts[i])) = rest[i]
      BY <1>1 DEF Stable
    <2>2. rest = [i \in DOMAIN rest |-> rest[i]]
      OBVIOUS
    <2>3. QED
      BY <1>2, <2>1, <2>2
  <1>6. Walked(parts) = [ok |-> TRUE, segs |-> rest]
    BY <1>4, <1>5
  <1> DEFINE walked == Walked(WithoutQuery(raw).segs)
  <1>7. walked.ok = TRUE /\ walked.segs = rest
    <2>1. raw.segs = parts
      BY DEF Path
    <2>2. walked = Walked(parts)
      BY <1>3, <2>1
    <2> HIDE DEF walked
    <2>3. walked = [ok |-> TRUE, segs |-> rest]
      BY <1>6, <2>2
    <2>4. QED
      BY <2>3
  <1>8. Normalized(raw) = [ok |-> TRUE, path |-> Path(rest, FALSE)]
    <2>1. Normalized(raw) = [ok |-> walked.ok,
                             path |-> Path(walked.segs, Strict /\ WithoutQuery(raw).slash /\ walked.segs # <<>>)]
      BY DEF Normalized
    <2>2. (Strict /\ WithoutQuery(raw).slash /\ walked.segs # <<>>) = FALSE
      BY PathAssumption
    <2> HIDE DEF walked, raw
    <2>3. QED
      BY <1>7, <2>1, <2>2
  <1>9. QED
    BY <1>8 DEF raw, parts

LEMMA AddressedIs ==
    ASSUME ~Strict, table \in [ClaimPrefixes -> Seq(Rows)],
           NEW p \in ClaimPrefixes, p.segs \in Seq(WrittenSegments),
           NEW segs \in Seq(WrittenSegments), Stable(segs), IsPrefix(p.segs, segs),
           NEW method, NEW act
    PROVE  Addressed(p, Path(segs, FALSE), method, act)
             = Answer(p, SubSeq(segs, Len(p.segs) + 1, Len(segs)), method, act)
  <1> DEFINE n == Len(p.segs)
             rest == SubSeq(segs, n + 1, Len(segs))
             parts == SubSeq(Segments(Path(segs, FALSE)), n + 1, Len(segs))
             rows == table[p]
             fits == {i \in DOMAIN rows : Matches(rows[i], Path(rest, FALSE), method, act)}
             first == RowAt(rows, Path(rest, FALSE), method, act)
  <1>1. n \in Nat /\ n <= Len(segs) /\ Len(segs) \in Nat
    BY DEF IsPrefix
  <1> HIDE DEF n
  <1>2. /\ rest \in Seq(WrittenSegments)
        /\ DOMAIN rest = 1..(Len(segs) - n)
        /\ \A i \in 1..(Len(segs) - n) : rest[i] = segs[i + n] /\ i + n \in DOMAIN segs
    BY <1>1
  <1>3. parts = [i \in 1..(Len(segs) - n) |-> PartOf(segs[i + n])]
    <2>1. Segments(Path(segs, FALSE)) = [i \in DOMAIN segs |-> PartOf(segs[i])]
      BY DEF Segments, Path, PartOf
    <2> DEFINE all == Segments(Path(segs, FALSE))
    <2>2. DOMAIN segs = 1..Len(segs) /\ \A i \in DOMAIN segs : PartOf(segs[i]) \in WrittenSegments
      BY DEF Stable
    <2> HIDE DEF all
    <2>3. all \in [1..Len(segs) -> WrittenSegments]
      BY <2>1, <2>2 DEF all
    <2>4. all \in Seq(WrittenSegments) /\ Len(all) = Len(segs)
      BY <1>1, <2>3
    <2>5. SubSeq(all, n + 1, Len(segs)) = [i \in 1..(Len(segs) - n) |-> all[i + n]]
      BY <1>1, <2>4
    <2>6. \A i \in 1..(Len(segs) - n) : all[i + n] = PartOf(segs[i + n])
      <3>1. \A i \in 1..(Len(segs) - n) : i + n \in DOMAIN segs
        BY <1>1, <2>2
      <3>2. QED
        BY <2>1, <3>1 DEF all
    <2>7. QED
      BY <2>5, <2>6 DEF all
  <1> HIDE DEF rest, parts
  <1>4. Stable(rest)
    BY <1>2 DEF Stable
  <1>5. parts = Segments(Path(rest, FALSE))
    <2>1. Segments(Path(rest, FALSE)) = [i \in DOMAIN rest |-> PartOf(rest[i])]
      BY DEF Segments, Path, PartOf
    <2>2. QED
      BY <1>2, <1>3, <2>1
  <1>6. parts = <<>> <=> rest = <<>>
    <2> DEFINE m == Len(segs) - n
    <2>1. m \in Nat /\ DOMAIN parts = 1..m /\ DOMAIN rest = 1..m
      BY <1>1, <1>2, <1>3
    <2>2. rest = <<>> <=> m = 0
      BY <1>2, <2>1
    <2>3. parts = <<>> <=> m = 0
      <3>1. m = 0 => parts = <<>>
        BY <1>3
      <3>2. parts = <<>> => DOMAIN parts = {}
        OBVIOUS
      <3> HIDE DEF m
      <3>3. m # 0 => 1 \in DOMAIN parts
        BY <2>1
      <3>4. QED
        BY <3>1, <3>2, <3>3
    <2>4. QED
      BY <2>2, <2>3
  <1>7. Normalized(Path(parts, FALSE)) = [ok |-> TRUE, path |-> Path(rest, FALSE)]
    BY <1>2, <1>4, <1>5, SecondNormalization
  <1> DEFINE rel == Normalized(Path(parts, FALSE))
  <1> HIDE DEF rel
  <1>8. rel.ok /\ rel.path = Path(rest, FALSE)
    <2>1. rel = [ok |-> TRUE, path |-> Path(rest, FALSE)]
      BY <1>7 DEF rel
    <2>2. QED
      BY <2>1
  <1>9. rows \in Seq(Rows) /\ (fits # {} => rows # <<>>)
    <2>1. rows \in Seq(Rows)
      OBVIOUS
    <2>2. fits \subseteq DOMAIN rows
      OBVIOUS
    <2>3. rows = <<>> => DOMAIN rows = {}
      OBVIOUS
    <2>4. QED
      BY <2>1, <2>2, <2>3
  <1>10. (first # 0 <=> fits # {}) /\ (fits # {} => first = CHOOSE i \in fits : \A j \in fits : i <= j)
    BY <1>9, RowFound
  <1>11. Addressed(p, Path(segs, FALSE), method, act) =
           IF rows # <<>> /\ ~rel.ok THEN Reply(400)
           ELSE IF rows # <<>> /\ first # 0
           THEN Call(p, rows[first].tool, IF rows[first].to # Unset THEN rows[first].to ELSE act)
           ELSE IF parts # <<>> THEN Call(p, parts[1], act) ELSE Reply(400)
    <2>1. Path(segs, FALSE).segs = segs
      BY DEF Path
    <2>2. QED
      BY <1>8, <2>1 DEF Addressed, rel, parts, n
  <1>12. Answer(p, rest, method, act) =
           IF fits # {} THEN Call(p, rows[first].tool, IF rows[first].to # Unset THEN rows[first].to ELSE act)
           ELSE IF rest # <<>> THEN Call(p, parts[1], act) ELSE Reply(400)
    <2> DEFINE row == CHOOSE i \in fits : \A j \in fits : i <= j
    <2>1. Answer(p, rest, method, act) =
            IF fits # {} THEN Call(p, rows[row].tool, IF rows[row].to # Unset THEN rows[row].to ELSE act)
            ELSE IF rest # <<>> THEN Call(p, Segments(Path(rest, FALSE))[1], act) ELSE Reply(400)
      BY DEF Answer
    <2>2. fits # {} => first = row
      BY <1>10
    <2> HIDE DEF fits, first, rows, row
    <2>3. QED
      BY <1>5, <2>1, <2>2
  <1> HIDE DEF fits, first, rows
  <1>13. Addressed(p, Path(segs, FALSE), method, act) = Answer(p, rest, method, act)
    <2> DEFINE found == Call(p, rows[first].tool, IF rows[first].to # Unset THEN rows[first].to ELSE act)
               named == Call(p, parts[1], act)
    <2> HIDE DEF found, named
    <2>1. CASE fits # {}
      <3>1. first # 0 /\ rows # <<>>
        BY <1>9, <1>10, <2>1
      <3>2. Addressed(p, Path(segs, FALSE), method, act) = found
        BY <1>8, <1>11, <3>1 DEF found
      <3>3. Answer(p, rest, method, act) = found
        BY <1>12, <2>1 DEF found
      <3>4. QED
        BY <3>2, <3>3
    <2>2. CASE fits = {}
      <3>1. first = 0
        BY <1>10, <2>2
      <3>2. Addressed(p, Path(segs, FALSE), method, act) = IF parts # <<>> THEN named ELSE Reply(400)
        BY <1>8, <1>11, <3>1 DEF named
      <3>3. Answer(p, rest, method, act) = IF rest # <<>> THEN named ELSE Reply(400)
        BY <1>12, <2>2 DEF named
      <3>4. CASE rest = <<>>
        <4>1. parts = <<>>
          BY <1>6, <3>4
        <4>2. QED
          BY <3>2, <3>3, <3>4, <4>1
      <3>5. CASE rest # <<>>
        <4>1. parts # <<>>
          BY <1>6, <3>5
        <4>2. Addressed(p, Path(segs, FALSE), method, act) = named
          BY <3>2, <4>1
        <4>3. Answer(p, rest, method, act) = named
          BY <3>3, <3>5
        <4>4. QED
          BY <4>2, <4>3
      <3>6. QED
        BY <3>4, <3>5
    <2>3. QED
      BY <2>1, <2>2
  <1>14. QED
    BY <1>13 DEF rest, n
-----------------------------------------------------------------------------
(***************************************************************************)
(* The nearest prefix                                                      *)
(***************************************************************************)
\* A claim has no slash at its end, so that its key gives it back.
LEMMA ClaimForm ==
    ASSUME ~Strict, NEW p \in ClaimPrefixes
    PROVE  p.segs \in Seq(WrittenSegments) /\ p = Path(p.segs, FALSE)
  <1>1. CASE p = RootPath
    BY <1>1 DEF RootPath, Path
  <1>2. ASSUME NEW raw \in ClaimPaths, p = Normalized(raw).path
        PROVE  p.segs \in Seq(WrittenSegments) /\ p = Path(p.segs, FALSE)
    <2>1. raw \in WrittenPaths /\ Normalized(raw).ok
      BY RoutingAssumption
    <2> DEFINE written == WithoutQuery(raw).segs
    <2>2. ~Meaningless(written) /\ p = Path(Meaning(written), FALSE)
      BY <1>2, <2>1, NormalizedIs
    <2>3. written \in Seq(WrittenSegments)
      BY <2>1, QueryGone DEF WrittenPaths
    <2> HIDE DEF written
    <2>4. Meaning(written) \in Seq(WrittenSegments)
      BY <2>2, <2>3, MeaningFrom
    <2>5. QED
      BY <2>2, <2>4 DEF Path
  <1>3. QED
    BY <1>1, <1>2 DEF ClaimPrefixes

\* Two prefixes of one path that are equally long are the same.
LEMMA SamePrefix ==
    ASSUME NEW S, NEW a \in Seq(S), NEW b \in Seq(S), NEW segs \in Seq(S),
           IsPrefix(a, segs), IsPrefix(b, segs), Len(a) = Len(b)
    PROVE  a = b
  <1>1. a = SubSeq(a, 1, Len(a)) /\ b = SubSeq(b, 1, Len(b))
    OBVIOUS
  <1>2. QED
    BY <1>1 DEF IsPrefix

\* Among the prefixes of a path there is a longest one, and no other as long.
LEMMA NearestIs ==
    ASSUME ~Strict, NEW P, P \subseteq ClaimPrefixes, P # {}, NEW segs \in Seq(WrittenSegments),
           \A p \in P : IsPrefix(p.segs, segs)
    PROVE  \E p \in P : /\ \A q \in P : Len(q.segs) <= Len(p.segs)
                        /\ \A r \in P : (\A q \in P : Len(q.segs) <= Len(r.segs)) => r = p
  <1>1. \A p \in P : /\ p.segs \in Seq(WrittenSegments) /\ p = Path(p.segs, FALSE)
                     /\ Len(p.segs) \in Nat /\ Len(p.segs) <= Len(segs)
    <2>1. ASSUME NEW p \in P PROVE p.segs \in Seq(WrittenSegments) /\ p = Path(p.segs, FALSE)
      BY ClaimForm
    <2>2. ASSUME NEW p \in P PROVE Len(p.segs) \in Nat /\ Len(p.segs) <= Len(segs)
      <3>1. Len(p.segs) <= Len(segs)
        BY DEF IsPrefix
      <3>2. Len(p.segs) \in Nat
        BY <2>1
      <3>3. QED
        BY <3>1, <3>2
    <2>3. QED
      BY <2>1, <2>2
  <1> DEFINE T == {Len(segs) - Len(p.segs) : p \in P}
  <1>2. T \subseteq Nat /\ T # {}
    <2>1. Len(segs) \in Nat
      OBVIOUS
    <2>2. ASSUME NEW p \in P PROVE Len(segs) - Len(p.segs) \in Nat
      <3>1. Len(p.segs) \in Nat /\ Len(p.segs) <= Len(segs)
        BY <1>1
      <3>2. QED
        BY <2>1, <3>1
    <2>3. QED
      BY <2>2
  <1> HIDE DEF T
  <1>3. PICK m \in T : \A k \in T : m <= k
    BY <1>2, LeastElement
  <1>4. PICK p \in P : m = Len(segs) - Len(p.segs)
    BY DEF T
  <1>5. ASSUME NEW q \in P PROVE Len(q.segs) <= Len(p.segs)
    <2>1. m <= Len(segs) - Len(q.segs)
      BY <1>3 DEF T
    <2>2. QED
      BY <1>1, <1>4, <2>1
  <1>6. ASSUME NEW r \in P, \A q \in P : Len(q.segs) <= Len(r.segs) PROVE r = p
    <2>1. Len(r.segs) = Len(p.segs)
      BY <1>1, <1>5, <1>6
    <2>2. r.segs = p.segs
      BY <1>1, <2>1, SamePrefix
    <2>3. QED
      BY <1>1, <2>2
  <1>7. QED
    BY <1>5, <1>6

\* matchRoute finds it.
LEMMA MatchIs ==
    ASSUME ~Strict, NEW P, P \subseteq ClaimPrefixes, NEW segs \in Seq(WrittenSegments),
           NEW p \in P, IsPrefix(p.segs, segs),
           \A q \in P : IsPrefix(q.segs, segs) => Len(q.segs) <= Len(p.segs)
    PROVE  MatchRoute({MatchKey(q) : q \in P}, segs) = {p}
  <1> DEFINE hits == Hits({MatchKey(q) : q \in P}, segs)
             k == Longest(hits)
  <1>1. hits = {q.segs : q \in {r \in P : IsPrefix(r.segs, segs)}}
    BY DEF Hits, MatchKey
  <1>2. MatchRoute({MatchKey(q) : q \in P}, segs) = IF hits = {} THEN {} ELSE {PrefixOfKey(k)}
    BY DEF MatchRoute
  <1>3. p.segs \in hits /\ \A l \in hits : Len(l) <= Len(p.segs)
    BY <1>1
  <1> HIDE DEF hits
  <1>4. k \in hits /\ \A l \in hits : Len(l) <= Len(k)
    BY <1>3 DEF Longest
  <1> HIDE DEF k
  <1>5. PICK q \in P : k = q.segs /\ IsPrefix(q.segs, segs)
    BY <1>1, <1>4
  <1>6. p.segs \in Seq(WrittenSegments) /\ q.segs \in Seq(WrittenSegments) /\ p = Path(p.segs, FALSE)
    BY ClaimForm
  <1>7. Len(q.segs) = Len(p.segs)
    <2>1. Len(q.segs) <= Len(p.segs) /\ Len(p.segs) <= Len(q.segs)
      BY <1>3, <1>4, <1>5
    <2>2. Len(q.segs) \in Nat /\ Len(p.segs) \in Nat
      BY <1>6
    <2>3. QED
      BY <2>1, <2>2
  <1>8. k = p.segs
    BY <1>5, <1>6, <1>7, SamePrefix
  <1>9. PrefixOfKey(k) = p
    BY <1>6, <1>8 DEF PrefixOfKey
  <1>10. QED
    BY <1>2, <1>3, <1>9

\* The prefixes Expected chooses from.
Within(segs) ==
    {p \in RoutesOf \cup IF rpcPrefix = NoPrefix THEN {RootPath} ELSE {} : IsPrefix(p.segs, segs)}

LEMMA ExpectedIs ==
    ASSUME NEW raw, NEW method, NEW act, ~Meaningless(WithoutQuery(raw).segs),
           NEW segs, segs = Meaning(WithoutQuery(raw).segs), NEW p \in Within(segs),
           \A q \in Within(segs) : Len(q.segs) <= Len(p.segs),
           \A r \in Within(segs) : (\A q \in Within(segs) : Len(q.segs) <= Len(r.segs)) => r = p
    PROVE  Expected(raw, method, act)
             = Answer(p, SubSeq(segs, Len(p.segs) + 1, Len(segs)), method, act)
  <1> DEFINE means == Meaning(WithoutQuery(raw).segs)
             prefixes == {q \in RoutesOf \cup (IF rpcPrefix = NoPrefix THEN {RootPath} ELSE {}) :
                            IsPrefix(q.segs, means)}
             nearest == CHOOSE r \in prefixes : \A q \in prefixes : Len(q.segs) <= Len(r.segs)
             rest == SubSeq(means, Len(nearest.segs) + 1, Len(means))
  <1>1. Expected(raw, method, act) =
          IF prefixes = {} THEN Reply(404) ELSE Answer(nearest, rest, method, act)
    BY DEF Expected, Answer
  <1>2. prefixes = Within(segs) /\ means = segs
    BY DEF Within
  <1> HIDE DEF prefixes, means
  <1>3. nearest = p
    BY <1>2
  <1> HIDE DEF nearest
  <1>4. prefixes # {}
    BY <1>2
  <1>5. QED
    BY <1>1, <1>2, <1>3, <1>4
-----------------------------------------------------------------------------
(***************************************************************************)
(* RequestsFollowClaims                                                    *)
(***************************************************************************)
\* rpcPrefix is one of the claims, once it is set.
RpcPrefixClaimed == rpcPrefix \in Claimed \cup {NoPrefix}

\* A claim is never given up.
LEMMA ClaimedGrows ==
    ASSUME claims \in Seq(ClaimPrefixes), NEW p,
           claims' = IF p \in Claimed THEN claims ELSE Append(claims, p)
    PROVE  Claimed \subseteq Claimed' /\ p \in Claimed'
  <1>1. CASE p \in Claimed
    BY <1>1 DEF Claimed
  <1>2. CASE p \notin Claimed
    <2>1. /\ claims' = Append(claims, p)
          /\ DOMAIN claims' = 1..(Len(claims) + 1)
          /\ claims'[Len(claims) + 1] = p
          /\ \A i \in DOMAIN claims : i \in DOMAIN claims' /\ claims'[i] = claims[i]
      BY <1>2
    <2>2. Len(claims) + 1 \in DOMAIN claims'
      BY <2>1
    <2>3. QED
      BY <2>1, <2>2 DEF Claimed, ToSet
  <1>3. QED
    BY <1>1, <1>2

\* The prefix that requests outside all claims fall back on has been claimed:
\* it has a table of its own, and is no prefix of such a request.
THEOREM RpcPrefixIsClaimed == Spec => []RpcPrefixClaimed
  <1>1. Init => RpcPrefixClaimed
    BY DEF Init, RpcPrefixClaimed
  <1>2. ASSUME RowsInv, RpcPrefixClaimed, [Next]_vars PROVE RpcPrefixClaimed'
    <2>1. claims \in Seq(ClaimPrefixes)
      BY <1>2 DEF RowsInv
    <2>2. ASSUME NEW raw \in ClaimPaths, AddRpcHandler(raw) PROVE RpcPrefixClaimed'
      BY <2>1, <2>2, ClaimedGrows DEF AddRpcHandler, Claim, RpcPrefixClaimed
    <2>3. ASSUME NEW raw \in ClaimPaths, AddDiscoveryHandler(raw) PROVE RpcPrefixClaimed'
      BY <1>2, <2>1, <2>3, ClaimedGrows DEF AddDiscoveryHandler, Claim, RpcPrefixClaimed
    <2>4. ASSUME NEW raw \in ClaimPaths, NEW path \in RowPaths, AddRouteFails(raw, path)
          PROVE  RpcPrefixClaimed'
      BY <1>2, <2>1, <2>4, ClaimedGrows DEF AddRouteFails, Claim, RpcPrefixClaimed
    <2>5. ASSUME NEW raw \in ClaimPaths, NEW path \in RowPaths, NEW when \in Conditions,
                 NEW tool \in Tools, AddRoute(raw, path, when[1], when[2], tool)
          PROVE  RpcPrefixClaimed'
      BY <1>2, <2>1, <2>5, ClaimedGrows DEF AddRoute, RpcPrefixClaimed
    <2>6. CASE UNCHANGED <<claims, rpcPrefix>>
      BY <1>2, <2>6 DEF RpcPrefixClaimed, Claimed
    <2>7. QED
      BY <1>2, <2>2, <2>3, <2>4, <2>5, <2>6 DEF Next, Start, Stop, vars
  <1>3. QED
    BY <1>1, <1>2, RowsInvariant, PTL DEF Spec

\* What the requests may not have: a segment encoded twice, or an encoded
\* percent sign or question mark, which lose a layer on the way.
RequestsAreClean ==
    \A raw \in RequestPaths : \A i \in DOMAIN WithoutQuery(raw).segs : Clean(WithoutQuery(raw).segs[i])

LEMMA MeaningIsStable ==
    ASSUME RequestsAreClean, NEW raw \in RequestPaths, ~Meaningless(WithoutQuery(raw).segs)
    PROVE  Stable(Meaning(WithoutQuery(raw).segs))
  <1> DEFINE segs == WithoutQuery(raw).segs
  <1>1. /\ segs \in Seq(WrittenSegments)
        /\ \A i \in DOMAIN segs : Clean(segs[i]) /\ segs[i] # Segment(Asked, 0)
    <2>1. raw \in WrittenPaths
      BY RoutingAssumption
    <2>2. QED
      BY <2>1, QueryGone DEF RequestsAreClean, WrittenPaths
  <1> HIDE DEF segs
  <1>2. \A i \in DOMAIN segs : ~Malformed(segs[i])
    BY DEF Meaningless, segs
  <1>3. ASSUME NEW a \in DOMAIN Meaning(segs)
        PROVE  /\ PartOf(Meaning(segs)[a]) \in WrittenSegments
               /\ Plain(PartOf(Meaning(segs)[a]))
               /\ PartOf(Meaning(segs)[a]) # Segment(Asked, 0)
               /\ Encoded(Decoded(PartOf(Meaning(segs)[a]))) = Meaning(segs)[a]
    <2>1. PICK i \in DOMAIN segs : IsName(segs[i]) /\ Meaning(segs)[a] = Encoded(Decoded(segs[i]))
      BY <1>1, MeaningFrom DEF segs
    <2>2. segs[i] \in WrittenSegments /\ Plain(segs[i]) /\ Clean(segs[i]) /\ segs[i] # Segment(Asked, 0)
      BY <1>1, <1>2, <2>1 DEF Plain
    <2>3. QED
      BY <2>1, <2>2, WrittenAgain
  <1>4. QED
    BY <1>3 DEF Stable, segs

\* What is claimed, and the root, are prefixes a table exists for.
LEMMA PrefixesAre ==
    ASSUME RowsInv
    PROVE  /\ Claimed \subseteq ClaimPrefixes /\ RootPath \in ClaimPrefixes
           /\ RoutesOf \subseteq ClaimPrefixes /\ RoutesOf # {}
           /\ table \in [ClaimPrefixes -> Seq(Rows)]
  <1>1. claims \in Seq(ClaimPrefixes) /\ table \in [ClaimPrefixes -> Seq(Rows)]
    BY DEF RowsInv
  <1>2. Claimed \subseteq ClaimPrefixes
    BY <1>1 DEF Claimed, ToSet
  <1>3. RootPath \in ClaimPrefixes
    BY DEF ClaimPrefixes
  <1>4. claims # <<>> => claims[1] \in Claimed
    BY <1>1 DEF Claimed, ToSet
  <1>5. QED
    BY <1>1, <1>2, <1>3, <1>4 DEF RoutesOf

LEMMA RootIsPrefix ==
    ASSUME NEW S, NEW segs \in Seq(S)
    PROVE  IsPrefix(RootPath.segs, segs) /\ Len(RootPath.segs) = 0
  <1>1. RootPath.segs = <<>> /\ Len(<<>>) = 0 /\ Len(segs) \in Nat
    BY DEF RootPath, Path
  <1>2. SubSeq(<<>>, 1, 0) = <<>> /\ SubSeq(segs, 1, 0) = <<>>
    OBVIOUS
  <1>3. QED
    BY <1>1, <1>2 DEF IsPrefix

\* Over HTTP a request is answered as it should be.
LEMMA HttpFollows ==
    ASSUME ~Strict, RequestsAreClean, RowsInv, RpcPrefixClaimed, mounted = RoutesOf,
           NEW raw \in RequestPaths, NEW method \in Methods, NEW act \in Acts \cup {Unset}
    PROVE  HttpRequest(raw, method, act) = Expected(raw, method, act)
  <1> DEFINE written == WithoutQuery(raw).segs
             route == Normalized(raw)
             segs == Meaning(written)
             prefix == ClaimPrefixOf(segs)
  <1>1. raw \in WrittenPaths /\ written \in Seq(WrittenSegments)
    BY RoutingAssumption, QueryGone DEF WrittenPaths
  <1>2. (route.ok <=> ~Meaningless(written)) /\ (route.ok => route.path = Path(segs, FALSE))
    BY <1>1, NormalizedIs
  <1>3. mounted # {}
    BY PrefixesAre
  <1>4. CASE Meaningless(written)
    <2>1. HttpRequest(raw, method, act) = Reply(400)
      BY <1>2, <1>3, <1>4 DEF HttpRequest
    <2>2. Expected(raw, method, act) = Reply(400)
      BY <1>4 DEF Expected
    <2>3. QED
      BY <2>1, <2>2
  <1>5. CASE ~Meaningless(written)
    <2>1. segs \in Seq(WrittenSegments) /\ Stable(segs)
      BY <1>1, <1>5, MeaningFrom, MeaningIsStable
    <2> HIDE DEF segs
    <2>2. HttpRequest(raw, method, act) =
            IF ~IsPrefix(prefix.segs, segs) THEN Reply(404)
            ELSE Addressed(prefix, Path(segs, FALSE), method, act)
      <3>1. route.path.segs = segs /\ route.ok
        BY <1>2, <1>5 DEF Path
      <3>2. QED
        BY <1>2, <1>3, <3>1 DEF HttpRequest, MatchKey
    <2> DEFINE H == {p \in RoutesOf : IsPrefix(p.segs, segs)}
               keys == {MatchKey(p) : p \in RoutesOf}
    <2>3. CASE H # {}
      <3>1. PICK p \in H : /\ \A q \in H : Len(q.segs) <= Len(p.segs)
                           /\ \A r \in H : (\A q \in H : Len(q.segs) <= Len(r.segs)) => r = p
        BY <2>1, <2>3, PrefixesAre, NearestIs
      <3>2. p \in RoutesOf /\ p \in ClaimPrefixes /\ IsPrefix(p.segs, segs)
        BY PrefixesAre
      <3>3. MatchRoute(keys, segs) = {p}
        BY <2>1, <3>1, <3>2, PrefixesAre, MatchIs
      <3>4. prefix = p
        BY <3>3 DEF ClaimPrefixOf
      <3>5. HttpRequest(raw, method, act) = Answer(p, SubSeq(segs, Len(p.segs) + 1, Len(segs)), method, act)
        <4>1. HttpRequest(raw, method, act) = Addressed(p, Path(segs, FALSE), method, act)
          BY <2>2, <3>2, <3>4
        <4>2. table \in [ClaimPrefixes -> Seq(Rows)] /\ p.segs \in Seq(WrittenSegments)
          BY <3>2, PrefixesAre, ClaimForm
        <4>3. QED
          BY <2>1, <3>2, <4>1, <4>2, AddressedIs
      <3>6. p \in Within(segs) /\ \A q \in Within(segs) : Len(q.segs) <= Len(p.segs)
        <4>1. \A q \in Within(segs) : q \in H \/ q = RootPath
          BY DEF Within
        <4>2. Len(RootPath.segs) <= Len(p.segs)
          BY <2>1, <3>2, RootIsPrefix, ClaimForm
        <4>3. QED
          BY <3>1, <3>2, <4>1, <4>2 DEF Within
      <3>7. ASSUME NEW r \in Within(segs), \A q \in Within(segs) : Len(q.segs) <= Len(r.segs)
            PROVE  r = p
        <4>1. r \in ClaimPrefixes /\ IsPrefix(r.segs, segs)
          BY PrefixesAre DEF Within
        <4>2. r.segs \in Seq(WrittenSegments) /\ p.segs \in Seq(WrittenSegments)
              /\ r = Path(r.segs, FALSE) /\ p = Path(p.segs, FALSE)
          BY <3>2, <4>1, ClaimForm
        <4>3. Len(r.segs) = Len(p.segs)
          BY <3>6, <3>7, <4>2
        <4>4. r.segs = p.segs
          BY <2>1, <3>2, <4>1, <4>2, <4>3, SamePrefix
        <4>5. QED
          BY <4>2, <4>4
      <3>8. Expected(raw, method, act) = Answer(p, SubSeq(segs, Len(p.segs) + 1, Len(segs)), method, act)
        BY <1>5, <3>6, <3>7, ExpectedIs DEF segs
      <3>9. QED
        BY <3>5, <3>8
    <2>4. CASE H = {}
      <3>1. RoutesOf = Claimed
        BY <2>1, <2>4, RootIsPrefix DEF RoutesOf
      <3>2. Hits(keys, segs) = {}
        BY <2>4 DEF Hits, MatchKey
      <3>3. prefix = IF rpcPrefix # NoPrefix THEN rpcPrefix ELSE RootPath
        BY <3>1, <3>2 DEF ClaimPrefixOf, MatchRoute
      <3>4. CASE rpcPrefix # NoPrefix
        <4>1. rpcPrefix \in RoutesOf
          BY <3>1, <3>4 DEF RpcPrefixClaimed
        <4>2. ~IsPrefix(prefix.segs, segs)
          BY <2>4, <3>3, <3>4, <4>1
        <4>3. Within(segs) = {}
          BY <2>4, <3>4 DEF Within
        <4>4. Expected(raw, method, act) = Reply(404)
          BY <1>5, <4>3 DEF Expected, Within, segs
        <4>5. QED
          BY <2>2, <4>2, <4>4
      <3>5. CASE rpcPrefix = NoPrefix
        <4>1. prefix = RootPath /\ IsPrefix(RootPath.segs, segs)
          BY <2>1, <3>3, <3>5, RootIsPrefix
        <4>2. Within(segs) = {RootPath}
          BY <2>4, <3>5, <4>1 DEF Within
        <4>3. HttpRequest(raw, method, act)
                = Answer(RootPath, SubSeq(segs, Len(RootPath.segs) + 1, Len(segs)), method, act)
          <5>1. HttpRequest(raw, method, act) = Addressed(RootPath, Path(segs, FALSE), method, act)
            BY <2>2, <4>1
          <5>2. table \in [ClaimPrefixes -> Seq(Rows)] /\ RootPath \in ClaimPrefixes
            BY PrefixesAre
          <5>3. RootPath.segs \in Seq(WrittenSegments)
            BY <5>2, ClaimForm
          <5>4. Addressed(RootPath, Path(segs, FALSE), method, act)
                  = Answer(RootPath, SubSeq(segs, Len(RootPath.segs) + 1, Len(segs)), method, act)
            <6>1. IsPrefix(RootPath.segs, segs)
              BY <4>1
            <6>2. QED
              BY <2>1, <5>2, <5>3, <6>1, AddressedIs
          <5>5. QED
            BY <5>1, <5>4
        <4>4. Len(RootPath.segs) <= Len(RootPath.segs)
          BY <2>1, RootIsPrefix
        <4>5. Expected(raw, method, act)
                = Answer(RootPath, SubSeq(segs, Len(RootPath.segs) + 1, Len(segs)), method, act)
          BY <1>5, <4>2, <4>4, ExpectedIs DEF segs
        <4>6. QED
          BY <4>3, <4>5
      <3>6. QED
        BY <3>4, <3>5
    <2>5. QED
      BY <2>3, <2>4
  <1>6. QED
    BY <1>4, <1>5

\* The mailbox server asks the registry of the very prefix whose rows it takes,
\* and answers as it should, if its own address is claimed.
LEMMA MailboxFollows ==
    ASSUME ~Strict, RowsInv, OwnPrefix \in Claimed, NEW act \in Acts \cup {Unset}
    PROVE  /\ MailboxRegistryPrefix = {MailboxPrefix}
           /\ MailboxRequest(act) = Expected(OwnPath, Unset, act)
  <1> DEFINE segs == OwnPrefix.segs
             rows == table[OwnPrefix]
             fits == {i \in DOMAIN rows : Matches(rows[i], RootPath, Unset, act)}
             first == RowAt(rows, RootPath, Unset, act)
  <1>1. OwnPrefix \in ClaimPrefixes /\ Claimed \subseteq ClaimPrefixes /\ rows \in Seq(Rows)
    BY PrefixesAre
  <1>2. segs \in Seq(WrittenSegments) /\ OwnPrefix = Path(segs, FALSE)
    BY <1>1, ClaimForm
  <1>3. MailboxPrefix = OwnPrefix
    BY DEF MailboxPrefix
  <1>4. RoutesOf = Claimed
    BY DEF RoutesOf, Claimed, ToSet
  <1>5. ~Meaningless(WithoutQuery(OwnPath).segs) /\ segs = Meaning(WithoutQuery(OwnPath).segs)
    <2>1. OwnPath \in WrittenPaths /\ Normalized(OwnPath).ok
      BY RoutingAssumption
    <2> DEFINE means == Meaning(WithoutQuery(OwnPath).segs)
    <2>2. ~Meaningless(WithoutQuery(OwnPath).segs) /\ OwnPrefix = Path(means, FALSE)
      BY <2>1, NormalizedIs DEF OwnPrefix
    <2> HIDE DEF means
    <2>3. segs = means
      BY <2>2 DEF Path
    <2>4. QED
      BY <2>2, <2>3 DEF means
  <1>6. IsPrefix(segs, segs) /\ \A p \in ClaimPrefixes : IsPrefix(p.segs, segs) => Len(p.segs) <= Len(segs)
    BY <1>2 DEF IsPrefix
  <1>7. MailboxRegistryPrefix = {MailboxPrefix}
    <2>1. MatchRoute({MatchKey(q) : q \in Claimed}, segs) = {OwnPrefix}
      BY <1>1, <1>2, <1>6, MatchIs
    <2>2. QED
      BY <1>3, <2>1 DEF MailboxRegistryPrefix
  <1>8. Expected(OwnPath, Unset, act) = Answer(OwnPrefix, <<>>, Unset, act)
    <2>1. Within(segs) \subseteq ClaimPrefixes /\ OwnPrefix \in Within(segs)
          /\ \A q \in Within(segs) : IsPrefix(q.segs, segs) /\ Len(q.segs) <= Len(segs)
      BY <1>1, <1>4, <1>6, PrefixesAre DEF Within
    <2>2. ASSUME NEW r \in Within(segs), \A q \in Within(segs) : Len(q.segs) <= Len(r.segs)
          PROVE  r = OwnPrefix
      <3>1. r.segs \in Seq(WrittenSegments) /\ r = Path(r.segs, FALSE)
        BY <2>1, ClaimForm
      <3>2. Len(r.segs) = Len(segs)
        BY <1>2, <2>1, <2>2, <3>1
      <3>3. r.segs = segs
        BY <1>2, <1>6, <2>1, <3>1, <3>2, SamePrefix
      <3>4. QED
        BY <1>2, <3>1, <3>3
    <2>3. Expected(OwnPath, Unset, act)
            = Answer(OwnPrefix, SubSeq(segs, Len(segs) + 1, Len(segs)), Unset, act)
      BY <1>5, <2>1, <2>2, ExpectedIs
    <2>4. SubSeq(segs, Len(segs) + 1, Len(segs)) = <<>>
      BY <1>2
    <2>5. QED
      BY <2>3, <2>4
  <1>9. (first # 0 <=> fits # {}) /\ (fits # {} => first = CHOOSE i \in fits : \A j \in fits : i <= j)
    BY <1>1, RowFound
  <1>10. Answer(OwnPrefix, <<>>, Unset, act) =
           IF fits # {} THEN Call(OwnPrefix, rows[first].tool, IF rows[first].to # Unset THEN rows[first].to ELSE act)
           ELSE Reply(400)
    <2> DEFINE row == CHOOSE i \in fits : \A j \in fits : i <= j
    <2>1. Answer(OwnPrefix, <<>>, Unset, act) =
            IF fits # {} THEN Call(OwnPrefix, rows[row].tool, IF rows[row].to # Unset THEN rows[row].to ELSE act)
            ELSE Reply(400)
      BY DEF Answer, RootPath
    <2>2. fits # {} => first = row
      BY <1>9
    <2> HIDE DEF fits, first, rows, row
    <2>3. QED
      BY <2>1, <2>2
  <1>11. MailboxRequest(act) =
           IF first = 0 THEN Reply(400)
           ELSE Call(OwnPrefix, rows[first].tool, IF rows[first].to # Unset THEN rows[first].to ELSE act)
    BY <1>3 DEF MailboxRequest
  <1> HIDE DEF fits, first, rows
  <1>12. MailboxRequest(act) = Expected(OwnPath, Unset, act)
    BY <1>8, <1>9, <1>10, <1>11
  <1>13. QED
    BY <1>7, <1>12

\* A request finds the row or the tool declared for what its path means, in
\* whatever way prefix, row and request are written and whatever was declared
\* before, and so does the mailbox server for its own address; for the
\* default, strictTrailingSlash off, and requests that are clean.
THEOREM RequestsAreFollowed ==
    ASSUME ~Strict, RequestsAreClean
    PROVE  Spec => []RequestsFollowClaims
  <1>1. ASSUME RowsInv, RpcPrefixClaimed PROVE RequestsFollowClaims
    <2>1. ASSUME mounted = RoutesOf, NEW raw \in RequestPaths, NEW method \in Methods,
                 NEW act \in Acts \cup {Unset}
          PROVE  HttpRequest(raw, method, act) = Expected(raw, method, act)
      BY <1>1, <2>1, HttpFollows
    <2>2. ASSUME OwnPrefix \in Claimed, NEW act \in Acts \cup {Unset}
          PROVE  MailboxRegistryPrefix = {MailboxPrefix}
                 /\ MailboxRequest(act) = Expected(OwnPath, Unset, act)
      BY <1>1, <2>2, MailboxFollows
    <2>3. QED
      BY <2>1, <2>2 DEF RequestsFollowClaims
  <1>2. QED
    BY <1>1, RowsInvariant, RpcPrefixIsClaimed, PTL
=============================================================================
