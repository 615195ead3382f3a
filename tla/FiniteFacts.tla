---------------------------- MODULE FiniteFacts ----------------------------
(***************************************************************************)
(* What several proofs use of finite sets: the next one of a queue exists  *)
(* (the waiters of RequestCoordinator, the rows that a drain of TurnUpload *)
(* picks from), and a counter that is kept step by step is the sum it      *)
(* stands for (the entries LiveEventBatcher buffers, the events TurnUpload *)
(* has not got committed).                                                 *)
(***************************************************************************)
EXTENDS FiniteSetTheorems, WellFoundedInduction, TLAPS

(* A finite set that a strict order sorts has a last element. *)
LEMMA LastElement ==
    ASSUME NEW S, IsFiniteSet(S), S # {}, NEW R,
           \A x \in S : <<x, x>> \notin R,
           \A x, y, z \in S : <<x, y>> \in R /\ <<y, z>> \in R => <<x, z>> \in R
    PROVE  \E x \in S : \A y \in S : <<x, y>> \notin R
<1> DEFINE After(x) == {y \in S : <<x, y>> \in R}
           T == {After(x) : x \in S}
<1>1. T \subseteq FiniteSubsetsOf(S) /\ T # {}
    <2>1. \A x \in S : After(x) \in SUBSET S /\ IsFiniteSet(After(x))
        BY FS_Subset
    <2>2. \A x \in S : After(x) \in FiniteSubsetsOf(S)
        BY <2>1 DEF FiniteSubsetsOf
    <2>3. T \subseteq FiniteSubsetsOf(S)
        <3> HIDE DEF After
        <3> QED BY <2>2
    <2>4. T # {}
        <3> HIDE DEF After
        <3> QED OBVIOUS
    <2> QED BY <2>3, <2>4
<1>2. IsWellFoundedOn(StrictSubsetOrdering(S), FiniteSubsetsOf(S))
    BY FS_StrictSubsetOrderingWellFounded
<1>3. PICK t \in T : \A u \in T : <<u, t>> \notin StrictSubsetOrdering(S)
    <2> HIDE DEF T
    <2> QED BY <1>1, <1>2, WFMin
<1>4. PICK x \in S : t = After(x)
    BY <1>3
<1>5. ASSUME NEW y \in S, <<x, y>> \in R PROVE FALSE
    <2>1. After(y) \subseteq After(x) /\ y \in After(x) /\ y \notin After(y)
        BY <1>5
    <2>2. <<After(y), After(x)>> \in StrictSubsetOrdering(S)
        BY <2>1 DEF StrictSubsetOrdering
    <2> QED BY <2>2, <1>3, <1>4
<1> QED BY <1>5

-----------------------------------------------------------------------------
(* A sum, as the number of pairs <<s, i>> with i at most the term of s.    *)
Columns(S, len) == UNION {{s} \X (1..len[s]) : s \in S}

LEMMA InColumns ==
    ASSUME NEW S, NEW len, NEW e
    PROVE  e \in Columns(S, len) <=> \E s \in S : \E i \in 1..len[s] : e = <<s, i>>
BY DEF Columns

LEMMA NoColumns ==
    ASSUME NEW S, NEW len, \A s \in S : len[s] = 0
    PROVE  IsFiniteSet(Columns(S, len)) /\ Cardinality(Columns(S, len)) = 0
<1>1. \A s \in S : 1..len[s] = {}
    OBVIOUS
<1>2. Columns(S, len) = {}
    BY <1>1 DEF Columns
<1> QED BY <1>2, FS_EmptySet

(* One more: a pair that was not there. *)
LEMMA ColumnGrows ==
    ASSUME NEW S, NEW len \in [S -> Nat], NEW more, NEW s \in S,
           more[s] = len[s] + 1, \A x \in S : x # s => more[x] = len[x],
           IsFiniteSet(Columns(S, len))
    PROVE  /\ IsFiniteSet(Columns(S, more))
           /\ Cardinality(Columns(S, more)) = Cardinality(Columns(S, len)) + 1
<1> DEFINE n == len[s]
           new == <<s, n + 1>>
<1>1. n \in Nat /\ more[s] = n + 1 /\ \A x \in S : x # s => more[x] = len[x]
    OBVIOUS
<1>2. new \notin Columns(S, len)
    BY <1>1, InColumns
<1>3. ASSUME NEW e
      PROVE  e \in Columns(S, more) <=> e \in Columns(S, len) \cup {new}
    <2>1. 1..(n + 1) = (1..n) \cup {n + 1}
        BY <1>1
    <2>2. ASSUME NEW x \in S, NEW i \in 1..more[x], e = <<x, i>>
          PROVE  e \in Columns(S, len) \cup {new}
        BY <1>1, <2>1, <2>2, InColumns
    <2>3. ASSUME NEW x \in S, NEW i \in 1..len[x], e = <<x, i>>
          PROVE  e \in Columns(S, more)
        BY <1>1, <2>1, <2>3, InColumns
    <2>4. new \in Columns(S, more)
        BY <1>1, <2>1, InColumns
    <2>5. e \in Columns(S, more) => e \in Columns(S, len) \cup {new}
        <3>1. SUFFICES ASSUME e \in Columns(S, more) PROVE e \in Columns(S, len) \cup {new}
            OBVIOUS
        <3>2. PICK x \in S : \E i \in 1..more[x] : e = <<x, i>>
            BY <3>1, InColumns
        <3> QED BY <2>2, <3>2
    <2>6. e \in Columns(S, len) => e \in Columns(S, more)
        <3>1. SUFFICES ASSUME e \in Columns(S, len) PROVE e \in Columns(S, more)
            OBVIOUS
        <3>2. PICK x \in S : \E i \in 1..len[x] : e = <<x, i>>
            BY <3>1, InColumns
        <3> QED BY <2>3, <3>2
    <2> HIDE DEF new
    <2> QED BY <2>4, <2>5, <2>6
<1>4. Columns(S, more) = Columns(S, len) \cup {new}
    BY <1>3
<1> HIDE DEF new
<1>5. IsFiniteSet(Columns(S, len) \cup {new})
      /\ Cardinality(Columns(S, len) \cup {new}) =
            IF new \in Columns(S, len) THEN Cardinality(Columns(S, len))
                                       ELSE Cardinality(Columns(S, len)) + 1
    BY FS_AddElement
<1> QED BY <1>2, <1>4, <1>5

(* n less: the last n pairs of a column go. *)
LEMMA ColumnShrinks ==
    ASSUME NEW S, NEW len \in [S -> Nat], NEW s \in S, NEW n \in 0..len[s],
           NEW less, less[s] = len[s] - n, \A x \in S : x # s => less[x] = len[x],
           IsFiniteSet(Columns(S, len))
    PROVE  /\ IsFiniteSet(Columns(S, less))
           /\ Cardinality(Columns(S, less)) = Cardinality(Columns(S, len)) - n
           /\ n <= Cardinality(Columns(S, len))
<1> DEFINE a == len[s]
           b == a - n
           gone == {s} \X ((b + 1)..a)
<1>1. /\ a \in Nat /\ b \in Nat /\ b <= a /\ n \in Nat /\ b = a - n
      /\ less[s] = b /\ \A x \in S : x # s => less[x] = len[x]
    OBVIOUS
<1>2. \A e : e \in gone <=> \E i \in (b + 1)..a : e = <<s, i>>
    OBVIOUS
<1>3. 1..a = (1..b) \cup ((b + 1)..a) /\ (1..b) \cap ((b + 1)..a) = {}
    BY <1>1
<1>4. IsFiniteSet(gone) /\ Cardinality(gone) = n
    <2>1. IsFiniteSet((b + 1)..a) /\ Cardinality((b + 1)..a) = n
        <3> HIDE DEF a, b
        <3>1. b + 1 \in Int /\ a \in Int
            BY <1>1
        <3>2. /\ IsFiniteSet((b + 1)..a)
              /\ Cardinality((b + 1)..a) = IF b + 1 > a THEN 0 ELSE a - (b + 1) + 1
            BY <3>1, FS_Interval
        <3> QED BY <1>1, <3>2
    <2>2. IsFiniteSet({s}) /\ Cardinality({s}) = 1
        BY FS_Singleton
    <2>3. IsFiniteSet(gone) /\ Cardinality(gone) = Cardinality({s}) * Cardinality((b + 1)..a)
        BY <2>1, <2>2, FS_Product
    <2> QED BY <1>1, <2>1, <2>2, <2>3
<1> HIDE DEF gone, b
<1>5. gone \subseteq Columns(S, len)
    BY <1>2, <1>3, InColumns
<1>6. ASSUME NEW e
      PROVE  e \in Columns(S, less) <=> e \in Columns(S, len) \ gone
    <2>1. ASSUME NEW x \in S, NEW i \in 1..less[x], e = <<x, i>>
          PROVE  e \in Columns(S, len) \ gone
        <3>1. i \in 1..len[x]
            BY <1>1, <1>3, <2>1
        <3>2. e \notin gone
            BY <1>1, <1>2, <1>3, <2>1
        <3> QED BY <2>1, <3>1, <3>2, InColumns
    <2>2. ASSUME NEW x \in S, NEW i \in 1..len[x], e = <<x, i>>, e \notin gone
          PROVE  e \in Columns(S, less)
        <3>1. i \in 1..less[x]
            BY <1>1, <1>2, <1>3, <2>2
        <3> QED BY <2>2, <3>1, InColumns
    <2>3. e \in Columns(S, less) => e \in Columns(S, len) \ gone
        <3>1. SUFFICES ASSUME e \in Columns(S, less) PROVE e \in Columns(S, len) \ gone
            OBVIOUS
        <3>2. PICK x \in S : \E i \in 1..less[x] : e = <<x, i>>
            BY <3>1, InColumns
        <3> QED BY <2>1, <3>2
    <2>4. e \in Columns(S, len) \ gone => e \in Columns(S, less)
        <3>1. SUFFICES ASSUME e \in Columns(S, len) \ gone PROVE e \in Columns(S, less)
            OBVIOUS
        <3>2. PICK x \in S : \E i \in 1..len[x] : e = <<x, i>>
            BY <3>1, InColumns
        <3> QED BY <2>2, <3>1, <3>2
    <2> QED BY <2>3, <2>4
<1>7. Columns(S, less) = Columns(S, len) \ gone
    BY <1>6
<1>8. Columns(S, len) \cap gone = gone
    BY <1>5
<1>9. n <= Cardinality(Columns(S, len))
    BY <1>4, <1>5, FS_Subset
<1>10. /\ IsFiniteSet(Columns(S, len) \ gone)
       /\ Cardinality(Columns(S, len) \ gone) =
             Cardinality(Columns(S, len)) - Cardinality(Columns(S, len) \cap gone)
    BY FS_Difference
<1> QED BY <1>4, <1>7, <1>8, <1>9, <1>10

=============================================================================
