-------------------------- MODULE HandObjectProofs --------------------------
(***************************************************************************)
(* Proofs about HandObject, for every set of values and suits.             *)
(*                                                                         *)
(* The methods of Hand.java walk the array by increasing indices; the      *)
(* rules of poker count how often a value occurs.  The lemmas relate the   *)
(* two for arrays of every length: a method that looks for n equal cards   *)
(* finds them exactly if some value occurs n times or more.  What a hand   *)
(* of five cards can be follows from the counts alone.                     *)
(***************************************************************************)
EXTENDS HandObject, LeastElement, FiniteSetTheorems

(* The bytes of the cards in play.                                         *)
LEMMA DeckFacts ==
    ASSUME NEW c \in Deck
    PROVE  c.value \in Values /\ c.value \in Nat /\ c.value <= 14 /\ c.suit \in InSuits
  BY HandAssumption DEF Deck, Card, ACE, ACE_HIGH

(* What an array of cards holds.                                           *)
LEMMA HandFacts ==
    ASSUME NEW Hand \in Seq(Deck)
    PROVE  /\ Len(Hand) \in Nat
           /\ \A i \in 1..Len(Hand) : /\ Hand[i] \in Deck
                                      /\ Hand[i].value \in Nat
                                      /\ Hand[i].value \in Values
  BY DeckFacts

(* determineRank returns a rank.                                           *)
LEMMA RankType == \A Hand : determineRank(Hand) \in Ranks
  BY DEF determineRank, Ranks, FiveOfAKind, StraightFlush, FourOfAKind, FullHouse,
         Flush, Straight, ThreeOfAKind, TwoPair, OnePair, HighCard
-----------------------------------------------------------------------------
(* A card keeps being a card when one of its two bytes is set.             *)
LEMMA SetFacts ==
    ASSUME NEW c \in Deck
    PROVE  /\ \A v \in Values : [c EXCEPT !.value = v] \in Deck
           /\ \A s \in InSuits : [c EXCEPT !.suit = s] \in Deck
<1>1. PICK v0 \in Values, s0 \in InSuits : c = [value |-> v0, suit |-> s0]
  BY DEF Deck, Card
<1>2. ASSUME NEW v \in Values PROVE [c EXCEPT !.value = v] \in Deck
  <2>1. [c EXCEPT !.value = v] = Card(v, s0)
    BY <1>1 DEF Card
  <2> QED
    BY <2>1 DEF Deck
<1>3. ASSUME NEW s \in InSuits PROVE [c EXCEPT !.suit = s] \in Deck
  <2>1. [c EXCEPT !.suit = s] = Card(v0, s)
    BY <1>1 DEF Card
  <2> QED
    BY <2>1 DEF Deck
<1> QED
  BY <1>2, <1>3

(* The array is complete once the Hand exists, and Rank is that of the     *)
(* cards as they were assessed, all of them.                               *)
IInv ==
    /\ TypeOK
    /\ built => Len(Cards) = HandSize /\ Len(assessed) = HandSize
    /\ built => Rank = determineRank(assessed)

(* Every step of the Hand and of its caller keeps this.                    *)
LEMMA InvStep ==
    ASSUME IInv, Next
    PROVE  IInv'
<1>1. /\ Cards \in Seq(Deck) /\ Len(Cards) \in Nat /\ Len(Cards) <= HandSize
      /\ Rank \in Ranks /\ edits \in 0..MaxEdits /\ assessed \in Seq(Deck)
      /\ HandSize \in Nat /\ MaxEdits \in Nat
  BY HandAssumption DEF IInv, TypeOK
<1>2. ASSUME NEW c \in Deck, PutCard(c) PROVE IInv'
  <2>1. Append(Cards, c) \in Seq(Deck) /\ Len(Append(Cards, c)) = Len(Cards) + 1
    BY <1>1
  <2>2. /\ Cards' = Append(Cards, c) /\ Len(Cards) < HandSize
        /\ built' = FALSE /\ Rank' = Rank /\ edits' = edits /\ assessed' = assessed
    BY <1>2 DEF PutCard, IInv, TypeOK
  <2>3. Cards' \in Seq(Deck) /\ Len(Cards') <= HandSize
    BY <1>1, <2>1, <2>2
  <2>4. Rank' \in Ranks /\ edits' \in 0..MaxEdits
    BY <1>1, <2>2
  <2>5. TypeOK'
    BY <1>1, <2>2, <2>3, <2>4 DEF TypeOK
  <2> QED
    BY <2>2, <2>5 DEF IInv
<1>3. CASE NewHand
  <2>1. /\ Cards' = Cards /\ Len(Cards) = HandSize /\ built' = TRUE
        /\ Rank' = determineRank(Cards) /\ edits' = edits /\ assessed' = Cards
    BY <1>3 DEF NewHand
  <2> QED
    BY <1>1, <2>1, RankType DEF IInv, TypeOK
<1>4. ASSUME NEW i \in Editable, NEW v \in NewValues, setValue(i, v) PROVE IInv'
  <2>1. /\ Cards' = [Cards EXCEPT ![i] = [Cards[i] EXCEPT !.value = v]]
        /\ built /\ built' = built /\ Rank' = Rank /\ edits' = edits + 1 /\ edits < MaxEdits
        /\ assessed' = assessed
    BY <1>4 DEF setValue
  <2>2. Len(Cards) = HandSize /\ i \in 1..Len(Cards)
    BY <2>1, HandAssumption DEF IInv
  <2>3. [Cards[i] EXCEPT !.value = v] \in Deck
    BY <1>1, <2>2, SetFacts, HandAssumption
  <2>4. Cards' \in Seq(Deck) /\ Len(Cards') = Len(Cards)
    BY <1>1, <2>1, <2>2, <2>3
  <2>5. edits' \in 0..MaxEdits
    BY <1>1, <2>1
  <2> QED
    BY <1>1, <2>1, <2>2, <2>4, <2>5 DEF IInv, TypeOK
<1>5. ASSUME NEW i \in Editable, NEW s \in InSuits, setSuit(i, s) PROVE IInv'
  <2>1. /\ Cards' = [Cards EXCEPT ![i] = [Cards[i] EXCEPT !.suit = s]]
        /\ built /\ built' = built /\ Rank' = Rank /\ edits' = edits + 1 /\ edits < MaxEdits
        /\ assessed' = assessed
    BY <1>5 DEF setSuit
  <2>2. Len(Cards) = HandSize /\ i \in 1..Len(Cards)
    BY <2>1, HandAssumption DEF IInv
  <2>3. [Cards[i] EXCEPT !.suit = s] \in Deck
    BY <1>1, <2>2, SetFacts
  <2>4. Cards' \in Seq(Deck) /\ Len(Cards') = Len(Cards)
    BY <1>1, <2>1, <2>2, <2>3
  <2>5. edits' \in 0..MaxEdits
    BY <1>1, <2>1
  <2> QED
    BY <1>1, <2>1, <2>2, <2>4, <2>5 DEF IInv, TypeOK
<1>6. CASE setCards
  <2>1. /\ Cards' = Cards /\ built /\ built' = built
        /\ Rank' = determineRank(Cards) /\ edits' = 0 /\ assessed' = Cards
    BY <1>6 DEF setCards
  <2>2. edits' \in 0..MaxEdits
    BY <1>1, <2>1
  <2> QED
    BY <1>1, <2>1, <2>2, RankType DEF IInv, TypeOK
<1> QED
  BY <1>2, <1>3, <1>4, <1>5, <1>6 DEF Next

(* The invariant of the Hand object and its array.                         *)
THEOREM Invariance == Spec => []IInv
<1>1. ASSUME Init PROVE IInv
  <2>1. Cards \in Seq(Deck) /\ Len(Cards) <= HandSize /\ assessed \in Seq(Deck)
    BY <1>1, HandAssumption DEF Init
  <2>2. Rank \in Ranks /\ edits \in 0..MaxEdits
    BY <1>1, HandAssumption DEF Init, Ranks, FiveOfAKind, HighCard
  <2> QED
    BY <1>1, <2>1, <2>2 DEF Init, IInv, TypeOK
<1>2. IInv /\ [Next]_vars => IInv'
  <2>1. IInv /\ UNCHANGED vars => IInv'
    BY DEF vars, IInv, TypeOK
  <2> QED
    BY <2>1, InvStep
<1> QED
  BY <1>1, <1>2, PTL DEF Spec

(* The array holds cards, never more than fit, whichever setters the       *)
(* caller uses, and Rank is always one of the ten ranks.                   *)
THEOREM TypeCorrect == Spec => []TypeOK
<1>1. IInv => TypeOK
  BY DEF IInv
<1> QED
  BY <1>1, Invariance, PTL
-----------------------------------------------------------------------------
(* The two loops of isTwoPair meet some pair first, if there is one.       *)
LEMMA FirstPair ==
    ASSUME NEW Hand \in Seq(Deck), Pairs(Hand) # {}
    PROVE  \E first \in Pairs(Hand) :
              \A q \in Pairs(Hand) : q = first \/ Earlier(first, q)
<1> DEFINE Starts == {p[1] : p \in Pairs(Hand)}
<1>1. \A p \in Pairs(Hand) : p = <<p[1], p[2]>> /\ p[1] \in Nat /\ p[2] \in Nat
  BY DEF Pairs, Positions
<1>2. PICK c \in Starts : \A m \in Starts : c <= m
  <2>1. Starts \in SUBSET Nat /\ Starts # {}
    BY <1>1
  <2> HIDE DEF Starts
  <2> QED
    BY <2>1, LeastNat
<1> DEFINE Ends == {i \in Nat : <<c, i>> \in Pairs(Hand)}
<1>3. PICK i \in Ends : \A m \in Ends : i <= m
  <2>1. PICK p \in Pairs(Hand) : p[1] = c
    OBVIOUS
  <2>2. p[2] \in Ends
    BY <1>1, <2>1
  <2>3. Ends \in SUBSET Nat /\ Ends # {}
    BY <2>2
  <2> HIDE DEF Ends
  <2> QED
    BY <2>3, LeastNat
<1>4. <<c, i>> \in Pairs(Hand)
  OBVIOUS
<1>5. ASSUME NEW q \in Pairs(Hand) PROVE q = <<c, i>> \/ Earlier(<<c, i>>, q)
  <2>1. q = <<q[1], q[2]>> /\ q[1] \in Nat /\ q[2] \in Nat /\ c \in Nat /\ i \in Nat
    BY <1>1
  <2>2. q[1] \in Starts
    OBVIOUS
  <2>3. c <= q[1]
    BY <1>2, <2>2
  <2>4. q[1] = c => q[2] \in Ends
    BY <2>1
  <2>5. q[1] = c => i <= q[2]
    BY <1>3, <2>4
  <2>6. CASE q[1] = c /\ q[2] = i
    BY <2>1, <2>6
  <2>7. CASE ~(q[1] = c /\ q[2] = i)
    <3>1. c < q[1] \/ (c = q[1] /\ i < q[2])
      BY <2>1, <2>3, <2>5, <2>7
    <3> QED
      BY <3>1 DEF Earlier
  <2> QED
    BY <2>6, <2>7
<1> QED
  BY <1>4, <1>5

(* So two pairs of different values, or four cards of one, make two pair.  *)
LEMMA TwoPairOfTwo ==
    ASSUME NEW Hand \in Seq(Deck), NEW p \in Pairs(Hand), NEW q \in Pairs(Hand),
           ~Same(Hand, p[1], q[1])
    PROVE  isTwoPair(Hand)
<1>1. PICK first \in Pairs(Hand) : \A r \in Pairs(Hand) : r = first \/ Earlier(first, r)
  BY FirstPair
<1>2. /\ Hand[first[1]].value = Hand[first[2]].value
      /\ Hand[p[1]].value = Hand[p[2]].value
      /\ Hand[q[1]].value = Hand[q[2]].value
      /\ Hand[p[1]].value # Hand[q[1]].value
  BY DEF Pairs, Same
<1>3. PICK r \in {p, q} : /\ Hand[r[1]].value # Hand[first[1]].value
                          /\ Hand[r[2]].value # Hand[first[1]].value
  BY <1>2
<1>4. {first[1], first[2]} \cap {r[1], r[2]} = {}
  BY <1>2, <1>3
<1> QED
  BY <1>1, <1>4 DEF isTwoPair

(* Four positions of the same value leave two beside any pair.             *)
LEMMA TwoPairOfFour ==
    ASSUME NEW Hand \in Seq(Deck),
           NEW c \in Positions(Hand), NEW i \in Positions(Hand),
           NEW j \in Positions(Hand), NEW k \in Positions(Hand),
           c < i, i < j, j < k,
           Same(Hand, c, i), Same(Hand, i, j), Same(Hand, j, k)
    PROVE  isTwoPair(Hand)
<1>1. \A x, y \in {c, i, j, k} : x < y => <<x, y>> \in Pairs(Hand)
  BY DEF Pairs, Same
<1>2. c \in Nat /\ i \in Nat /\ j \in Nat /\ k \in Nat
  BY DEF Positions
<1>3. PICK first \in Pairs(Hand) : \A q \in Pairs(Hand) : q = first \/ Earlier(first, q)
  <2>1. Pairs(Hand) # {}
    BY <1>1
  <2> QED
    BY <2>1, FirstPair
<1>4. PICK x, y \in {c, i, j, k} : x < y /\ x # first[1] /\ x # first[2]
                                          /\ y # first[1] /\ y # first[2]
  BY <1>2
<1>5. <<x, y>> \in Pairs(Hand) /\ {first[1], first[2]} \cap {<<x, y>>[1], <<x, y>>[2]} = {}
  BY <1>1, <1>4
<1> QED
  BY <1>3, <1>5 DEF isTwoPair

(* No two cards of the array have the same value.                          *)
Distinct(Hand) ==
    \A i, j \in 1..Len(Hand) : Hand[i].value = Hand[j].value => i = j

(* Lowest is no more than any value, and one of them unless there is none. *)
LEMMA LowestFacts ==
    ASSUME NEW Hand \in Seq(Deck)
    PROVE  /\ Lowest(Hand) \in Nat
           /\ \A i \in 1..Len(Hand) : Lowest(Hand) <= Hand[i].value
           /\ Len(Hand) # 0 => \E i \in 1..Len(Hand) : Hand[i].value = Lowest(Hand)
<1> DEFINE Seen == {Hand[c].value : c \in Positions(Hand)} \cup {15}
<1>1. Len(Hand) \in Nat /\ \A i \in 1..Len(Hand) : Hand[i].value \in Nat /\ Hand[i].value <= 14
  BY DeckFacts
<1>2. Seen \in SUBSET Nat /\ Seen # {}
  BY <1>1 DEF Positions
<1>3. Lowest(Hand) = Min(Seen)
  BY DEF Lowest
<1>4. \A i \in 1..Len(Hand) : Hand[i].value \in Seen
  BY DEF Positions
<1>5. \A v \in Seen : v = 15 \/ \E i \in 1..Len(Hand) : Hand[i].value = v
  BY DEF Positions
<1> HIDE DEF Seen
<1>6. Min(Seen) \in Seen /\ \A m \in Seen : Min(Seen) <= m
  BY <1>2, MinNat
<1>7. Lowest(Hand) \in Nat /\ \A i \in 1..Len(Hand) : Lowest(Hand) <= Hand[i].value
  BY <1>2, <1>3, <1>4, <1>6
<1>8. ASSUME Len(Hand) # 0 PROVE \E i \in 1..Len(Hand) : Hand[i].value = Lowest(Hand)
  <2>1. 1 \in 1..Len(Hand)
    BY <1>1, <1>8
  <2>2. Lowest(Hand) # 15
    BY <1>1, <1>7, <2>1
  <2> QED
    BY <1>3, <1>5, <1>6, <2>2
<1> QED
  BY <1>7, <1>8

(* A straight has one card of each of its values and no other: as many     *)
(* values as there are cards leave no room for a second one.               *)
LEMMA StraightIsDistinct ==
    ASSUME NEW Hand \in Seq(Deck), isStraight(Hand)
    PROVE  /\ Distinct(Hand)
           /\ \A i \in 1..Len(Hand) : Hand[i].value <= Lowest(Hand) + Len(Hand) - 1
<1> DEFINE n    == Len(Hand)
           lo   == Lowest(Hand)
           span == lo..(lo + n - 1)
           f    == [i \in 1..n |-> IF Hand[i].value \in span THEN Hand[i].value ELSE lo]
<1>1. n \in Nat /\ lo \in Nat /\ \A i \in 1..n : Hand[i].value \in Nat /\ lo <= Hand[i].value
  BY HandFacts, LowestFacts
<1>2. ASSUME NEW v \in span PROVE \E i \in 1..n : Hand[i].value = v
  <2>1. v - lo \in 0..(n - 1) /\ lo + (v - lo) = v
    BY <1>1
  <2> QED
    BY <2>1 DEF isStraight, Positions
<1> HIDE DEF lo, n
<1>3. CASE n = 0
  BY <1>1, <1>3 DEF Distinct, n
<1>4. CASE n # 0
  <2>1. lo \in span
    BY <1>1, <1>4
  <2>2. f \in [1..n -> span]
    BY <2>1
  <2>3. ASSUME NEW v \in span PROVE \E i \in 1..n : f[i] = v
    BY <1>2
  <2>4. f \in Surjection(1..n, span)
    BY <2>2, <2>3 DEF Surjection
  <2>5. IsFiniteSet(1..n) /\ Cardinality(1..n) = n /\ Cardinality(span) = n
    <3>1. Cardinality(1..n) = n /\ IsFiniteSet(1..n)
      BY <1>1, <1>4, FS_Interval
    <3>2. lo \in Int /\ lo + n - 1 \in Int /\ ~(lo > lo + n - 1) /\ (lo + n - 1) - lo + 1 = n
      BY <1>1, <1>4
    <3>3. Cardinality(span) = n
      BY <3>2, FS_Interval
    <3> QED
      BY <3>1, <3>3
  <2>6. f \in Injection(1..n, span)
    BY <2>4, <2>5, FS_SurjSameCardinalityImpliesInj
  <2>7. \A i, j \in 1..n : f[i] = f[j] => i = j
    BY <2>2, <2>6 DEF Injection, IsInjective
  <2>8. ASSUME NEW i \in 1..n PROVE Hand[i].value \in span
    <3>1. PICK j \in 1..n : Hand[j].value = lo
      BY <1>2, <2>1
    <3>2. f[j] = lo
      BY <2>1, <3>1
    <3>3. Hand[i].value \notin span => f[i] = lo
      OBVIOUS
    <3> QED
      BY <2>1, <2>7, <3>1, <3>2, <3>3
  <2>9. Distinct(Hand)
    BY <2>7 DEF Distinct, n
  <2>10. \A i \in 1..n : Hand[i].value <= lo + n - 1
    BY <2>8
  <2> QED
    BY <2>9, <2>10 DEF lo, n
<1> QED
  BY <1>3, <1>4

(* Distinct values of which none is further than n - 1 from another are a  *)
(* straight.                                                               *)
LEMMA DistinctIsStraight ==
    ASSUME NEW Hand \in Seq(Deck), Distinct(Hand),
           \A i, j \in 1..Len(Hand) : Hand[i].value - Hand[j].value < Len(Hand)
    PROVE  isStraight(Hand)
<1> DEFINE n    == Len(Hand)
           lo   == Lowest(Hand)
           span == lo..(lo + n - 1)
           f    == [i \in 1..n |-> Hand[i].value]
<1>1. n \in Nat /\ lo \in Nat /\ \A i \in 1..n : Hand[i].value \in Nat /\ lo <= Hand[i].value
  BY HandFacts, LowestFacts
<1>2. CASE n = 0
  <2>1. 0..(n - 1) = {}
    BY <1>2
  <2> QED
    BY <2>1 DEF isStraight
<1>3. CASE n # 0
  <2>1. PICK l \in 1..n : Hand[l].value = lo
    BY <1>3, LowestFacts
  <2>2. ASSUME NEW i \in 1..n PROVE Hand[i].value \in span
    <3>1. Hand[i].value - lo < n
      BY <2>1
    <3> QED
      BY <1>1, <3>1
  <2> HIDE DEF lo, n
  <2>3. f \in [1..n -> span]
    BY <2>2
  <2>4. f \in Injection(1..n, span)
    BY <2>3 DEF Injection, IsInjective, Distinct, n
  <2>5. IsFiniteSet(span) /\ Cardinality(1..n) = Cardinality(span)
    <3>1. Cardinality(1..n) = n
      BY <1>1, <1>3, FS_Interval
    <3>2. lo \in Int /\ lo + n - 1 \in Int /\ ~(lo > lo + n - 1) /\ (lo + n - 1) - lo + 1 = n
      BY <1>1, <1>3
    <3>3. Cardinality(span) = n /\ IsFiniteSet(span)
      BY <3>2, FS_Interval
    <3> QED
      BY <3>1, <3>3
  <2>6. f \in Surjection(1..n, span)
    BY <2>4, <2>5, FS_Injection
  <2>7. ASSUME NEW c \in 0..(n - 1) PROVE \E i \in 1..n : Hand[i].value = lo + c
    <3>1. lo + c \in span
      BY <1>1
    <3>2. PICK i \in 1..n : f[i] = lo + c
      BY <2>6, <3>1 DEF Surjection
    <3> QED
      BY <3>2
  <2> QED
    BY <2>7 DEF isStraight, Positions, lo, n
<1> QED
  BY <1>2, <1>3

(* An array of any length that is a better hand is also the lesser hands   *)
(* it contains, and a straight holds no pair.                              *)
LEMMA Inclusive ==
    ASSUME NEW Hand \in Seq(Deck)
    PROVE  /\ isFiveOfAKind(Hand)  => isFourOfAKind(Hand)
           /\ isFourOfAKind(Hand)  => isThreeOfAKind(Hand) /\ isTwoPair(Hand)
           /\ isFullHouse(Hand)    => isThreeOfAKind(Hand) /\ isTwoPair(Hand)
           /\ isThreeOfAKind(Hand) => isOnePair(Hand)
           /\ isTwoPair(Hand)      => isOnePair(Hand)
           /\ isStraight(Hand)     => ~isOnePair(Hand)
<1>0. \A c \in Positions(Hand) : After(Hand, c) \subseteq Positions(Hand)
                                 /\ \A i \in After(Hand, c) : c < i
  BY HandFacts DEF Positions, After
<1>1. isFiveOfAKind(Hand) => isFourOfAKind(Hand)
  BY DEF isFiveOfAKind, isFourOfAKind
<1>2. isFourOfAKind(Hand) => isThreeOfAKind(Hand)
  BY DEF isFourOfAKind, isThreeOfAKind
<1>3. ASSUME isFourOfAKind(Hand) PROVE isTwoPair(Hand)
  <2>1. PICK c \in Positions(Hand) : \E i \in After(Hand, c) : \E j \in After(Hand, i) :
        \E k \in After(Hand, j) : Same(Hand, c, i) /\ Same(Hand, i, j) /\ Same(Hand, j, k)
    BY <1>3 DEF isFourOfAKind
  <2>2. PICK i \in After(Hand, c) : \E j \in After(Hand, i) : \E k \in After(Hand, j) :
        Same(Hand, c, i) /\ Same(Hand, i, j) /\ Same(Hand, j, k)
    BY <2>1
  <2>3. PICK j \in After(Hand, i) : \E k \in After(Hand, j) :
        Same(Hand, c, i) /\ Same(Hand, i, j) /\ Same(Hand, j, k)
    BY <2>2
  <2>4. PICK k \in After(Hand, j) : Same(Hand, c, i) /\ Same(Hand, i, j) /\ Same(Hand, j, k)
    BY <2>3
  <2>5. i \in Positions(Hand) /\ j \in Positions(Hand) /\ k \in Positions(Hand)
    BY <1>0
  <2>6. c < i /\ i < j /\ j < k
    BY <1>0, <2>5
  <2> QED
    BY <2>4, <2>5, <2>6, TwoPairOfFour
<1>4. ASSUME isFullHouse(Hand) PROVE isThreeOfAKind(Hand) /\ isTwoPair(Hand)
  <2>1. PICK three \in Positions(Hand) :
          /\ \E i \in After(Hand, three) : \E j \in After(Hand, i) :
                Same(Hand, three, i) /\ Same(Hand, i, j)
          /\ \E c \in Positions(Hand) : \E i \in After(Hand, c) :
                Same(Hand, c, i) /\ ~Same(Hand, c, three)
    BY <1>4 DEF isFullHouse
  <2>2. PICK i \in After(Hand, three) : Same(Hand, three, i)
    BY <2>1
  <2>3. PICK c \in Positions(Hand) : \E d \in After(Hand, c) :
           Same(Hand, c, d) /\ ~Same(Hand, c, three)
    BY <2>1
  <2>4. PICK d \in After(Hand, c) : Same(Hand, c, d) /\ ~Same(Hand, c, three)
    BY <2>3
  <2>5. <<three, i>> \in Pairs(Hand) /\ <<c, d>> \in Pairs(Hand)
    BY <1>0, <2>2, <2>4 DEF Pairs
  <2>6. ~Same(Hand, <<c, d>>[1], <<three, i>>[1])
    BY <2>4
  <2>7. isTwoPair(Hand)
    BY <2>5, <2>6, TwoPairOfTwo
  <2>8. isThreeOfAKind(Hand)
    BY <2>1 DEF isThreeOfAKind
  <2> QED
    BY <2>7, <2>8
<1>5. isThreeOfAKind(Hand) => isOnePair(Hand)
  BY DEF isThreeOfAKind, isOnePair
<1>6. ASSUME isTwoPair(Hand) PROVE isOnePair(Hand)
  <2>1. PICK p \in Pairs(Hand) : TRUE
    BY <1>6 DEF isTwoPair
  <2>2. /\ p[1] \in Positions(Hand) /\ p[2] \in Positions(Hand)
        /\ p[1] < p[2] /\ Same(Hand, p[1], p[2])
    BY DEF Pairs
  <2>3. p[2] \in After(Hand, p[1])
    BY <2>2, HandFacts DEF Positions, After
  <2> QED
    BY <2>2, <2>3 DEF isOnePair
<1>7. ASSUME isStraight(Hand), isOnePair(Hand) PROVE FALSE
  <2>1. PICK c \in Positions(Hand) : \E i \in After(Hand, c) : Same(Hand, c, i)
    BY <1>7 DEF isOnePair
  <2>2. PICK i \in After(Hand, c) : Same(Hand, c, i)
    BY <2>1
  <2>3. i \in Positions(Hand) /\ c < i
    BY <1>0
  <2>4. c = i
    BY <1>7, <2>2, <2>3, StraightIsDistinct DEF Distinct, Same, Positions
  <2>5. c \in Nat
    BY DEF Positions
  <2> QED
    BY <2>3, <2>4, <2>5
<1> QED
  BY <1>1, <1>2, <1>3, <1>4, <1>5, <1>6, <1>7

(* "INCLUSIVELY", "on any array": the methods of Hand.java include each    *)
(* other as the comments above them say, whatever the array.               *)
THEOREM PredicatesInclusiveHolds == Spec => []PredicatesInclusive
<1>1. TypeOK => PredicatesInclusive
  BY Inclusive DEF TypeOK, PredicatesInclusive
<1> QED
  BY <1>1, TypeCorrect, PTL
-----------------------------------------------------------------------------
(* The positions of the cards of a value.                                  *)
At(v, Hand) == {i \in 1..Len(Hand) : Hand[i].value = v}

(* The positions of an array, counted.                                     *)
LEMMA CountPositions ==
    ASSUME NEW n \in Nat
    PROVE  IsFiniteSet(1..n) /\ Cardinality(1..n) = n
<1>1. 1 \in Int /\ n \in Int
  OBVIOUS
<1>2. IsFiniteSet(1..n) /\ Cardinality(1..n) = IF 1 > n THEN 0 ELSE n - 1 + 1
  BY <1>1, FS_Interval
<1> QED
  BY <1>2

(* They are finitely many, and none for a value that is not in play.       *)
LEMMA AtFacts ==
    ASSUME NEW Hand \in Seq(Deck), NEW v
    PROVE  /\ IsFiniteSet(At(v, Hand))
           /\ Cardinality(At(v, Hand)) \in Nat
           /\ Cardinality(At(v, Hand)) > 0 => v \in Values
<1>1. At(v, Hand) \in SUBSET (1..Len(Hand)) /\ Len(Hand) \in Nat
  BY DEF At
<1>2. IsFiniteSet(At(v, Hand))
  BY <1>1, CountPositions, FS_Subset
<1>3. Cardinality(At(v, Hand)) \in Nat
  BY <1>2, FS_CardinalityType
<1>4. ASSUME Cardinality(At(v, Hand)) > 0 PROVE v \in Values
  <2>1. At(v, Hand) # {}
    <3>1. Cardinality({}) = 0
      BY FS_EmptySet
    <3> QED
      BY <1>4, <3>1
  <2>2. PICK i \in 1..Len(Hand) : Hand[i].value = v
    BY <2>1 DEF At
  <2> QED
    BY <2>2, DeckFacts
<1> QED
  BY <1>2, <1>3, <1>4

(* Different values lie at different positions.                            *)
LEMMA TwoValues ==
    ASSUME NEW Hand \in Seq(Deck), NEW v, NEW w, v # w
    PROVE  Cardinality(At(v, Hand)) + Cardinality(At(w, Hand)) <= Len(Hand)
<1>1. /\ IsFiniteSet(At(v, Hand)) /\ IsFiniteSet(At(w, Hand))
      /\ Cardinality(At(v, Hand)) \in Nat /\ Cardinality(At(w, Hand)) \in Nat
  BY AtFacts
<1>2. At(v, Hand) \cap At(w, Hand) = {}
  BY DEF At
<1>3. Cardinality(At(v, Hand) \cup At(w, Hand)) =
         Cardinality(At(v, Hand)) + Cardinality(At(w, Hand)) - 0
  BY <1>1, <1>2, FS_Union, FS_EmptySet
<1>4. At(v, Hand) \cup At(w, Hand) \in SUBSET (1..Len(Hand))
  BY DEF At
<1>5. IsFiniteSet(1..Len(Hand)) /\ Cardinality(1..Len(Hand)) = Len(Hand) /\ Len(Hand) \in Nat
  BY HandFacts, CountPositions
<1>6. Cardinality(At(v, Hand) \cup At(w, Hand)) <= Len(Hand)
  BY <1>4, <1>5, FS_Subset
<1> QED
  BY <1>1, <1>3, <1>6

(* So do three different ones.                                             *)
LEMMA ThreeValues ==
    ASSUME NEW Hand \in Seq(Deck), NEW u, NEW v, NEW w, u # v, u # w, v # w
    PROVE  Cardinality(At(u, Hand)) + Cardinality(At(v, Hand)) + Cardinality(At(w, Hand))
              <= Len(Hand)
<1> DEFINE U == At(u, Hand)
           V == At(v, Hand)
           W == At(w, Hand)
<1>1. /\ IsFiniteSet(U) /\ IsFiniteSet(V) /\ IsFiniteSet(W)
      /\ Cardinality(U) \in Nat /\ Cardinality(V) \in Nat /\ Cardinality(W) \in Nat
  BY AtFacts
<1>2. U \cap V = {} /\ (U \cup V) \cap W = {} /\ (U \cup V) \cup W \in SUBSET (1..Len(Hand))
  BY DEF At
<1>3. IsFiniteSet(1..Len(Hand)) /\ Cardinality(1..Len(Hand)) = Len(Hand) /\ Len(Hand) \in Nat
  BY HandFacts, CountPositions
<1> HIDE DEF U, V, W
<1>4. IsFiniteSet(U \cup V) /\ Cardinality(U \cup V) = Cardinality(U) + Cardinality(V) - 0
  BY <1>1, <1>2, FS_Union, FS_EmptySet
<1>5. Cardinality((U \cup V) \cup W) = Cardinality(U \cup V) + Cardinality(W) - 0
  <2> DEFINE UV == U \cup V
  <2>1. IsFiniteSet(UV) /\ IsFiniteSet(W) /\ UV \cap W = {}
    BY <1>1, <1>2, <1>4
  <2> HIDE DEF UV
  <2>2. Cardinality(UV \cup W) = Cardinality(UV) + Cardinality(W) - 0
    BY <2>1, FS_Union, FS_EmptySet
  <2> QED
    BY <2>2 DEF UV
<1>6. Cardinality((U \cup V) \cup W) <= Len(Hand)
  BY <1>2, <1>3, FS_Subset
<1>7. Cardinality(U) + Cardinality(V) + Cardinality(W) <= Len(Hand)
  BY <1>1, <1>3, <1>4, <1>5, <1>6
<1> QED
  BY <1>7 DEF U, V, W

(* A set of positions can be counted, and has one fewer without one.       *)
LEMMA Peel ==
    ASSUME NEW n \in Nat, NEW P \in SUBSET (1..n)
    PROVE  /\ IsFiniteSet(P) /\ Cardinality(P) \in Nat
           /\ Cardinality(P) > 0 => P # {}
           /\ \A c \in P : Cardinality(P \ {c}) = Cardinality(P) - 1
<1>1. IsFiniteSet(P) /\ Cardinality(P) \in Nat
  BY CountPositions, FS_Subset, FS_CardinalityType
<1>2. ASSUME NEW c \in P PROVE Cardinality(P \ {c}) = Cardinality(P) - 1
  BY <1>1, FS_RemoveElement
<1>3. Cardinality({}) = 0
  BY FS_EmptySet
<1>4. Cardinality(P) > 0 => P # {}
  BY <1>3
<1> QED
  BY <1>1, <1>2, <1>4

(* A non-empty set of numbers has a first one.                             *)
LEMMA FirstOf ==
    ASSUME NEW P \in SUBSET Nat, P # {}
    PROVE  \E c \in P : \A i \in P \ {c} : c < i
<1>1. PICK c \in P : \A i \in P : c <= i
  BY LeastNat
<1>2. \A i \in P \ {c} : c < i
  BY <1>1
<1> QED
  BY <1>2

(* A set has two elements or more exactly if two increasing positions lie  *)
(* in it.                                                                  *)
LEMMA TwoOrMore ==
    ASSUME NEW n \in Nat, NEW P \in SUBSET (1..n)
    PROVE  Cardinality(P) >= 2 <=> \E c, i \in P : c < i
<1>1. /\ Cardinality(P) \in Nat /\ (Cardinality(P) > 0 => P # {})
      /\ \A c \in P : Cardinality(P \ {c}) = Cardinality(P) - 1
  BY Peel
<1>2. ASSUME Cardinality(P) >= 2 PROVE \E c, i \in P : c < i
  <2>1. PICK c \in P : \A i \in P \ {c} : c < i
    <3>1. P # {}
      BY <1>1, <1>2
    <3> QED
      BY <3>1, FirstOf
  <2>2. Cardinality(P \ {c}) > 0 /\ P \ {c} \in SUBSET (1..n)
    BY <1>1, <1>2
  <2>3. PICK i \in P \ {c} : TRUE
    BY <2>2, Peel
  <2> QED
    BY <2>1, <2>3
<1>3. ASSUME NEW c \in P, NEW i \in P, c < i PROVE Cardinality(P) >= 2
  <2>1. c \in Nat /\ i \in Nat /\ i \in P \ {c} /\ P \ {c} \in SUBSET (1..n)
    BY <1>3
  <2>2. Cardinality((P \ {c}) \ {i}) = Cardinality(P \ {c}) - 1
    BY <2>1, Peel
  <2>3. Cardinality((P \ {c}) \ {i}) \in Nat
    <3>1. (P \ {c}) \ {i} \in SUBSET (1..n)
      OBVIOUS
    <3> QED
      BY <1>1, <3>1, Peel
  <2> QED
    BY <1>1, <2>2, <2>3
<1> QED
  BY <1>2, <1>3

(* The same for three: the first one, and two after it.                  *)
LEMMA ThreeOrMore ==
    ASSUME NEW n \in Nat, NEW P \in SUBSET (1..n)
    PROVE  Cardinality(P) >= 3 <=> \E c, i, j \in P : c < i /\ i < j
<1>1. /\ Cardinality(P) \in Nat /\ (Cardinality(P) > 0 => P # {})
      /\ \A c \in P : Cardinality(P \ {c}) = Cardinality(P) - 1
  BY Peel
<1>2. ASSUME Cardinality(P) >= 3 PROVE \E c, i, j \in P : c < i /\ i < j
  <2>1. PICK c \in P : \A d \in P \ {c} : c < d
    <3>1. P # {}
      BY <1>1, <1>2
    <3> QED
      BY <3>1, FirstOf
  <2>2. Cardinality(P \ {c}) >= 2 /\ P \ {c} \in SUBSET (1..n)
    BY <1>1, <1>2
  <2>3. PICK i, j \in P \ {c} : i < j
    BY <2>2, TwoOrMore
  <2>4. c < i /\ i < j
    BY <2>1, <2>3
  <2> QED
    BY <2>4
<1>3. ASSUME NEW c \in P, NEW i \in P, NEW j \in P, c < i, i < j
      PROVE  Cardinality(P) >= 3
  <2>1. c \in Nat /\ i \in Nat /\ j \in Nat
    OBVIOUS
  <2>2. /\ i \in P \ {c} /\ j \in P \ {c}
        /\ P \ {c} \in SUBSET (1..n)
    BY <1>3, <2>1
  <2>3. Cardinality(P \ {c}) >= 2
    BY <1>3, <2>2, TwoOrMore
  <2> QED
    BY <1>1, <2>3
<1> QED
  BY <1>2, <1>3

(* The same for four: the first one, and three after it.                 *)
LEMMA FourOrMore ==
    ASSUME NEW n \in Nat, NEW P \in SUBSET (1..n)
    PROVE  Cardinality(P) >= 4 <=> \E c, i, j, k \in P : c < i /\ i < j /\ j < k
<1>1. /\ Cardinality(P) \in Nat /\ (Cardinality(P) > 0 => P # {})
      /\ \A c \in P : Cardinality(P \ {c}) = Cardinality(P) - 1
  BY Peel
<1>2. ASSUME Cardinality(P) >= 4 PROVE \E c, i, j, k \in P : c < i /\ i < j /\ j < k
  <2>1. PICK c \in P : \A d \in P \ {c} : c < d
    <3>1. P # {}
      BY <1>1, <1>2
    <3> QED
      BY <3>1, FirstOf
  <2>2. Cardinality(P \ {c}) >= 3 /\ P \ {c} \in SUBSET (1..n)
    BY <1>1, <1>2
  <2>3. PICK i, j, k \in P \ {c} : i < j /\ j < k
    BY <2>2, ThreeOrMore
  <2>4. c < i /\ i < j /\ j < k
    BY <2>1, <2>3
  <2> QED
    BY <2>4
<1>3. ASSUME NEW c \in P, NEW i \in P, NEW j \in P, NEW k \in P, c < i, i < j, j < k
      PROVE  Cardinality(P) >= 4
  <2>1. c \in Nat /\ i \in Nat /\ j \in Nat /\ k \in Nat
    OBVIOUS
  <2>2. /\ i \in P \ {c} /\ j \in P \ {c} /\ k \in P \ {c}
        /\ P \ {c} \in SUBSET (1..n)
    BY <1>3, <2>1
  <2>3. Cardinality(P \ {c}) >= 3
    BY <1>3, <2>2, ThreeOrMore
  <2> QED
    BY <1>1, <2>3
<1> QED
  BY <1>2, <1>3

(* The same for five: the first one, and four after it.                  *)
LEMMA FiveOrMore ==
    ASSUME NEW n \in Nat, NEW P \in SUBSET (1..n)
    PROVE  Cardinality(P) >= 5 <=> \E c, i, j, k, l \in P : c < i /\ i < j /\ j < k /\ k < l
<1>1. /\ Cardinality(P) \in Nat /\ (Cardinality(P) > 0 => P # {})
      /\ \A c \in P : Cardinality(P \ {c}) = Cardinality(P) - 1
  BY Peel
<1>2. ASSUME Cardinality(P) >= 5 PROVE \E c, i, j, k, l \in P : c < i /\ i < j /\ j < k /\ k < l
  <2>1. PICK c \in P : \A d \in P \ {c} : c < d
    <3>1. P # {}
      BY <1>1, <1>2
    <3> QED
      BY <3>1, FirstOf
  <2>2. Cardinality(P \ {c}) >= 4 /\ P \ {c} \in SUBSET (1..n)
    BY <1>1, <1>2
  <2>3. PICK i, j, k, l \in P \ {c} : i < j /\ j < k /\ k < l
    BY <2>2, FourOrMore
  <2>4. c < i /\ i < j /\ j < k /\ k < l
    BY <2>1, <2>3
  <2> QED
    BY <2>4
<1>3. ASSUME NEW c \in P, NEW i \in P, NEW j \in P, NEW k \in P, NEW l \in P, c < i, i < j, j < k, k < l
      PROVE  Cardinality(P) >= 5
  <2>1. c \in Nat /\ i \in Nat /\ j \in Nat /\ k \in Nat /\ l \in Nat
    OBVIOUS
  <2>2. /\ i \in P \ {c} /\ j \in P \ {c} /\ k \in P \ {c} /\ l \in P \ {c}
        /\ P \ {c} \in SUBSET (1..n)
    BY <1>3, <2>1
  <2>3. Cardinality(P \ {c}) >= 4
    BY <1>3, <2>2, FourOrMore
  <2> QED
    BY <1>1, <2>3
<1> QED
  BY <1>2, <1>3

(* The loops for equal cards find them exactly if a value occurs often     *)
(* enough, whatever the array.                                             *)
LEMMA OfAKind ==
    ASSUME NEW Hand \in Seq(Deck)
    PROVE  /\ isOnePair(Hand)      <=> \E v \in Values : Cardinality(At(v, Hand)) >= 2
           /\ isThreeOfAKind(Hand) <=> \E v \in Values : Cardinality(At(v, Hand)) >= 3
           /\ isFourOfAKind(Hand)  <=> \E v \in Values : Cardinality(At(v, Hand)) >= 4
           /\ isFiveOfAKind(Hand)  <=> \E v \in Values : Cardinality(At(v, Hand)) >= 5
<1>1. Len(Hand) \in Nat /\ \A v : At(v, Hand) \in SUBSET (1..Len(Hand))
  BY DEF At
<1>2. \A c \in Positions(Hand) : /\ After(Hand, c) \subseteq Positions(Hand)
                                 /\ \A i \in After(Hand, c) : c < i
                                 /\ \A i \in Positions(Hand) : c < i => i \in After(Hand, c)
  BY <1>1 DEF Positions, After
<1>3. \A c \in Positions(Hand) : /\ c \in At(Hand[c].value, Hand)
                                 /\ Hand[c].value \in Values
  BY DeckFacts DEF Positions, At
<1>4. \A v : \A c \in At(v, Hand) : c \in Positions(Hand) /\ Hand[c].value = v
  BY DEF At, Positions
<1>5. \A c, i \in Positions(Hand) :
         Same(Hand, c, i) => i \in At(Hand[c].value, Hand)
  BY DEF Same, At, Positions
<1>6. isOnePair(Hand) <=> \E v \in Values : Cardinality(At(v, Hand)) >= 2
  <2>1. ASSUME isOnePair(Hand) PROVE \E v \in Values : Cardinality(At(v, Hand)) >= 2
    <3>1. PICK c, i \in Positions(Hand) :
             /\ c < i
             /\ Same(Hand, c, i)
      BY <1>2, <2>1 DEF isOnePair
    <3>2. c \in At(Hand[c].value, Hand) /\ i \in At(Hand[c].value, Hand)
      BY <1>3, <1>5, <3>1
    <3>4. Cardinality(At(Hand[c].value, Hand)) >= 2
      BY <1>1, <3>1, <3>2, TwoOrMore
    <3> QED
      BY <1>3, <3>4
  <2>2. ASSUME NEW v \in Values, Cardinality(At(v, Hand)) >= 2 PROVE isOnePair(Hand)
    <3>1. PICK c, i \in At(v, Hand) : c < i
      BY <1>1, <2>2, TwoOrMore
    <3>2. Same(Hand, c, i)
      BY <1>4 DEF Same
    <3>3. /\ c \in Positions(Hand)
          /\ i \in After(Hand, c)
      BY <1>2, <1>4, <3>1
    <3> QED
      BY <3>2, <3>3 DEF isOnePair
  <2> QED
    BY <2>1, <2>2
<1>7. isThreeOfAKind(Hand) <=> \E v \in Values : Cardinality(At(v, Hand)) >= 3
  <2>1. ASSUME isThreeOfAKind(Hand) PROVE \E v \in Values : Cardinality(At(v, Hand)) >= 3
    <3>1. PICK c, i, j \in Positions(Hand) :
             /\ c < i /\ i < j
             /\ Same(Hand, c, i) /\ Same(Hand, i, j)
      BY <1>2, <2>1 DEF isThreeOfAKind
    <3>2. c \in At(Hand[c].value, Hand) /\ i \in At(Hand[c].value, Hand)
      BY <1>3, <1>5, <3>1
    <3>3. j \in At(Hand[c].value, Hand)
      BY <1>5, <3>1 DEF Same
    <3>4. Cardinality(At(Hand[c].value, Hand)) >= 3
      BY <1>1, <3>1, <3>2, <3>3, ThreeOrMore
    <3> QED
      BY <1>3, <3>4
  <2>2. ASSUME NEW v \in Values, Cardinality(At(v, Hand)) >= 3 PROVE isThreeOfAKind(Hand)
    <3>1. PICK c, i, j \in At(v, Hand) : c < i /\ i < j
      BY <1>1, <2>2, ThreeOrMore
    <3>2. Same(Hand, c, i) /\ Same(Hand, i, j)
      BY <1>4 DEF Same
    <3>3. /\ c \in Positions(Hand)
          /\ i \in After(Hand, c)
          /\ j \in After(Hand, i)
      BY <1>2, <1>4, <3>1
    <3> QED
      BY <3>2, <3>3 DEF isThreeOfAKind
  <2> QED
    BY <2>1, <2>2
<1>8. isFourOfAKind(Hand) <=> \E v \in Values : Cardinality(At(v, Hand)) >= 4
  <2>1. ASSUME isFourOfAKind(Hand) PROVE \E v \in Values : Cardinality(At(v, Hand)) >= 4
    <3>1. PICK c, i, j, k \in Positions(Hand) :
             /\ c < i /\ i < j /\ j < k
             /\ Same(Hand, c, i) /\ Same(Hand, i, j) /\ Same(Hand, j, k)
      BY <1>2, <2>1 DEF isFourOfAKind
    <3>2. c \in At(Hand[c].value, Hand) /\ i \in At(Hand[c].value, Hand)
      BY <1>3, <1>5, <3>1
    <3>3. j \in At(Hand[c].value, Hand) /\ k \in At(Hand[c].value, Hand)
      BY <1>5, <3>1 DEF Same
    <3>4. Cardinality(At(Hand[c].value, Hand)) >= 4
      BY <1>1, <3>1, <3>2, <3>3, FourOrMore
    <3> QED
      BY <1>3, <3>4
  <2>2. ASSUME NEW v \in Values, Cardinality(At(v, Hand)) >= 4 PROVE isFourOfAKind(Hand)
    <3>1. PICK c, i, j, k \in At(v, Hand) : c < i /\ i < j /\ j < k
      BY <1>1, <2>2, FourOrMore
    <3>2. Same(Hand, c, i) /\ Same(Hand, i, j) /\ Same(Hand, j, k)
      BY <1>4 DEF Same
    <3>3. /\ c \in Positions(Hand)
          /\ i \in After(Hand, c)
          /\ j \in After(Hand, i)
          /\ k \in After(Hand, j)
      BY <1>2, <1>4, <3>1
    <3> QED
      BY <3>2, <3>3 DEF isFourOfAKind
  <2> QED
    BY <2>1, <2>2
<1>9. isFiveOfAKind(Hand) <=> \E v \in Values : Cardinality(At(v, Hand)) >= 5
  <2>1. ASSUME isFiveOfAKind(Hand) PROVE \E v \in Values : Cardinality(At(v, Hand)) >= 5
    <3>1. PICK c, i, j, k, l \in Positions(Hand) :
             /\ c < i /\ i < j /\ j < k /\ k < l
             /\ Same(Hand, c, i) /\ Same(Hand, i, j) /\ Same(Hand, j, k) /\ Same(Hand, k, l)
      BY <1>2, <2>1 DEF isFiveOfAKind
    <3>2. c \in At(Hand[c].value, Hand) /\ i \in At(Hand[c].value, Hand)
      BY <1>3, <1>5, <3>1
    <3>3. j \in At(Hand[c].value, Hand) /\ k \in At(Hand[c].value, Hand) /\ l \in At(Hand[c].value, Hand)
      BY <1>5, <3>1 DEF Same
    <3>4. Cardinality(At(Hand[c].value, Hand)) >= 5
      BY <1>1, <3>1, <3>2, <3>3, FiveOrMore
    <3> QED
      BY <1>3, <3>4
  <2>2. ASSUME NEW v \in Values, Cardinality(At(v, Hand)) >= 5 PROVE isFiveOfAKind(Hand)
    <3>1. PICK c, i, j, k, l \in At(v, Hand) : c < i /\ i < j /\ j < k /\ k < l
      BY <1>1, <2>2, FiveOrMore
    <3>2. Same(Hand, c, i) /\ Same(Hand, i, j) /\ Same(Hand, j, k) /\ Same(Hand, k, l)
      BY <1>4 DEF Same
    <3>3. /\ c \in Positions(Hand)
          /\ i \in After(Hand, c)
          /\ j \in After(Hand, i)
          /\ k \in After(Hand, j)
          /\ l \in After(Hand, k)
      BY <1>2, <1>4, <3>1
    <3> QED
      BY <3>2, <3>3 DEF isFiveOfAKind
  <2> QED
    BY <2>1, <2>2
<1> QED
  BY <1>6, <1>7, <1>8, <1>9

(* Two equal cards of one value beside two of another.                     *)
TwoValuesTwice(Hand) ==
    \E v, w \in Values : /\ v # w
                         /\ Cardinality(At(v, Hand)) >= 2
                         /\ Cardinality(At(w, Hand)) >= 2

(* The pairs of positions, by the value of their cards.                    *)
LEMMA PairOf ==
    ASSUME NEW Hand \in Seq(Deck)
    PROVE  /\ \A v : Cardinality(At(v, Hand)) >= 2 =>
                \E p \in Pairs(Hand) : Hand[p[1]].value = v
           /\ \A p \in Pairs(Hand) :
                /\ p[1] \in 1..Len(Hand) /\ p[2] \in 1..Len(Hand) /\ p[1] < p[2]
                /\ Hand[p[1]].value \in Values
                /\ Cardinality(At(Hand[p[1]].value, Hand)) >= 2
<1>1. Len(Hand) \in Nat /\ \A v : At(v, Hand) \in SUBSET (1..Len(Hand))
  BY DEF At
<1>2. ASSUME NEW v, Cardinality(At(v, Hand)) >= 2
      PROVE  \E p \in Pairs(Hand) : Hand[p[1]].value = v
  <2>1. PICK c, i \in At(v, Hand) : c < i
    BY <1>1, <1>2, TwoOrMore
  <2>2. <<c, i>> \in Pairs(Hand) /\ Hand[<<c, i>>[1]].value = v
    BY <2>1 DEF At, Pairs, Positions, Same
  <2> QED
    BY <2>2
<1>3. ASSUME NEW p \in Pairs(Hand)
      PROVE  /\ p[1] \in 1..Len(Hand) /\ p[2] \in 1..Len(Hand) /\ p[1] < p[2]
             /\ Hand[p[1]].value \in Values
             /\ Cardinality(At(Hand[p[1]].value, Hand)) >= 2
  <2>1. /\ p[1] \in 1..Len(Hand) /\ p[2] \in 1..Len(Hand) /\ p[1] < p[2]
        /\ Hand[p[1]].value = Hand[p[2]].value
    BY DEF Pairs, Positions, Same
  <2>2. Hand[p[1]].value \in Values
    BY <2>1, DeckFacts
  <2>3. p[1] \in At(Hand[p[1]].value, Hand) /\ p[2] \in At(Hand[p[1]].value, Hand)
    BY <2>1 DEF At
  <2>4. Cardinality(At(Hand[p[1]].value, Hand)) >= 2
    BY <1>1, <2>1, <2>3, TwoOrMore
  <2> QED
    BY <2>1, <2>2, <2>4
<1> QED
  BY <1>2, <1>3

(* isTwoPair, by the counts: two values twice, or one value four times.    *)
LEMMA TwoPairCounts ==
    ASSUME NEW Hand \in Seq(Deck)
    PROVE  isTwoPair(Hand) <=> TwoValuesTwice(Hand) \/ isFourOfAKind(Hand)
<1>1. Len(Hand) \in Nat /\ \A v : At(v, Hand) \in SUBSET (1..Len(Hand))
  BY DEF At
<1>2. ASSUME TwoValuesTwice(Hand) PROVE isTwoPair(Hand)
  <2>1. PICK v \in Values, w \in Values :
           v # w /\ Cardinality(At(v, Hand)) >= 2 /\ Cardinality(At(w, Hand)) >= 2
    BY <1>2 DEF TwoValuesTwice
  <2>2. PICK p \in Pairs(Hand) : Hand[p[1]].value = v
    BY <2>1, PairOf
  <2>3. PICK q \in Pairs(Hand) : Hand[q[1]].value = w
    BY <2>1, PairOf
  <2>4. ~Same(Hand, p[1], q[1])
    BY <2>1, <2>2, <2>3 DEF Same
  <2> QED
    BY <2>4, TwoPairOfTwo
<1>3. isFourOfAKind(Hand) => isTwoPair(Hand)
  BY Inclusive
<1>4. ASSUME isTwoPair(Hand) PROVE TwoValuesTwice(Hand) \/ isFourOfAKind(Hand)
  <2>1. PICK p \in Pairs(Hand), q \in Pairs(Hand) : {p[1], p[2]} \cap {q[1], q[2]} = {}
    BY <1>4 DEF isTwoPair
  <2> DEFINE v == Hand[p[1]].value
             w == Hand[q[1]].value
  <2>2. /\ v \in Values /\ w \in Values
        /\ Cardinality(At(v, Hand)) >= 2 /\ Cardinality(At(w, Hand)) >= 2
    BY PairOf
  <2>3. CASE v # w
    BY <2>2, <2>3 DEF TwoValuesTwice
  <2>4. CASE v = w
    <3>1. /\ p[1] \in At(v, Hand) /\ p[2] \in At(v, Hand) /\ p[1] < p[2]
          /\ q[1] \in At(v, Hand) /\ q[2] \in At(v, Hand) /\ q[1] < q[2]
      BY <2>4 DEF At, Pairs, Positions, Same
    <3>2. /\ p[1] # q[1] /\ p[1] # q[2] /\ p[2] # q[1] /\ p[2] # q[2]
          /\ p[1] \in Nat /\ p[2] \in Nat /\ q[1] \in Nat /\ q[2] \in Nat
      <4>1. p[1] # q[1] /\ p[1] # q[2] /\ p[2] # q[1] /\ p[2] # q[2]
        BY <2>1
      <4>2. p[1] \in 1..Len(Hand) /\ p[2] \in 1..Len(Hand)
        BY PairOf
      <4>3. q[1] \in 1..Len(Hand) /\ q[2] \in 1..Len(Hand)
        BY PairOf
      <4> QED
        BY <1>1, <4>1, <4>2, <4>3
    <3>3. \E c, i, j, k \in {p[1], p[2], q[1], q[2]} : c < i /\ i < j /\ j < k
      <4>1. ASSUME NEW a \in Nat, NEW b \in Nat, NEW d \in Nat, NEW e \in Nat,
                   a < b, d < e, a # d, a # e, b # d, b # e
            PROVE  \E c, i, j, k \in {a, b, d, e} : c < i /\ i < j /\ j < k
        <5>1. CASE b < d
          BY <4>1, <5>1
        <5>2. CASE a < d /\ d < b /\ b < e
          BY <4>1, <5>2
        <5>3. CASE a < d /\ e < b
          BY <4>1, <5>3
        <5>4. CASE d < a /\ a < e /\ e < b
          BY <4>1, <5>4
        <5>5. CASE d < a /\ b < e
          BY <4>1, <5>5
        <5>6. CASE e < a
          BY <4>1, <5>6
        <5> QED
          BY <4>1, <5>1, <5>2, <5>3, <5>4, <5>5, <5>6
      <4> QED
        BY <3>1, <3>2, <4>1
    <3>4. PICK c, i, j, k \in At(v, Hand) : c < i /\ i < j /\ j < k
      BY <3>1, <3>3
    <3>5. Cardinality(At(v, Hand)) >= 4
      BY <1>1, <3>4, FourOrMore
    <3> QED
      BY <2>2, <3>5, OfAKind
  <2> QED
    BY <2>3, <2>4
<1> QED
  BY <1>2, <1>3, <1>4

(* isFullHouse, by the counts, where only one value can occur three times. *)
LEMMA FullHouseCounts ==
    ASSUME NEW Hand \in Seq(Deck), Len(Hand) = 5
    PROVE  isFullHouse(Hand) <=>
              \E v, w \in Values : /\ v # w
                                   /\ Cardinality(At(v, Hand)) >= 3
                                   /\ Cardinality(At(w, Hand)) >= 2
<1> DEFINE Starts == {c \in Positions(Hand) :
                         \E i \in After(Hand, c) : \E j \in After(Hand, i) :
                             Same(Hand, c, i) /\ Same(Hand, i, j)}
<1>1. Len(Hand) \in Nat /\ \A v : At(v, Hand) \in SUBSET (1..Len(Hand))
  BY DEF At
<1>2. ASSUME NEW c \in Starts
      PROVE  Hand[c].value \in Values /\ Cardinality(At(Hand[c].value, Hand)) >= 3
  <2>1. PICK i \in After(Hand, c) : \E j \in After(Hand, i) :
           Same(Hand, c, i) /\ Same(Hand, i, j)
    OBVIOUS
  <2>2. PICK j \in After(Hand, i) : Same(Hand, c, i) /\ Same(Hand, i, j)
    BY <2>1
  <2>3. c \in 1..Len(Hand) /\ i \in 1..Len(Hand) /\ j \in 1..Len(Hand) /\ c < i /\ i < j
    BY <1>1 DEF Positions, After
  <2>4. /\ c \in At(Hand[c].value, Hand) /\ i \in At(Hand[c].value, Hand)
        /\ j \in At(Hand[c].value, Hand)
    BY <2>2, <2>3 DEF At, Same
  <2>5. Cardinality(At(Hand[c].value, Hand)) >= 3
    BY <1>1, <2>3, <2>4, ThreeOrMore
  <2>6. Hand[c].value \in Values
    BY <2>3, HandFacts
  <2> QED
    BY <2>5, <2>6
<1>3. ASSUME NEW v, Cardinality(At(v, Hand)) >= 3 PROVE Starts # {}
  <2>1. PICK c, i, j \in At(v, Hand) : c < i /\ i < j
    BY <1>1, <1>3, ThreeOrMore
  <2>2. c \in Positions(Hand) /\ i \in After(Hand, c) /\ j \in After(Hand, i)
    BY <1>1, <2>1 DEF At, Positions, After
  <2>3. Same(Hand, c, i) /\ Same(Hand, i, j)
    BY DEF At, Same
  <2> QED
    BY <2>2, <2>3
<1>4. isFullHouse(Hand) <=>
         \E three \in Starts :
            /\ \A c \in Starts : three <= c
            /\ \E c \in Positions(Hand) : \E i \in After(Hand, c) :
                  Same(Hand, c, i) /\ ~Same(Hand, c, three)
  BY DEF isFullHouse
<1>5. Starts \in SUBSET Nat
  BY DEF Positions
<1> HIDE DEF Starts
<1>6. ASSUME isFullHouse(Hand)
      PROVE  \E v, w \in Values : /\ v # w
                                  /\ Cardinality(At(v, Hand)) >= 3
                                  /\ Cardinality(At(w, Hand)) >= 2
  <2>1. PICK three \in Starts : \E c \in Positions(Hand) : \E i \in After(Hand, c) :
           Same(Hand, c, i) /\ ~Same(Hand, c, three)
    BY <1>4, <1>6
  <2>2. PICK c \in Positions(Hand) : \E i \in After(Hand, c) :
           Same(Hand, c, i) /\ ~Same(Hand, c, three)
    BY <2>1
  <2>3. PICK i \in After(Hand, c) : Same(Hand, c, i) /\ ~Same(Hand, c, three)
    BY <2>2
  <2>4. c \in 1..Len(Hand) /\ i \in 1..Len(Hand) /\ c < i
    BY <1>1 DEF Positions, After
  <2>5. c \in At(Hand[c].value, Hand) /\ i \in At(Hand[c].value, Hand)
    BY <2>3, <2>4 DEF At, Same
  <2>6. Hand[c].value \in Values /\ Cardinality(At(Hand[c].value, Hand)) >= 2
    <3>1. Hand[c].value \in Values
      BY <2>4, HandFacts
    <3>2. Cardinality(At(Hand[c].value, Hand)) >= 2
      BY <1>1, <2>4, <2>5, TwoOrMore
    <3> QED
      BY <3>1, <3>2
  <2>7. Hand[three].value # Hand[c].value
    BY <2>3 DEF Same
  <2> QED
    BY <1>2, <2>6, <2>7
<1>7. ASSUME NEW v \in Values, NEW w \in Values, v # w,
             Cardinality(At(v, Hand)) >= 3, Cardinality(At(w, Hand)) >= 2
      PROVE  isFullHouse(Hand)
  <2>1. PICK three \in Starts : \A c \in Starts : three <= c
    <3>1. Starts # {}
      BY <1>3, <1>7
    <3> QED
      BY <1>5, <3>1, LeastNat
  <2>2. Hand[three].value = v
    <3>1. Cardinality(At(Hand[three].value, Hand)) >= 3
      BY <1>2
    <3>2. Cardinality(At(Hand[three].value, Hand)) \in Nat /\ Cardinality(At(v, Hand)) \in Nat
      BY AtFacts
    <3>3. Hand[three].value # v =>
             Cardinality(At(Hand[three].value, Hand)) + Cardinality(At(v, Hand)) <= 5
      BY TwoValues
    <3> QED
      BY <1>7, <3>1, <3>2, <3>3
  <2>3. PICK p \in Pairs(Hand) : Hand[p[1]].value = w
    BY <1>7, PairOf
  <2>4. /\ p[1] \in Positions(Hand) /\ p[2] \in After(Hand, p[1])
        /\ Same(Hand, p[1], p[2]) /\ ~Same(Hand, p[1], three)
    <3>1. p[1] \in Positions(Hand) /\ p[2] \in Positions(Hand) /\ p[1] < p[2]
          /\ Same(Hand, p[1], p[2])
      BY DEF Pairs
    <3>2. p[2] \in After(Hand, p[1])
      BY <1>1, <3>1 DEF Positions, After
    <3>3. ~Same(Hand, p[1], three)
      BY <1>7, <2>2, <2>3 DEF Same
    <3> QED
      BY <3>1, <3>2, <3>3
  <2> QED
    BY <1>4, <2>1, <2>4
<1> QED
  BY <1>6, <1>7

(* A finite set of one element, and of two.                                *)
LEMMA OneOrTwo ==
    ASSUME NEW T, IsFiniteSet(T)
    PROVE  /\ Cardinality(T) = 1 <=> \E x \in T : \A y \in T : y = x
           /\ Cardinality(T) = 2 => \E x, y \in T : x # y
           /\ \A x, y \in T : (x # y /\ \A z \in T : z = x \/ z = y) => Cardinality(T) = 2
<1>1. Cardinality(T) = 1 <=> \E x : T = {x}
  BY FS_Singleton
<1>2. (\E x : T = {x}) <=> \E x \in T : \A y \in T : y = x
  OBVIOUS
<1>3. ASSUME Cardinality(T) = 2 PROVE \E x, y \in T : x # y
  <2>1. Cardinality({}) = 0
    BY FS_EmptySet
  <2>2. T # {}
    BY <1>3, <2>1
  <2>3. ~ \E x \in T : \A y \in T : y = x
    BY <1>1, <1>2, <1>3
  <2> QED
    BY <2>2, <2>3
<1>4. ASSUME NEW x \in T, NEW y \in T, x # y, \A z \in T : z = x \/ z = y
      PROVE  Cardinality(T) = 2
  <2>1. T = {x} \cup {y}
    BY <1>4
  <2>2. IsFiniteSet({x}) /\ Cardinality({x}) = 1
    BY FS_Singleton
  <2>3. Cardinality({x} \cup {y}) = Cardinality({x}) + 1
    BY <1>4, <2>2, FS_AddElement
  <2> QED
    BY <2>1, <2>2, <2>3
<1> QED
  BY <1>1, <1>2, <1>3, <1>4
-----------------------------------------------------------------------------
(* The values that occur n times, as ValuesTimes counts them.              *)
Times(n) == {v \in Values : Count(v) = n}

(* Count and ValuesTimes, in the terms of the lemmas above.                *)
LEMMA CountFacts ==
    ASSUME assessed \in Seq(Deck)
    PROVE  /\ \A v : Count(v) = Cardinality(At(v, assessed)) /\ Count(v) \in Nat
           /\ \A v : Count(v) <= Len(assessed)
           /\ \A n : IsFiniteSet(Times(n)) /\ ValuesTimes(n) = Cardinality(Times(n))
<1>1. \A v : Count(v) = Cardinality(At(v, assessed))
  BY DEF Count, At, Places
<1>2. \A v : Cardinality(At(v, assessed)) \in Nat
  BY AtFacts
<1>3. ASSUME NEW v PROVE Cardinality(At(v, assessed)) <= Len(assessed)
  <2>1. At(v, assessed) \in SUBSET (1..Len(assessed)) /\ Len(assessed) \in Nat
    BY DEF At
  <2> QED
    BY <2>1, CountPositions, FS_Subset
<1>4. ASSUME NEW n PROVE IsFiniteSet(Times(n)) /\ ValuesTimes(n) = Cardinality(Times(n))
  <2>1. Times(n) \in SUBSET (1..14)
    BY HandAssumption DEF Times, ACE, ACE_HIGH
  <2>2. IsFiniteSet(1..14)
    BY CountPositions
  <2>3. IsFiniteSet(Times(n))
    BY <2>1, <2>2, FS_Subset
  <2> QED
    BY <2>3 DEF ValuesTimes, Times
<1> QED
  BY <1>1, <1>2, <1>3, <1>4

(* isFlush: one suit in the whole array.                                   *)
LEMMA FlushIsOneSuit ==
    ASSUME assessed \in Seq(Deck), Len(assessed) # 0
    PROVE  isFlush(assessed) <=> OneSuit
<1> DEFINE T == {assessed[i].suit : i \in 1..Len(assessed)}
<1>1. Len(assessed) \in Nat /\ 1 \in 1..Len(assessed)
  OBVIOUS
<1>2. IsFiniteSet(T)
  <2>1. \A i \in 1..Len(assessed) : assessed[i].suit \in InSuits
    BY DeckFacts
  <2>2. InSuits \in SUBSET (0..3)
    BY HandAssumption DEF Suits, HEARTS, DIAMONDS, CLUBS, SPADES
  <2>3. T \in SUBSET (0..3)
    BY <2>1, <2>2
  <2>4. 0 \in Int /\ 3 \in Int
    OBVIOUS
  <2>5. IsFiniteSet(0..3)
    BY <2>4, FS_Interval
  <2> QED
    BY <2>3, <2>5, FS_Subset
<1>3. OneSuit <=> \E x \in T : \A y \in T : y = x
  <2>1. OneSuit <=> Cardinality(T) = 1
    BY DEF OneSuit, Places
  <2> HIDE DEF T
  <2> QED
    BY <1>2, <2>1, OneOrTwo
<1>4. (\E x \in T : \A y \in T : y = x) <=>
         \A i \in 1..Len(assessed) : assessed[i].suit = assessed[1].suit
  <2>1. assessed[1].suit \in T /\ \A i \in 1..Len(assessed) : assessed[i].suit \in T
    BY <1>1
  <2>2. \A y \in T : \E i \in 1..Len(assessed) : y = assessed[i].suit
    OBVIOUS
  <2> HIDE DEF T
  <2> QED
    BY <2>1, <2>2
<1> QED
  BY <1>3, <1>4 DEF isFlush, Positions

(* As many values occurring once as there are cards: all are distinct.     *)
LEMMA DistinctByCount ==
    ASSUME assessed \in Seq(Deck)
    PROVE  Distinct(assessed) <=> ValuesTimes(1) = Len(assessed)
<1> DEFINE n    == Len(assessed)
           Seen == {assessed[i].value : i \in 1..n}
           f    == [i \in 1..n |-> assessed[i].value]
<1>1. n \in Nat /\ IsFiniteSet(1..n) /\ Cardinality(1..n) = n
  BY CountPositions
<1>2. f \in Surjection(1..n, Seen)
  BY DEF Surjection
<1>3. /\ IsFiniteSet(Seen) /\ Cardinality(Seen) <= n
      /\ Cardinality(Seen) = n <=> f \in Injection(1..n, Seen)
  BY <1>1, <1>2, FS_Surjection
<1>4. f \in Injection(1..n, Seen) <=> Distinct(assessed)
  <2>1. f \in [1..n -> Seen] /\ DOMAIN f = 1..n
    OBVIOUS
  <2>2. (\A a, b \in 1..n : f[a] = f[b] => a = b) <=> Distinct(assessed)
    BY DEF Distinct
  <2> QED
    BY <2>1, <2>2 DEF Injection, IsInjective
<1>5. Times(1) \in SUBSET Seen
  <2> SUFFICES ASSUME NEW v \in Times(1) PROVE v \in Seen
    OBVIOUS
  <2>1. Cardinality(At(v, assessed)) > 0
    <3>1. Count(v) = 1 /\ Count(v) = Cardinality(At(v, assessed))
      BY CountFacts DEF Times
    <3> QED
      BY <3>1
  <2>2. Len(assessed) \in Nat /\ At(v, assessed) \in SUBSET (1..Len(assessed))
    BY HandFacts DEF At
  <2>3. At(v, assessed) # {}
    BY <2>1, <2>2, Peel
  <2> QED
    BY <2>3 DEF At
<1>6. ASSUME Distinct(assessed) PROVE Times(1) = Seen
  <2> SUFFICES ASSUME NEW i \in 1..n PROVE assessed[i].value \in Times(1)
    BY <1>5
  <2>1. At(assessed[i].value, assessed) = {i}
    BY <1>6 DEF At, Distinct
  <2>2. Cardinality(At(assessed[i].value, assessed)) = 1
    BY <2>1, FS_Singleton
  <2> QED
    BY <2>2, CountFacts, HandFacts DEF Times
<1>7. ValuesTimes(1) = Cardinality(Times(1)) /\ Cardinality(Times(1)) \in Nat
  BY CountFacts, FS_CardinalityType
<1> HIDE DEF n, Seen, f
<1>8. Cardinality(Seen) \in Nat /\ Cardinality(Times(1)) <= Cardinality(Seen)
  BY <1>3, <1>5, FS_Subset, FS_CardinalityType
<1>9. Cardinality(Times(1)) = n => Cardinality(Seen) = n
  BY <1>1, <1>3, <1>7, <1>8
<1> QED
  BY <1>3, <1>4, <1>6, <1>7, <1>9 DEF n

(* isStraight: a run of distinct values.                                   *)
LEMMA StraightIsRun ==
    ASSUME assessed \in Seq(Deck)
    PROVE  isStraight(assessed) <=> RunAsMade
<1>1. RunAsMade => isStraight(assessed)
  BY DistinctByCount, DistinctIsStraight DEF RunAsMade, Places
<1>2. ASSUME isStraight(assessed) PROVE RunAsMade
  <2>1. /\ Distinct(assessed)
        /\ \A i \in 1..Len(assessed) : assessed[i].value <= Lowest(assessed) + Len(assessed) - 1
    BY <1>2, StraightIsDistinct
  <2>2. ASSUME NEW i \in 1..Len(assessed), NEW j \in 1..Len(assessed)
        PROVE  assessed[i].value - assessed[j].value < Len(assessed)
    <3>1. /\ assessed[i].value \in Nat /\ assessed[j].value \in Nat /\ Len(assessed) \in Nat
          /\ Lowest(assessed) \in Nat /\ Lowest(assessed) <= assessed[j].value
      BY HandFacts, LowestFacts
    <3> QED
      BY <2>1, <3>1
  <2> QED
    BY <2>1, <2>2, DistinctByCount DEF RunAsMade, Places
<1> QED
  BY <1>1, <1>2

(* What the counts of five cards can be: they add up to five at most.      *)
LEMMA FiveCounts ==
    ASSUME assessed \in Seq(Deck), Len(assessed) = 5
    PROVE  /\ \A v : Count(v) \in 0..5 /\ (Count(v) > 0 => v \in Values)
           /\ \A v, w : v # w => Count(v) + Count(w) <= 5
           /\ \A u, v, w : (u # v /\ u # w /\ v # w) => Count(u) + Count(v) + Count(w) <= 5
<1>1. \A v : Count(v) = Cardinality(At(v, assessed)) /\ Count(v) \in Nat /\ Count(v) <= 5
  BY CountFacts
<1>2. \A v : Count(v) > 0 => v \in Values
  BY <1>1, AtFacts
<1>3. \A v, w : v # w => Count(v) + Count(w) <= 5
  BY <1>1, TwoValues
<1>4. \A u, v, w : (u # v /\ u # w /\ v # w) => Count(u) + Count(v) + Count(w) <= 5
  <2> SUFFICES ASSUME NEW u, NEW v, NEW w, u # v, u # w, v # w
               PROVE  Count(u) + Count(v) + Count(w) <= 5
    OBVIOUS
  <2>1. Cardinality(At(u, assessed)) + Cardinality(At(v, assessed)) + Cardinality(At(w, assessed))
           <= Len(assessed)
    BY ThreeValues
  <2>2. /\ Count(u) = Cardinality(At(u, assessed))
        /\ Count(v) = Cardinality(At(v, assessed))
        /\ Count(w) = Cardinality(At(w, assessed))
    BY <1>1
  <2> QED
    BY <2>1, <2>2
<1> QED
  BY <1>1, <1>2, <1>3, <1>4

(* One value, and no other, occurs n times.                                *)
LEMMA TimesOne ==
    ASSUME assessed \in Seq(Deck), NEW n
    PROVE  ValuesTimes(n) = 1 <=>
              \E v \in Values : Count(v) = n /\ \A w \in Values : Count(w) = n => w = v
<1>1. IsFiniteSet(Times(n)) /\ ValuesTimes(n) = Cardinality(Times(n))
  BY CountFacts
<1>2. ValuesTimes(n) = 1 <=> \E v \in Times(n) : \A w \in Times(n) : w = v
  BY <1>1, OneOrTwo
<1> QED
  BY <1>2 DEF Times

(* The kinds of the rules are those the methods find, in the order of the  *)
(* if-else chain.                                                          *)
LEMMA KindsByMethods ==
    ASSUME assessed \in Seq(Deck), Len(assessed) = 5
    PROVE  /\ ValuesTimes(5) = 1 <=> isFiveOfAKind(assessed)
           /\ ValuesTimes(4) = 1 <=> isFourOfAKind(assessed) /\ ~isFiveOfAKind(assessed)
           /\ ValuesTimes(3) = 1 <=> isThreeOfAKind(assessed) /\ ~isFourOfAKind(assessed)
           /\ (ValuesTimes(3) = 1 /\ ValuesTimes(2) = 1) <=> isFullHouse(assessed)
           /\ ValuesTimes(2) = 2 => TwoValuesTwice(assessed)
           /\ TwoValuesTwice(assessed) /\ ~isThreeOfAKind(assessed) => ValuesTimes(2) = 2
           /\ ValuesTimes(2) = 1 => isOnePair(assessed)
           /\ (isOnePair(assessed) /\ ~isThreeOfAKind(assessed) /\ ~TwoValuesTwice(assessed)) =>
                 ValuesTimes(2) = 1
<1>1. /\ \A v : Count(v) \in 0..5
      /\ \A v, w : v # w => Count(v) + Count(w) <= 5
      /\ \A u, v, w : (u # v /\ u # w /\ v # w) => Count(u) + Count(v) + Count(w) <= 5
  BY FiveCounts
<1>2. /\ isOnePair(assessed)      <=> \E v \in Values : Count(v) >= 2
      /\ isThreeOfAKind(assessed) <=> \E v \in Values : Count(v) >= 3
      /\ isFourOfAKind(assessed)  <=> \E v \in Values : Count(v) >= 4
      /\ isFiveOfAKind(assessed)  <=> \E v \in Values : Count(v) >= 5
  BY CountFacts, OfAKind
<1>3. TwoValuesTwice(assessed) <=>
         \E v, w \in Values : v # w /\ Count(v) >= 2 /\ Count(w) >= 2
  BY CountFacts DEF TwoValuesTwice
<1>4. isFullHouse(assessed) <=>
         \E v, w \in Values : v # w /\ Count(v) >= 3 /\ Count(w) >= 2
  BY CountFacts, FullHouseCounts
<1>5. ASSUME NEW n \in 3..5
      PROVE  ValuesTimes(n) = 1 <=> \E v \in Values : Count(v) = n
  <2>1. \A v, w \in Values : Count(v) = n /\ Count(w) = n => w = v
    BY <1>1
  <2> QED
    BY <2>1, TimesOne
<1>6. ValuesTimes(5) = 1 <=> isFiveOfAKind(assessed)
  <2>1. ValuesTimes(5) = 1 <=> \E v \in Values : Count(v) = 5
    BY <1>5
  <2> QED
    BY <1>1, <1>2, <2>1
<1>7. ValuesTimes(4) = 1 <=> isFourOfAKind(assessed) /\ ~isFiveOfAKind(assessed)
  <2>1. ValuesTimes(4) = 1 <=> \E v \in Values : Count(v) = 4
    BY <1>5
  <2>2. ASSUME NEW v \in Values, Count(v) = 4
        PROVE  isFourOfAKind(assessed) /\ ~isFiveOfAKind(assessed)
    <3>1. \A w \in Values : ~(Count(w) >= 5)
      BY <1>1, <2>2
    <3> QED
      BY <1>2, <2>2, <3>1
  <2>3. ASSUME isFourOfAKind(assessed), ~isFiveOfAKind(assessed)
        PROVE  \E v \in Values : Count(v) = 4
    BY <1>1, <1>2, <2>3
  <2> QED
    BY <2>1, <2>2, <2>3
<1>8. ValuesTimes(3) = 1 <=> isThreeOfAKind(assessed) /\ ~isFourOfAKind(assessed)
  <2>1. ValuesTimes(3) = 1 <=> \E v \in Values : Count(v) = 3
    BY <1>5
  <2>2. ASSUME NEW v \in Values, Count(v) = 3
        PROVE  isThreeOfAKind(assessed) /\ ~isFourOfAKind(assessed)
    <3>1. \A w \in Values : ~(Count(w) >= 4)
      BY <1>1, <2>2
    <3> QED
      BY <1>2, <2>2, <3>1
  <2>3. ASSUME isThreeOfAKind(assessed), ~isFourOfAKind(assessed)
        PROVE  \E v \in Values : Count(v) = 3
    BY <1>1, <1>2, <2>3
  <2> QED
    BY <2>1, <2>2, <2>3
<1>9. ASSUME ValuesTimes(3) = 1, ValuesTimes(2) = 1 PROVE isFullHouse(assessed)
  <2>1. PICK v \in Values : Count(v) = 3
    BY <1>9, TimesOne
  <2>2. PICK w \in Values : Count(w) = 2
    BY <1>9, TimesOne
  <2>3. v # w /\ Count(v) >= 3 /\ Count(w) >= 2
    BY <2>1, <2>2
  <2> QED
    BY <1>4, <2>3
<1>10. ASSUME isFullHouse(assessed) PROVE ValuesTimes(3) = 1 /\ ValuesTimes(2) = 1
  <2>1. PICK v \in Values, w \in Values : v # w /\ Count(v) >= 3 /\ Count(w) >= 2
    BY <1>4, <1>10
  <2>2. Count(v) = 3 /\ Count(w) = 2
    BY <1>1, <2>1
  <2>3. \A u \in Values : Count(u) = 2 => u = w
    <3> SUFFICES ASSUME NEW u \in Values, Count(u) = 2, u # w PROVE FALSE
      OBVIOUS
    <3>1. u # v
      BY <2>2
    <3>2. Count(u) + Count(v) + Count(w) <= 5
      BY <1>1, <2>1, <3>1
    <3> QED
      BY <2>2, <3>2
  <2>4. ValuesTimes(3) = 1
    <3>1. ValuesTimes(3) = 1 <=> \E x \in Values : Count(x) = 3
      BY <1>5
    <3> QED
      BY <2>2, <3>1
  <2>5. ValuesTimes(2) = 1
    BY <2>2, <2>3, TimesOne
  <2> QED
    BY <2>4, <2>5
<1>11. IsFiniteSet(Times(2)) /\ ValuesTimes(2) = Cardinality(Times(2))
  BY CountFacts
<1>12. ASSUME ValuesTimes(2) = 2 PROVE TwoValuesTwice(assessed)
  <2>1. PICK v, w \in Times(2) : v # w
    BY <1>11, <1>12, OneOrTwo
  <2>2. v \in Values /\ w \in Values /\ Count(v) = 2 /\ Count(w) = 2
    BY DEF Times
  <2>3. Count(v) >= 2 /\ Count(w) >= 2
    BY <2>2
  <2> QED
    BY <1>3, <2>1, <2>2, <2>3
<1>13. ASSUME TwoValuesTwice(assessed), ~isThreeOfAKind(assessed) PROVE ValuesTimes(2) = 2
  <2>1. PICK v \in Values, w \in Values : v # w /\ Count(v) >= 2 /\ Count(w) >= 2
    BY <1>3, <1>13
  <2>2. Count(v) = 2 /\ Count(w) = 2
    BY <1>1, <1>2, <1>13, <2>1
  <2>3. \A u \in Values : Count(u) = 2 => u = v \/ u = w
    <3> SUFFICES ASSUME NEW u \in Values, Count(u) = 2, u # v, u # w PROVE FALSE
      OBVIOUS
    <3>1. Count(u) + Count(v) + Count(w) <= 5
      BY <1>1, <2>1
    <3> QED
      BY <2>2, <3>1
  <2>4. v \in Times(2) /\ w \in Times(2) /\ \A u \in Times(2) : u = v \/ u = w
    BY <2>2, <2>3 DEF Times
  <2>5. Cardinality(Times(2)) = 2
    BY <1>11, <2>1, <2>4, OneOrTwo
  <2> QED
    BY <1>11, <2>5
<1>14. ASSUME ValuesTimes(2) = 1 PROVE isOnePair(assessed)
  <2>1. PICK v \in Values : Count(v) = 2
    BY <1>14, TimesOne
  <2>2. Count(v) >= 2
    BY <2>1
  <2> QED
    BY <1>2, <2>2
<1>15. ASSUME isOnePair(assessed), ~isThreeOfAKind(assessed), ~TwoValuesTwice(assessed)
       PROVE  ValuesTimes(2) = 1
  <2>1. PICK v \in Values : Count(v) >= 2
    BY <1>2, <1>15
  <2>2. Count(v) = 2
    BY <1>1, <1>2, <1>15, <2>1
  <2>3. \A w \in Values : Count(w) = 2 => w = v
    <3> SUFFICES ASSUME NEW w \in Values, Count(w) = 2, w # v PROVE FALSE
      OBVIOUS
    <3>1. Count(w) >= 2
      OBVIOUS
    <3> QED
      BY <1>3, <1>15, <2>1, <3>1
  <2> QED
    BY <2>2, <2>3, TimesOne
<1> QED
  BY <1>6, <1>7, <1>8, <1>9, <1>10, <1>12, <1>13, <1>14, <1>15

(* determineRank's if-else chain stops at the best of the kinds.           *)
LEMMA RankIsBestKind ==
    ASSUME assessed \in Seq(Deck), Len(assessed) = 5, ~RunAtOtherEnd
    PROVE  determineRank(assessed) = RankByRules
<1> USE DEF FiveOfAKind, StraightFlush, FourOfAKind, FullHouse, Flush, Straight,
            ThreeOfAKind, TwoPair, OnePair, HighCard
<1> DEFINE r == determineRank(assessed)
<1>1. /\ 0 \in Kinds <=> ValuesTimes(5) = 1
      /\ 1 \in Kinds <=> Run /\ OneSuit
      /\ 2 \in Kinds <=> ValuesTimes(4) = 1
      /\ 3 \in Kinds <=> ValuesTimes(3) = 1 /\ ValuesTimes(2) = 1
      /\ 4 \in Kinds <=> OneSuit
  BY DEF Kinds, Ranks
<1>2. /\ 5 \in Kinds <=> Run
      /\ 6 \in Kinds <=> ValuesTimes(3) = 1
      /\ 7 \in Kinds <=> ValuesTimes(2) = 2
      /\ 8 \in Kinds <=> ValuesTimes(2) = 1
      /\ 9 \in Kinds
  BY DEF Kinds, Ranks
<1>3. Kinds \in SUBSET (0..9)
  BY DEF Kinds, Ranks
<1>4. isStraight(assessed) <=> Run
  BY StraightIsRun DEF Run
<1>5. isFlush(assessed) <=> OneSuit
  BY FlushIsOneSuit
<1>6. isTwoPair(assessed) <=> TwoValuesTwice(assessed) \/ isFourOfAKind(assessed)
  BY TwoPairCounts
<1>7. /\ isFiveOfAKind(assessed) => isFourOfAKind(assessed)
      /\ isFourOfAKind(assessed) => isThreeOfAKind(assessed)
      /\ isThreeOfAKind(assessed) => isOnePair(assessed)
      /\ isTwoPair(assessed) => isOnePair(assessed)
  BY Inclusive
<1>8. /\ 0 \in Kinds <=> isFiveOfAKind(assessed)
      /\ 1 \in Kinds <=> isStraightFlush(assessed)
      /\ 2 \in Kinds <=> isFourOfAKind(assessed) /\ ~isFiveOfAKind(assessed)
      /\ 3 \in Kinds <=> isFullHouse(assessed)
      /\ 4 \in Kinds <=> isFlush(assessed)
      /\ 5 \in Kinds <=> isStraight(assessed)
      /\ 6 \in Kinds <=> isThreeOfAKind(assessed) /\ ~isFourOfAKind(assessed)
  BY <1>1, <1>2, <1>4, <1>5, KindsByMethods DEF isStraightFlush
<1>9. /\ 7 \in Kinds => isTwoPair(assessed)
      /\ isTwoPair(assessed) /\ ~isThreeOfAKind(assessed) => 7 \in Kinds
      /\ 8 \in Kinds => isOnePair(assessed)
      /\ isOnePair(assessed) /\ ~isThreeOfAKind(assessed) /\ ~isTwoPair(assessed) => 8 \in Kinds
  BY <1>2, <1>6, <1>7, KindsByMethods
<1>10. r \in Kinds
  BY <1>2, <1>7, <1>8, <1>9 DEF determineRank
<1>11. ASSUME NEW k \in Kinds PROVE r <= k
  <2>1. k \in {0, 1, 2, 3, 4, 5, 6, 7, 8, 9}
    BY <1>3
  <2>2. CASE k \in {0, 1, 2, 3, 4}
    BY <1>7, <1>8, <2>2 DEF determineRank
  <2>3. CASE k \in {5, 6, 7}
    BY <1>7, <1>8, <1>9, <2>3 DEF determineRank
  <2>4. CASE k \in {8, 9}
    BY <1>7, <1>8, <1>9, <2>4 DEF determineRank
  <2> QED
    BY <2>1, <2>2, <2>3, <2>4
<1>12. Kinds \in SUBSET Nat /\ Kinds # {}
  BY <1>2, <1>3
<1>13. Min(Kinds) \in Kinds /\ \A k \in Kinds : Min(Kinds) <= k
  BY <1>12, MinNat
<1> HIDE DEF r
<1>14. \A k \in Kinds : k \in Nat
  BY <1>12
<1> HIDE DEF Kinds
<1>15. PICK m \in Kinds : m = Min(Kinds) /\ \A k \in Kinds : m <= k
  BY <1>13
<1>16. r \in Nat /\ m \in Nat /\ r <= m /\ m <= r
  BY <1>10, <1>11, <1>14, <1>15
<1>17. r = m
  BY <1>16
<1> QED
  BY <1>15, <1>17 DEF r, RankByRules

(* A run that needs the ace at the other end is not one as it was made,    *)
(* and its values are distinct.                                            *)
LEMMA OtherEndIsNoRun ==
    ASSUME assessed \in Seq(Deck), Len(assessed) = 5, RunAtOtherEnd
    PROVE  ~isStraight(assessed) /\ ~isOnePair(assessed)
<1> USE DEF ACE, ACE_HIGH, Places
<1>1. \A i \in 1..5 : assessed[i].value \in Nat
  BY HandFacts
<1>2. PICK k \in 1..5 :
         /\ assessed[k].value \in {1, 14}
         /\ \A i, j \in 1..5 : i # j =>
               Turned(k)[i] # Turned(k)[j] /\ Turned(k)[i] - Turned(k)[j] < 5
  BY DEF RunAtOtherEnd
<1>3. /\ \A i \in 1..5 : i # k => Turned(k)[i] = assessed[i].value
      /\ Turned(k)[k] = IF assessed[k].value = 1 THEN 14 ELSE 1
  BY DEF Turned
<1>4. ASSUME NEW i \in 1..5, i # k
      PROVE  /\ assessed[k].value = 1 => assessed[i].value >= 10
             /\ assessed[k].value = 14 => assessed[i].value <= 5
  <2>1. Turned(k)[i] = assessed[i].value
    BY <1>3, <1>4
  <2>2. Turned(k)[k] - Turned(k)[i] < 5 /\ Turned(k)[i] - Turned(k)[k] < 5
    BY <1>2, <1>4
  <2>3. assessed[k].value = 1 => Turned(k)[k] = 14
    BY <1>3
  <2>4. assessed[k].value = 14 => Turned(k)[k] = 1
    BY <1>3
  <2>5. assessed[i].value \in Nat
    BY <1>1
  <2> QED
    BY <2>1, <2>2, <2>3, <2>4, <2>5
<1>5. ASSUME NEW i \in 1..5, NEW j \in 1..5, i # j
      PROVE  assessed[i].value # assessed[j].value
  <2>1. CASE i # k /\ j # k
    BY <1>2, <1>3, <1>5, <2>1
  <2>2. CASE i = k
    BY <1>1, <1>2, <1>4, <1>5, <2>2
  <2>3. CASE j = k
    BY <1>1, <1>2, <1>4, <1>5, <2>3
  <2> QED
    BY <2>1, <2>2, <2>3
<1>6. ~isOnePair(assessed)
  BY <1>5 DEF isOnePair, Positions, After, Same
<1>7. ASSUME isStraight(assessed) PROVE FALSE
  <2>1. \A i, j \in 1..5 : assessed[i].value - assessed[j].value < 5
    BY <1>7, StraightIsRun DEF RunAsMade
  <2>2. PICK i \in 1..5 : i # k
    <3>1. 1 \in 1..5 /\ 2 \in 1..5 /\ 1 # 2
      OBVIOUS
    <3> QED
      BY <3>1
  <2>3. assessed[i].value - assessed[k].value < 5 /\ assessed[k].value - assessed[i].value < 5
    BY <2>1
  <2>4. /\ assessed[k].value = 1 => assessed[i].value >= 10
        /\ assessed[k].value = 14 => assessed[i].value <= 5
    BY <1>4, <2>2
  <2>5. assessed[k].value \in {1, 14} /\ assessed[i].value \in Nat
    BY <1>1, <1>2
  <2> QED
    BY <2>3, <2>4, <2>5
<1> QED
  BY <1>6, <1>7

(* determineRank finds nothing in such a hand but its suit.                *)
LEMMA OtherEndRank ==
    ASSUME assessed \in Seq(Deck), Len(assessed) = 5, RunAtOtherEnd
    PROVE  determineRank(assessed) = IF OneSuit THEN Flush ELSE HighCard
<1>1. ~isStraight(assessed) /\ ~isOnePair(assessed)
  BY OtherEndIsNoRun
<1>2. /\ isFiveOfAKind(assessed) => isFourOfAKind(assessed)
      /\ isFourOfAKind(assessed) => isThreeOfAKind(assessed)
      /\ isFullHouse(assessed) => isThreeOfAKind(assessed)
      /\ isThreeOfAKind(assessed) => isOnePair(assessed)
      /\ isTwoPair(assessed) => isOnePair(assessed)
  BY Inclusive
<1>3. isFlush(assessed) <=> OneSuit
  BY FlushIsOneSuit
<1> QED
  BY <1>1, <1>2, <1>3 DEF determineRank, isStraightFlush

(* Hand.java ranks five cards as the rules of poker do, whatever the       *)
(* cards, their order in the array and the changes made since, but for a   *)
(* run that needs the ace at the end it was not made for.  The rules are   *)
(* those of five cards, as many as Hand.java is made for.                  *)
THEOREM RankFollowsRulesHolds == HandSize = 5 => (Spec => []RankFollowsRules)
<1> SUFFICES ASSUME HandSize = 5 PROVE Spec => []RankFollowsRules
  OBVIOUS
<1>1. ASSUME IInv PROVE RankFollowsRules
  <2> SUFFICES ASSUME built
               PROVE  Rank = IF RunAtOtherEnd THEN IF OneSuit THEN Flush ELSE HighCard
                             ELSE RankByRules
    BY DEF RankFollowsRules
  <2>1. assessed \in Seq(Deck) /\ Len(assessed) = 5 /\ Rank = determineRank(assessed)
    BY <1>1 DEF IInv, TypeOK
  <2> QED
    BY <2>1, RankIsBestKind, OtherEndRank
<1> QED
  BY <1>1, Invariance, PTL
=============================================================================
