----------------------------- MODULE PokerHand -----------------------------
(***************************************************************************)
(* Hand.java: what kind of poker hand an array of cards is.  The loops     *)
(* over increasing indices c < i < j < ... become quantifiers over         *)
(* increasing positions of the sequence Hand.                              *)
(***************************************************************************)
EXTENDS PlayingCard, Sequences, FiniteSets, FiniteSetsExt

FiveOfAKind   == 0
StraightFlush == 1
FourOfAKind   == 2
FullHouse     == 3
Flush         == 4
Straight      == 5
ThreeOfAKind  == 6
TwoPair       == 7
OnePair       == 8
HighCard      == 9
Ranks         == FiveOfAKind..HighCard

Positions(Hand) == 1..Len(Hand)

(* Where an inner loop goes: for (int i = c + 1; i < Hand.length; i++)     *)
After(Hand, c) == (c + 1)..Len(Hand)

Same(Hand, c, i) == Hand[c].value = Hand[i].value

isFiveOfAKind(Hand) ==
    \E c \in Positions(Hand) : \E i \in After(Hand, c) : \E j \in After(Hand, i) :
    \E k \in After(Hand, j) : \E l \in After(Hand, k) :
        Same(Hand, c, i) /\ Same(Hand, i, j) /\ Same(Hand, j, k) /\ Same(Hand, k, l)

isFourOfAKind(Hand) ==
    \E c \in Positions(Hand) : \E i \in After(Hand, c) : \E j \in After(Hand, i) :
    \E k \in After(Hand, j) :
        Same(Hand, c, i) /\ Same(Hand, i, j) /\ Same(Hand, j, k)

isThreeOfAKind(Hand) ==
    \E c \in Positions(Hand) : \E i \in After(Hand, c) : \E j \in After(Hand, i) :
        Same(Hand, c, i) /\ Same(Hand, i, j)

isOnePair(Hand) ==
    \E c \in Positions(Hand) : \E i \in After(Hand, c) : Same(Hand, c, i)

(* A mutation of isFullHouse: the pair may lie within the three.           *)
isFullHouse_PairInThree(Hand) == isThreeOfAKind(Hand) /\ isOnePair(Hand)

(* The value of the first three of a kind, and a pair of another value.    *)
isFullHouse(Hand) ==
    LET Starts == {c \in Positions(Hand) :
                      \E i \in After(Hand, c) : \E j \in After(Hand, i) :
                          Same(Hand, c, i) /\ Same(Hand, i, j)}
    IN  \E three \in Starts :
           /\ \A c \in Starts : three <= c
           /\ \E c \in Positions(Hand) : \E i \in After(Hand, c) :
                 Same(Hand, c, i) /\ ~Same(Hand, c, three)

(* The pairs <<c, i>>, and the order in which the two loops meet them.     *)
Pairs(Hand) ==
    {p \in Positions(Hand) \X Positions(Hand) : p[1] < p[2] /\ Same(Hand, p[1], p[2])}

Earlier(p, q) == p[1] < q[1] \/ (p[1] = q[1] /\ p[2] < q[2])

(* A mutation of isTwoPair: the two pairs must differ in value.            *)
isTwoPair_OfTwoValues(Hand) ==
    \E p, q \in Pairs(Hand) : ~Same(Hand, p[1], q[1])

(* The first pair is kept; any later pair that shares no position with it  *)
(* makes two.                                                              *)
isTwoPair(Hand) ==
    \E first \in Pairs(Hand) :
        /\ \A q \in Pairs(Hand) : q = first \/ Earlier(first, q)
        /\ \E p \in Pairs(Hand) : {first[1], first[2]} \cap {p[1], p[2]} = {}

isFlush(Hand) == \A c \in Positions(Hand) : Hand[c].suit = Hand[1].suit

(* The lowest value, by a loop that starts at 15, above every card.        *)
Lowest(Hand) == Min({Hand[c].value : c \in Positions(Hand)} \cup {15})

(* One card of each of Len(Hand) consecutive values.                       *)
isStraight(Hand) ==
    \A c \in 0..(Len(Hand) - 1) :
        \E i \in Positions(Hand) : Hand[i].value = Lowest(Hand) + c

isStraightFlush(Hand) == isStraight(Hand) /\ isFlush(Hand)

(* The if-else chain, best hand first.                                     *)
determineRank(Hand) ==
    IF isFiveOfAKind(Hand)        THEN FiveOfAKind
    ELSE IF isStraightFlush(Hand) THEN StraightFlush
    ELSE IF isFourOfAKind(Hand)   THEN FourOfAKind
    ELSE IF isFullHouse(Hand)     THEN FullHouse
    ELSE IF isFlush(Hand)         THEN Flush
    ELSE IF isStraight(Hand)      THEN Straight
    ELSE IF isThreeOfAKind(Hand)  THEN ThreeOfAKind
    ELSE IF isTwoPair(Hand)       THEN TwoPair
    ELSE IF isOnePair(Hand)       THEN OnePair
    ELSE HighCard

=============================================================================
