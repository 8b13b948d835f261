----------------------------- MODULE HandObject -----------------------------
(***************************************************************************)
(* The Hand object of Hand.java over its life.  Its caller builds an array *)
(* of cards, makes a Hand of it, and goes on using the cards and the       *)
(* setters: the Hand keeps the caller's array, not a copy of it, and a     *)
(* setter of a card does not tell the Hand.                                *)
(***************************************************************************)
EXTENDS PokerHand

CONSTANTS
    Values,      \* the card values in play
    InSuits,     \* the suits in play
    HandSize,    \* the length of the array (5)
    Editable,    \* the positions whose card the caller changes later on
    NewValues,   \* the values it sets there
    MaxEdits     \* bound on the changes made after the Hand was built

ASSUME HandAssumption ==
    /\ Values \subseteq ACE..ACE_HIGH
    /\ InSuits \subseteq Suits
    /\ HandSize \in Nat \ {0}
    /\ Editable \subseteq 1..HandSize /\ NewValues \subseteq Values
    /\ MaxEdits \in Nat

VARIABLES
    Cards,     \* the array, which the caller and the Hand share
    built,     \* the constructor has run
    Rank,      \* the field Rank; 0 in an object that is not yet constructed
    edits,     \* the changes made to a card since Rank was determined
    \* history: no action reads it
    assessed   \* the cards as they were when Rank was determined

vars == <<Cards, built, Rank, edits, assessed>>

Deck == {Card(v, s) : v \in Values, s \in InSuits}

TypeOK == /\ Cards \in Seq(Deck)
          /\ Len(Cards) <= HandSize
          /\ built \in BOOLEAN
          /\ Rank \in Ranks
          /\ edits \in 0..MaxEdits
          /\ assessed \in Seq(Deck)

Init == Cards = <<>> /\ built = FALSE /\ Rank = 0 /\ edits = 0 /\ assessed = <<>>

(* A mutation of PutCard: the loop goes one past the end of the array.     *)
PutCard_OnePast(c) ==
    /\ ~built /\ Len(Cards) <= HandSize
    /\ Cards' = Append(Cards, c)
    /\ UNCHANGED <<built, Rank, edits, assessed>>

(* The caller puts the next card in its array.                             *)
PutCard(c) ==
    /\ ~built /\ Len(Cards) < HandSize
    /\ Cards' = Append(Cards, c)
    /\ UNCHANGED <<built, Rank, edits, assessed>>

(* new Hand(cards)                                                         *)
NewHand ==
    /\ ~built /\ Len(Cards) = HandSize
    /\ built' = TRUE
    /\ Rank' = determineRank(Cards) /\ assessed' = Cards
    /\ UNCHANGED <<Cards, edits>>

(* Cards[i].setValue(v)                                                    *)
setValue(i, v) ==
    /\ built /\ edits < MaxEdits
    /\ Cards' = [Cards EXCEPT ![i].value = v]
    /\ edits' = edits + 1
    /\ UNCHANGED <<built, Rank, assessed>>

(* Cards[i].setSuit(s)                                                     *)
setSuit(i, s) ==
    /\ built /\ edits < MaxEdits
    /\ Cards' = [Cards EXCEPT ![i].suit = s]
    /\ edits' = edits + 1
    /\ UNCHANGED <<built, Rank, assessed>>

(* setCards(cards), with the array the caller has been changing; another   *)
(* array leads to the state that new Hand makes of it.                     *)
setCards ==
    /\ built
    /\ Rank' = determineRank(Cards) /\ assessed' = Cards
    /\ edits' = 0
    /\ UNCHANGED <<Cards, built>>

Next == \/ \E c \in Deck : PutCard(c)
        \/ NewHand
        \/ \E i \in Editable, v \in NewValues : setValue(i, v)
        \/ \E i \in Editable, s \in InSuits : setSuit(i, s)
        \/ setCards

Spec == Init /\ [][Next]_vars
-----------------------------------------------------------------------------
(* The rules of poker, by how often each value occurs.                     *)

Places == 1..Len(assessed)

Count(v) == Cardinality({i \in Places : assessed[i].value = v})

ValuesTimes(n) == Cardinality({v \in Values : Count(v) = n})

OneSuit == Cardinality({assessed[i].suit : i \in Places}) = 1

(* All values distinct, and none further than HandSize - 1 from another.   *)
RunAsMade ==
    /\ ValuesTimes(1) = Len(assessed)
    /\ \A i, j \in Places : assessed[i].value - assessed[j].value < Len(assessed)

(* The values if the ace at position k stood at the other end.             *)
Turned(k) ==
    [i \in Places |-> IF i # k THEN assessed[i].value
                      ELSE IF assessed[k].value = ACE THEN ACE_HIGH ELSE ACE]

RunAtOtherEnd ==
    \E k \in Places :
        /\ assessed[k].value \in {ACE, ACE_HIGH}
        /\ LET t == Turned(k)
           IN  \A i, j \in Places : i # j => t[i] # t[j] /\ t[i] - t[j] < Len(assessed)

(* An ace is below the two or above the king.                              *)
Run == RunAsMade \/ RunAtOtherEnd

(* The kinds of hand the cards are, exactly; the best one counts.          *)
Kinds ==
    {r \in Ranks :
        \/ r = FiveOfAKind   /\ ValuesTimes(5) = 1
        \/ r = StraightFlush /\ Run /\ OneSuit
        \/ r = FourOfAKind   /\ ValuesTimes(4) = 1
        \/ r = FullHouse     /\ ValuesTimes(3) = 1 /\ ValuesTimes(2) = 1
        \/ r = Flush         /\ OneSuit
        \/ r = Straight      /\ Run
        \/ r = ThreeOfAKind  /\ ValuesTimes(3) = 1
        \/ r = TwoPair       /\ ValuesTimes(2) = 2
        \/ r = OnePair       /\ ValuesTimes(2) = 1
        \/ r = HighCard}

RankByRules == Min(Kinds)

(* Rank is the rank by the rules of poker of the cards as they were when   *)
(* the constructor or setCards last looked at them, in whatever order they *)
(* lie in the array and whatever the caller did to them afterwards.  One   *)
(* hand is the exception: an ace counts only at the end its constant       *)
(* stands for ("You must decide ahead of time whether Aces will be high or *)
(* low"), so that a run which needs it at the other end is a flush or      *)
(* nothing.  Hand_test.java expects such a run to be a straight.           *)
RankFollowsRules ==
    built => Rank = IF RunAtOtherEnd THEN IF OneSuit THEN Flush ELSE HighCard
                    ELSE RankByRules

(* "The following methods determine if a hand classifies at that type of   *)
(* hand INCLUSIVELY", "for use on any array of Card objects": an array of  *)
(* any length that is a better hand by its own method is also each lesser  *)
(* hand it contains, and a straight holds no pair.                         *)
PredicatesInclusive ==
    ~built =>
        /\ isFiveOfAKind(Cards)  => isFourOfAKind(Cards)
        /\ isFourOfAKind(Cards)  => isThreeOfAKind(Cards) /\ isTwoPair(Cards)
        /\ isFullHouse(Cards)    => isThreeOfAKind(Cards) /\ isTwoPair(Cards)
        /\ isThreeOfAKind(Cards) => isOnePair(Cards)
        /\ isTwoPair(Cards)      => isOnePair(Cards)
        /\ isStraight(Cards)     => ~isOnePair(Cards)
=============================================================================
