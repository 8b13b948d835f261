---------------------------- MODULE EuchreRound ----------------------------
(***************************************************************************)
(* One euchre trick after another, card by card: the array that the Submit *)
(* handler fills in the order in which the cards were marked, judged by    *)
(* Euchre.trickWinner after every card.  The same card may be marked twice *)
(* (nothing in the activity prevents it).                                  *)
(***************************************************************************)
EXTENDS EuchreTrick

CONSTANTS
    Values,      \* the card values in play
    TrickSize    \* how many cards a trick holds at most

ASSUME RoundAssumption == Values \subseteq 1..ACE_HIGH /\ TrickSize \in Nat

VARIABLES
    trick,       \* the array trick[0..counter-1] of the Submit handler
    trumpSuit    \* the suit that was chosen as trump

vars == <<trick, trumpSuit>>

Deck == {Card(v, s) : v \in Values, s \in Suits}

TypeOK == /\ trick \in Seq(Deck)
          /\ Len(trick) <= TrickSize
          /\ trumpSuit \in Suits

Init == trick = <<>> /\ trumpSuit \in Suits

(* A mutation of Play: the loop goes one past the end of the array.        *)
Play_OnePast(c) == /\ Len(trick) <= TrickSize
                   /\ trick' = Append(trick, c)
                   /\ UNCHANGED trumpSuit

(* trick[counter] = cardTypes.get(c); counter++                            *)
Play(c) == /\ Len(trick) < TrickSize
           /\ trick' = Append(trick, c)
           /\ UNCHANGED trumpSuit

(* new Card[trackingCards.size()], under a trump chosen meanwhile.         *)
NewTrick == /\ trick # <<>>
            /\ trick' = <<>>
            /\ trumpSuit' \in Suits

Next == NewTrick \/ \E c \in Deck : Play(c)

Spec == Init /\ [][Next]_vars
-----------------------------------------------------------------------------
(* The rules of euchre, stated without the loops of trickWinner.           *)

IsRightBower(c) == c.value = JACK /\ c.suit = trumpSuit
IsLeftBower(c)  == /\ c.value = JACK
                   /\ c.suit # trumpSuit
                   /\ {c.suit, trumpSuit} \in {{HEARTS, DIAMONDS}, {CLUBS, SPADES}}

(* The left bower belongs to the trump suit, also when it is led.          *)
EffectiveSuit(c) == IF IsLeftBower(c) THEN trumpSuit ELSE c.suit

(* How strong a card is in a trick opened by led: bowers over trumps over  *)
(* the led suit over everything else.                                      *)
Strength(c, led) ==
    IF IsRightBower(c)                             THEN 3 * ACE_HIGH + 1
    ELSE IF IsLeftBower(c)                         THEN 3 * ACE_HIGH
    ELSE IF EffectiveSuit(c) = trumpSuit           THEN ACE_HIGH + c.value
    ELSE IF EffectiveSuit(c) = EffectiveSuit(led)  THEN c.value
    ELSE 0

(* Euchre.trickWinner names the strongest card of the trick by the rules   *)
(* of euchre, the earliest one if the same card was marked twice.          *)
WinnerIsStrongest ==
    trick # <<>> =>
        LET w    == trickWinner(trick, trumpSuit)
            S(i) == Strength(trick[i], trick[1])
        IN  /\ w \in 1..Len(trick)
            /\ \A i \in 1..Len(trick) : S(i) <= S(w) /\ (i < w => S(i) < S(w))

(* One more card either takes the trick itself or leaves the winner where  *)
(* it was: it never hands the trick to another card that already lies.     *)
LaterCardTakesOrLoses ==
    [][trick # <<>> /\ trick' # <<>> =>
          trickWinner(trick', trumpSuit') \in {trickWinner(trick, trumpSuit), Len(trick')}]_vars

=============================================================================
