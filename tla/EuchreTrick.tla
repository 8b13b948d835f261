---------------------------- MODULE EuchreTrick ----------------------------
(***************************************************************************)
(* Euchre.java: which card of a trick wins.  A trick is the sequence of    *)
(* cards in the order they were marked; the first one is the led card.     *)
(*                                                                         *)
(* Positions are those of a TLA+ sequence: the Java index c is position    *)
(* c + 1 here.                                                             *)
(***************************************************************************)
EXTENDS PlayingCard, Sequences, SequencesExt

(* A mutation of partnerSuit: hearts and clubs swapped.                    *)
partnerSuit_Miscoloured(inputSuit) ==
    CASE inputSuit = SPADES   -> HEARTS
      [] inputSuit = HEARTS   -> SPADES
      [] inputSuit = CLUBS    -> DIAMONDS
      [] inputSuit = DIAMONDS -> CLUBS
      [] OTHER                -> -1

(* The suit of the same colour; -1 for a byte that is no suit.             *)
partnerSuit(inputSuit) ==
    CASE inputSuit = SPADES   -> CLUBS
      [] inputSuit = CLUBS    -> SPADES
      [] inputSuit = HEARTS   -> DIAMONDS
      [] inputSuit = DIAMONDS -> HEARTS
      [] OTHER                -> -1

(* The first jack of a suit in the trick, 0 if there is none: the loops    *)
(* that look for the right and for the left bower.                         *)
FirstJackOf(suit, Trick) ==
    SelectInSeq(Trick, LAMBDA c : c.suit = suit /\ c.value = JACK)

(* The loop that walks the trick and keeps the highest card of a suit,     *)
(* starting from position first and replacing it only by a strictly higher *)
(* card.                                                                   *)
HighestOf(suit, first, Trick) ==
    LET high[c \in 0..Len(Trick)] ==
            IF c = 0 THEN first
            ELSE IF Trick[c].suit = suit /\ Trick[c].value > Trick[high[c - 1]].value
                 THEN c
                 ELSE high[c - 1]
    IN  high[Len(Trick)]

(* A mutation of trickWinner: the led card is taken to be the last one.    *)
trickWinner_LedByLast(Trick, trumpSuit) ==
    LET bower == FirstJackOf(trumpSuit, Trick)
        left  == FirstJackOf(partnerSuit(trumpSuit), Trick)
        trump == SelectInSeq(Trick, LAMBDA c : c.suit = trumpSuit)
    IN  IF bower > 0 THEN bower
   ELSE IF left > 0  THEN left
   ELSE IF trump > 0 THEN HighestOf(trumpSuit, trump, Trick)
   ELSE HighestOf(Last(Trick).suit, Len(Trick), Trick)

(* Euchre.trickWinner: the right bower, else the left bower, else the      *)
(* highest trump, else the highest card of the led suit.  The array is     *)
(* assumed non-empty: Trick[0] is read when there is no trump.             *)
trickWinner(Trick, trumpSuit) ==
    LET right      == FirstJackOf(trumpSuit, Trick)
        left       == FirstJackOf(partnerSuit(trumpSuit), Trick)
        firstTrump == SelectInSeq(Trick, LAMBDA c : c.suit = trumpSuit)
    IN  IF right > 0      THEN right
   ELSE IF left > 0       THEN left
   ELSE IF firstTrump > 0 THEN HighestOf(trumpSuit, firstTrump, Trick)
   ELSE HighestOf(Trick[1].suit, 1, Trick)

=============================================================================
