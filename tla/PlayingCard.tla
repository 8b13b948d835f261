---------------------------- MODULE PlayingCard ----------------------------
(***************************************************************************)
(* The playing cards of hand_determination/Card.java: a value byte and a   *)
(* suit byte, with named constants for the special values.  Numbered cards *)
(* go by their number; an ace is ACE when aces are low and ACE_HIGH when   *)
(* they are high.                                                          *)
(***************************************************************************)
EXTENDS Integers

HEARTS   == 0
DIAMONDS == 1
CLUBS    == 2
SPADES   == 3
Suits    == {HEARTS, DIAMONDS, CLUBS, SPADES}

ACE      == 1
JACK     == 11
QUEEN    == 12
KING     == 13
ACE_HIGH == 14

(* new Card(Value, Suit). The constructor checks nothing: the activity     *)
(* starts with the value and suit bytes at -1.                             *)
Card(Value, Suit) == [value |-> Value, suit |-> Suit]

(* Card.toString: both aces are written alike, and a suit outside the four *)
(* constants leaves no name behind (here -1).                              *)
toString(c) ==
    [value |-> IF c.value = ACE_HIGH THEN ACE ELSE c.value,
     suit  |-> IF c.suit \in Suits THEN c.suit ELSE -1]

=============================================================================
