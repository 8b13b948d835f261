---------------------------- MODULE MCHandObject ----------------------------
(* HandObject for TLC: the nine to the king and the low ace, in two suits. *)
EXTENDS HandObject

MCValues  == {ACE, 9, 10, JACK, QUEEN, KING}
MCInSuits == {HEARTS, SPADES}
=============================================================================
