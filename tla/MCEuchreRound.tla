--------------------------- MODULE MCEuchreRound ---------------------------
(* EuchreRound for TLC: a number, the jack and the ace of each suit.       *)
EXTENDS EuchreRound

MCValues == {10, JACK, ACE_HIGH}
=============================================================================
