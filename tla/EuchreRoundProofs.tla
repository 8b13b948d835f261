------------------------- MODULE EuchreRoundProofs -------------------------
(***************************************************************************)
(* Proofs about EuchreRound, for every set of values and every length of   *)
(* a trick: Euchre.trickWinner finds the card that wins by the rules.      *)
(*                                                                         *)
(* The loop of trickWinner that keeps the highest card of a suit is a      *)
(* recursive function of the model.  That the function exists, and that    *)
(* after c cards it names the earliest highest one among them, is shown by *)
(* induction on c in the form of LeastNat: no first c can be wrong.        *)
(***************************************************************************)
EXTENDS EuchreRound, LeastElement

(* The bytes of the cards in play.                                         *)
LEMMA DeckFacts ==
    ASSUME NEW c \in Deck
    PROVE  /\ c.value \in 1..ACE_HIGH
           /\ c.suit \in Suits
  BY RoundAssumption DEF Deck, Card

(* One pass of the loop after another: where h[c] is the position that the *)
(* loop keeps after c cards.                                               *)
Walk(h, suit, first, Trick, n) ==
    [c \in 0..n |->
        IF c = 0 THEN first
        ELSE IF Trick[c].suit = suit /\ Trick[c].value > Trick[h[c - 1]].value
             THEN c
             ELSE h[c - 1]]

(* What the loop keeps after n cards decides what it keeps after n + 1.    *)
LEMMA WalkExtends ==
    ASSUME NEW suit, NEW first, NEW Trick, NEW n \in Nat,
           NEW g, g = Walk(g, suit, first, Trick, n)
    PROVE  \E h : h = Walk(h, suit, first, Trick, n + 1)
<1> DEFINE e == IF Trick[n + 1].suit = suit /\ Trick[n + 1].value > Trick[g[n]].value
                THEN n + 1
                ELSE g[n]
           h == [c \in 0..(n + 1) |-> IF c = n + 1 THEN e ELSE g[c]]
<1>1. \A c \in 0..n : h[c] = g[c]
  OBVIOUS
<1>2. h[n + 1] = e
  OBVIOUS
<1>3. ASSUME NEW c \in 0..(n + 1)
      PROVE  h[c] = Walk(h, suit, first, Trick, n + 1)[c]
  <2>1. CASE c = n + 1
    <3>1. (n + 1) - 1 = n /\ n + 1 # 0 /\ h[n] = g[n] /\ n + 1 \in 0..(n + 1)
      BY <1>1
    <3> HIDE DEF h
    <3>2. Walk(h, suit, first, Trick, n + 1)[n + 1] =
              IF Trick[n + 1].suit = suit /\ Trick[n + 1].value > Trick[h[n]].value
              THEN n + 1
              ELSE h[n]
      BY <3>1 DEF Walk
    <3> QED
      BY <1>2, <2>1, <3>1, <3>2
  <2>2. CASE c # n + 1
    <3>1. c \in 0..n /\ (c # 0 => c - 1 \in 0..n)
      BY <2>2
    <3>2. g[c] = IF c = 0 THEN first
                 ELSE IF Trick[c].suit = suit /\ Trick[c].value > Trick[g[c - 1]].value
                      THEN c
                      ELSE g[c - 1]
      BY <3>1 DEF Walk
    <3> QED
      BY <1>1, <3>1, <3>2 DEF Walk
  <2> QED
    BY <2>1, <2>2
<1>4. h = Walk(h, suit, first, Trick, n + 1)
  <2> HIDE DEF e
  <2>1. DOMAIN Walk(h, suit, first, Trick, n + 1) = 0..(n + 1)
    BY DEF Walk
  <2>2. Walk(h, suit, first, Trick, n + 1) = 
        [c \in 0..(n + 1) |-> Walk(h, suit, first, Trick, n + 1)[c]]
    BY DEF Walk
  <2> QED
    BY <1>3, <2>2
<1> HIDE DEF h
<1> QED
  BY <1>4

(* The recursive function of HighestOf exists, whatever the trick.         *)
LEMMA WalkExists ==
    ASSUME NEW suit, NEW first, NEW Trick
    PROVE  \A n \in Nat : \E h : h = Walk(h, suit, first, Trick, n)
<1> DEFINE Bad == {n \in Nat : ~ \E h : h = Walk(h, suit, first, Trick, n)}
<1>1. SUFFICES ASSUME Bad # {} PROVE FALSE
  OBVIOUS
<1>2. PICK n \in Bad : \A m \in Bad : n <= m
  <2>1. Bad \in SUBSET Nat
    OBVIOUS
  <2> HIDE DEF Bad
  <2> QED
    BY <1>1, <2>1, LeastNat
<1>3. n # 0
  <2> DEFINE h == [c \in 0..0 |-> first]
  <2>1. h = Walk(h, suit, first, Trick, 0)
    BY DEF Walk
  <2> HIDE DEF h
  <2>2. 0 \notin Bad
    BY <2>1
  <2> QED
    BY <1>2, <2>2
<1>4. n - 1 \in Nat /\ n - 1 \notin Bad
  BY <1>2, <1>3
<1>5. PICK g : g = Walk(g, suit, first, Trick, n - 1)
  BY <1>4
<1>6. \E h : h = Walk(h, suit, first, Trick, (n - 1) + 1)
  BY <1>4, <1>5, WalkExtends
<1> QED
  BY <1>4, <1>6

(* HighestOf is what such a function gives after the last card.            *)
LEMMA HighestOfWalk ==
    ASSUME NEW suit, NEW first, NEW Trick, Len(Trick) \in Nat
    PROVE  \E h : /\ h = Walk(h, suit, first, Trick, Len(Trick))
                  /\ HighestOf(suit, first, Trick) = h[Len(Trick)]
<1>1. \E h : h = Walk(h, suit, first, Trick, Len(Trick))
  BY WalkExists
<1> QED
  BY <1>1 DEF HighestOf, Walk

(* Position w holds a card of the suit, at least as high as every card of  *)
(* the suit among the first c, and higher than every earlier one.          *)
Leads(w, suit, Trick, c) ==
    /\ w \in 1..Len(Trick)
    /\ Trick[w].suit = suit
    /\ \A i \in 1..c : Trick[i].suit = suit => Trick[i].value <= Trick[w].value
    /\ \A i \in 1..Len(Trick) :
          (Trick[i].suit = suit /\ i < w) => Trick[i].value < Trick[w].value

(* The loop of trickWinner returns the earliest highest card of a suit,    *)
(* when it starts from the first card of that suit.                        *)
LEMMA HighestOfLeads ==
    ASSUME NEW Trick \in Seq(Deck), NEW suit, NEW first \in 1..Len(Trick),
           Trick[first].suit = suit,
           \A i \in 1..(first - 1) : Trick[i].suit # suit
    PROVE  Leads(HighestOf(suit, first, Trick), suit, Trick, Len(Trick))
<1> DEFINE n == Len(Trick)
<1>1. n \in Nat /\ \A i \in 1..n : Trick[i].value \in Int
  BY DeckFacts DEF ACE_HIGH
<1>2. PICK h : h = Walk(h, suit, first, Trick, n) /\ HighestOf(suit, first, Trick) = h[n]
  BY <1>1, HighestOfWalk
<1> HIDE DEF n
<1>3. h[0] = first
  BY <1>1, <1>2 DEF Walk
<1>4. ASSUME NEW c \in 1..n
      PROVE  h[c] = IF Trick[c].suit = suit /\ Trick[c].value > Trick[h[c - 1]].value
                    THEN c
                    ELSE h[c - 1]
  <2>1. c \in 0..n /\ c # 0
    BY <1>1
  <2>2. Walk(h, suit, first, Trick, n)[c] =
            IF Trick[c].suit = suit /\ Trick[c].value > Trick[h[c - 1]].value
            THEN c
            ELSE h[c - 1]
    BY <2>1 DEF Walk
  <2> QED
    BY <1>2, <2>2
<1>5. Leads(h[0], suit, Trick, 0)
  BY <1>1, <1>3 DEF Leads, n
<1>6. ASSUME NEW c \in 1..n, Leads(h[c - 1], suit, Trick, c - 1)
      PROVE  Leads(h[c], suit, Trick, c)
  <2>1. CASE Trick[c].suit = suit /\ Trick[c].value > Trick[h[c - 1]].value
    <3>1. h[c] = c
      BY <1>4, <2>1
    <3>2. ASSUME NEW i \in 1..n, Trick[i].suit = suit, i < c
          PROVE  Trick[i].value < Trick[c].value
      <4>1. i \in 1..(c - 1) /\ h[c - 1] \in 1..n
        BY <1>1, <1>6, <3>2 DEF Leads, n
      <4>2. Trick[i].value <= Trick[h[c - 1]].value
        BY <1>6, <3>2, <4>1 DEF Leads
      <4> QED
        BY <1>1, <2>1, <4>1, <4>2
    <3>3. ASSUME NEW i \in 1..c, Trick[i].suit = suit
          PROVE  Trick[i].value <= Trick[c].value
      <4>1. i = c \/ i < c
        BY <1>1
      <4> QED
        BY <1>1, <3>2, <3>3, <4>1
    <3> QED
      BY <2>1, <3>1, <3>2, <3>3 DEF Leads, n
  <2>2. CASE ~(Trick[c].suit = suit /\ Trick[c].value > Trick[h[c - 1]].value)
    <3>1. h[c] = h[c - 1]
      BY <1>4, <2>2
    <3>2. ASSUME NEW i \in 1..c, Trick[i].suit = suit
          PROVE  Trick[i].value <= Trick[h[c - 1]].value
      <4>1. i = c \/ i \in 1..(c - 1)
        BY <1>1
      <4>2. h[c - 1] \in 1..n
        BY <1>6 DEF Leads, n
      <4> QED
        BY <1>1, <1>6, <2>2, <3>2, <4>1, <4>2 DEF Leads
    <3> QED
      BY <1>6, <3>1, <3>2 DEF Leads
  <2> QED
    BY <2>1, <2>2
<1>7. Leads(h[n], suit, Trick, n)
  <2> DEFINE Bad == {c \in 0..n : ~Leads(h[c], suit, Trick, c)}
  <2>1. SUFFICES ASSUME Bad # {} PROVE FALSE
    BY <1>1
  <2>2. PICK c \in Bad : \A m \in Bad : c <= m
    <3>1. Bad \in SUBSET Nat
      BY <1>1
    <3> HIDE DEF Bad
    <3> QED
      BY <2>1, <3>1, LeastNat
  <2>3. c \in 1..n
    BY <1>1, <1>5, <2>2
  <2>4. c - 1 \in 0..n /\ c - 1 \notin Bad
    BY <1>1, <2>2, <2>3
  <2> QED
    BY <1>6, <2>2, <2>3, <2>4
<1> QED
  BY <1>2, <1>7 DEF n

(* The positions of the jacks of a suit, and of all its cards.             *)
JacksOf(suit, Trick) == {i \in 1..Len(Trick) : Trick[i].suit = suit /\ Trick[i].value = JACK}
CardsOf(suit, Trick) == {i \in 1..Len(Trick) : Trick[i].suit = suit}

(* Which of the four loops of trickWinner decides, and what it returns.    *)
LEMMA WinnerCases ==
    ASSUME NEW Trick \in Seq(Deck), NEW trump
    PROVE  LET w       == trickWinner(Trick, trump)
               rights  == JacksOf(trump, Trick)
               lefts   == JacksOf(partnerSuit(trump), Trick)
               trumps  == CardsOf(trump, Trick)
           IN  /\ rights # {} => w = Min(rights)
               /\ (rights = {} /\ lefts # {}) => w = Min(lefts)
               /\ (rights = {} /\ lefts = {} /\ trumps # {}) =>
                     w = HighestOf(trump, Min(trumps), Trick)
               /\ (rights = {} /\ lefts = {} /\ trumps = {}) =>
                     w = HighestOf(Trick[1].suit, 1, Trick)
<1> DEFINE rights == JacksOf(trump, Trick)
           lefts  == JacksOf(partnerSuit(trump), Trick)
           trumps == CardsOf(trump, Trick)
           FirstAt(I) == IF I # {} THEN Min(I) ELSE 0
<1>1. FirstJackOf(trump, Trick) = FirstAt(rights)
  BY DEF FirstJackOf, SelectInSeq, JacksOf
<1>2. FirstJackOf(partnerSuit(trump), Trick) = FirstAt(lefts)
  BY DEF FirstJackOf, SelectInSeq, JacksOf
<1>3. SelectInSeq(Trick, LAMBDA c : c.suit = trump) = FirstAt(trumps)
  BY DEF SelectInSeq, CardsOf
<1>4. trickWinner(Trick, trump) =
         IF FirstAt(rights) > 0 THEN FirstAt(rights)
         ELSE IF FirstAt(lefts) > 0 THEN FirstAt(lefts)
         ELSE IF FirstAt(trumps) > 0 THEN HighestOf(trump, FirstAt(trumps), Trick)
         ELSE HighestOf(Trick[1].suit, 1, Trick)
  BY <1>1, <1>2, <1>3 DEF trickWinner
<1>5. ASSUME NEW I \in SUBSET (1..Len(Trick))
      PROVE  /\ I # {} => FirstAt(I) = Min(I) /\ FirstAt(I) > 0
             /\ I = {} => ~(FirstAt(I) > 0)
  <2>1. CASE I # {}
    <3>1. I \in SUBSET Nat /\ \A i \in I : i > 0
      OBVIOUS
    <3>2. Min(I) \in I
      BY <2>1, <3>1, MinNat
    <3> QED
      BY <2>1, <3>1, <3>2
  <2> QED
    BY <2>1
<1>6. /\ rights \in SUBSET (1..Len(Trick))
      /\ lefts \in SUBSET (1..Len(Trick))
      /\ trumps \in SUBSET (1..Len(Trick))
  BY DEF JacksOf, CardsOf
<1> HIDE DEF rights, lefts, trumps, FirstAt
<1>7. /\ rights # {} => trickWinner(Trick, trump) = Min(rights)
      /\ (rights = {} /\ lefts # {}) => trickWinner(Trick, trump) = Min(lefts)
      /\ (rights = {} /\ lefts = {} /\ trumps # {}) =>
            trickWinner(Trick, trump) = HighestOf(trump, Min(trumps), Trick)
      /\ (rights = {} /\ lefts = {} /\ trumps = {}) =>
            trickWinner(Trick, trump) = HighestOf(Trick[1].suit, 1, Trick)
  BY <1>4, <1>5, <1>6
<1> QED
  BY <1>7 DEF rights, lefts, trumps

(* The left bower of the rules is the jack of trickWinner's partnerSuit.   *)
LEMMA LeftBower ==
    ASSUME NEW c, c.suit \in Suits, trumpSuit \in Suits
    PROVE  IsLeftBower(c) <=> c.value = JACK /\ c.suit = partnerSuit(trumpSuit)
  BY DEF IsLeftBower, partnerSuit, Suits, HEARTS, DIAMONDS, CLUBS, SPADES

(* Partners differ, and both are suits.                                    *)
LEMMA PartnerSuit ==
    ASSUME NEW s \in Suits
    PROVE  partnerSuit(s) \in Suits /\ partnerSuit(s) # s
  BY DEF partnerSuit, Suits, HEARTS, DIAMONDS, CLUBS, SPADES

(* How strong the cards are that trickWinner tells apart.                  *)
LEMMA StrengthFacts ==
    ASSUME trumpSuit \in Suits, NEW c \in Deck, NEW led \in Deck
    PROVE  LET right == c.value = JACK /\ c.suit = trumpSuit
               left  == c.value = JACK /\ c.suit = partnerSuit(trumpSuit)
               S     == Strength(c, led)
           IN  /\ right => S = 43
               /\ left => S = 42
               /\ (~right /\ c.suit = trumpSuit) => S = 14 + c.value
               /\ (~right /\ ~left /\ c.suit # trumpSuit) => S \in Nat /\ S <= 14
               /\ (~right /\ ~left) => S \in Nat /\ S <= 28
<1> DEFINE right == c.value = JACK /\ c.suit = trumpSuit
           left  == c.value = JACK /\ c.suit = partnerSuit(trumpSuit)
           S     == Strength(c, led)
<1>1. /\ IsRightBower(c) <=> right
      /\ IsLeftBower(c) <=> left
      /\ c.value \in 1..14
      /\ c.suit \in Suits
      /\ ~(right /\ left)
  BY DeckFacts, LeftBower, PartnerSuit DEF IsRightBower, ACE_HIGH
<1>2. right => S = 43
  BY <1>1 DEF Strength, ACE_HIGH
<1>3. left => S = 42
  BY <1>1 DEF Strength, ACE_HIGH
<1>4. (~right /\ c.suit = trumpSuit) => S = 14 + c.value
  <2>1. ~left \/ c.suit # trumpSuit
    BY PartnerSuit
  <2> QED
    BY <1>1, <2>1 DEF Strength, EffectiveSuit, ACE_HIGH
<1>5. (~right /\ ~left /\ c.suit # trumpSuit) => S \in Nat /\ S <= 14
  BY <1>1 DEF Strength, EffectiveSuit, ACE_HIGH
<1>6. (~right /\ ~left) => S \in Nat /\ S <= 28
  BY <1>1, <1>4, <1>5
<1> QED
  BY <1>2, <1>3, <1>4, <1>5, <1>6

(* Without bowers and trumps the led suit decides.                         *)
LEMMA PlainStrength ==
    ASSUME trumpSuit \in Suits, NEW c \in Deck, NEW led \in Deck,
           c.suit # trumpSuit, led.suit # trumpSuit,
           ~(c.value = JACK /\ c.suit = partnerSuit(trumpSuit)),
           ~(led.value = JACK /\ led.suit = partnerSuit(trumpSuit))
    PROVE  Strength(c, led) = IF c.suit = led.suit THEN c.value ELSE 0
<1>1. ~IsRightBower(c) /\ ~IsLeftBower(c) /\ ~IsLeftBower(led)
  BY DeckFacts, LeftBower DEF IsRightBower
<1> QED
  BY <1>1 DEF Strength, EffectiveSuit

(* In every trick of cards, trickWinner names the earliest strongest one.  *)
LEMMA StrongestWins == TypeOK => WinnerIsStrongest
<1> SUFFICES ASSUME TypeOK, trick # <<>>
             PROVE  LET w    == trickWinner(trick, trumpSuit)
                        S(i) == Strength(trick[i], trick[1])
                    IN  /\ w \in 1..Len(trick)
                        /\ \A i \in 1..Len(trick) : S(i) <= S(w) /\ (i < w => S(i) < S(w))
  BY DEF WinnerIsStrongest
<1> DEFINE n       == Len(trick)
           w       == trickWinner(trick, trumpSuit)
           S(i)    == Strength(trick[i], trick[1])
           partner == partnerSuit(trumpSuit)
           rights  == JacksOf(trumpSuit, trick)
           lefts   == JacksOf(partner, trick)
           trumps  == CardsOf(trumpSuit, trick)
<1>1. /\ n \in Nat /\ 1 \in 1..n
      /\ \A i \in 1..n : /\ trick[i] \in Deck
                         /\ trick[i].value \in Nat /\ trick[i].value >= 1
      /\ trumpSuit \in Suits
  <2>1. n \in Nat /\ 1 \in 1..n /\ trumpSuit \in Suits
    BY DEF TypeOK
  <2>2. ASSUME NEW i \in 1..n PROVE trick[i] \in Deck
    BY DEF TypeOK
  <2>3. ASSUME NEW i \in 1..n PROVE trick[i].value \in Nat /\ trick[i].value >= 1
    BY <2>2, DeckFacts DEF ACE_HIGH
  <2> QED
    BY <2>1, <2>2, <2>3
<1>2. trick \in Seq(Deck)
  BY DEF TypeOK
<1>3. /\ rights # {} => w = Min(rights)
      /\ (rights = {} /\ lefts # {}) => w = Min(lefts)
      /\ (rights = {} /\ lefts = {} /\ trumps # {}) =>
            w = HighestOf(trumpSuit, Min(trumps), trick)
      /\ (rights = {} /\ lefts = {} /\ trumps = {}) =>
            w = HighestOf(trick[1].suit, 1, trick)
  BY <1>2, WinnerCases
<1>4. ASSUME NEW i \in 1..n
      PROVE  /\ i \in rights => S(i) = 43
             /\ i \in lefts => S(i) = 42
             /\ (i \notin rights /\ i \in trumps) => S(i) = 14 + trick[i].value
             /\ (i \notin rights /\ i \notin lefts /\ i \notin trumps) => S(i) \in Nat /\ S(i) <= 14
             /\ (i \notin rights /\ i \notin lefts) => S(i) \in Nat /\ S(i) <= 28
  <2>1. trick[i] \in Deck /\ trick[1] \in Deck /\ trumpSuit \in Suits
    BY <1>1
  <2> QED
    BY <2>1, StrengthFacts DEF JacksOf, CardsOf
<1>5. /\ rights \in SUBSET (1..n)
      /\ lefts \in SUBSET (1..n)
      /\ trumps \in SUBSET (1..n)
  BY DEF JacksOf, CardsOf
<1>6. \A I \in SUBSET (1..n) : I # {} => Min(I) \in I /\ \A i \in I : Min(I) <= i
  <2> SUFFICES ASSUME NEW I \in SUBSET (1..n), I # {}
               PROVE  Min(I) \in I /\ \A i \in I : Min(I) <= i
    OBVIOUS
  <2>1. I \in SUBSET Nat
    OBVIOUS
  <2> QED
    BY <2>1, MinNat
<1> SUFFICES w \in 1..n /\ \A i \in 1..n : S(i) <= S(w) /\ (i < w => S(i) < S(w))
  OBVIOUS
<1>7. CASE rights # {}
  <2>1. w \in rights /\ \A i \in rights : w <= i
    BY <1>3, <1>5, <1>6, <1>7
  <2>2. w \in 1..n /\ S(w) = 43
    BY <1>4, <1>5, <2>1
  <2> HIDE DEF rights, lefts, trumps, n, w
  <2>3. ASSUME NEW i \in 1..n
        PROVE  S(i) <= 43 /\ (i \notin rights => S(i) < 43)
    <3>1. CASE i \in rights
      BY <1>4, <3>1
    <3>2. CASE i \notin rights /\ i \in lefts
      BY <1>4, <3>2
    <3>3. CASE i \notin rights /\ i \notin lefts
      <4>1. S(i) \in Nat /\ S(i) <= 28
        BY <1>4, <3>3
      <4> QED
        BY <4>1
    <3> QED
      BY <3>1, <3>2, <3>3
  <2>4. ASSUME NEW i \in 1..n, i < w PROVE i \notin rights
    BY <1>1, <2>1, <2>2, <2>4
  <2> QED
    BY <2>2, <2>3, <2>4
<1>8. CASE rights = {} /\ lefts # {}
  <2>1. w \in lefts /\ \A i \in lefts : w <= i
    BY <1>3, <1>5, <1>6, <1>8
  <2>2. w \in 1..n /\ S(w) = 42
    BY <1>4, <1>5, <2>1
  <2> HIDE DEF rights, lefts, trumps, n, w
  <2>3. ASSUME NEW i \in 1..n
        PROVE  S(i) <= 42 /\ (i \notin lefts => S(i) < 42)
    <3>1. CASE i \in lefts
      BY <1>4, <3>1
    <3>2. CASE i \notin lefts
      <4>1. S(i) \in Nat /\ S(i) <= 28
        BY <1>4, <1>8, <3>2
      <4> QED
        BY <4>1
    <3> QED
      BY <3>1, <3>2
  <2>4. ASSUME NEW i \in 1..n, i < w PROVE i \notin lefts
    BY <1>1, <2>1, <2>2, <2>4
  <2> QED
    BY <2>2, <2>3, <2>4
<1>9. CASE rights = {} /\ lefts = {} /\ trumps # {}
  <2> DEFINE first == Min(trumps)
  <2>1. first \in trumps /\ \A i \in trumps : first <= i
    BY <1>5, <1>6, <1>9
  <2>2. first \in 1..n /\ trick[first].suit = trumpSuit
    BY <2>1 DEF CardsOf
  <2>3. \A i \in 1..(first - 1) : trick[i].suit # trumpSuit
    <3> SUFFICES ASSUME NEW i \in 1..(first - 1), trick[i].suit = trumpSuit PROVE FALSE
      OBVIOUS
    <3>1. i \in 1..n /\ i < first
      BY <1>1, <2>2
    <3>2. i \in trumps
      BY <3>1 DEF CardsOf
    <3> QED
      BY <1>1, <2>1, <2>2, <3>1, <3>2
  <2> HIDE DEF first
  <2>4. Leads(w, trumpSuit, trick, n)
    <3>1. w = HighestOf(trumpSuit, first, trick)
      BY <1>3, <1>9 DEF first
    <3>2. Leads(HighestOf(trumpSuit, first, trick), trumpSuit, trick, Len(trick))
      BY <1>2, <2>2, <2>3, HighestOfLeads
    <3> QED
      BY <3>1, <3>2
  <2>5. w \in 1..n /\ w \in trumps
    BY <2>4 DEF Leads, CardsOf
  <2>6. \A i \in trumps : trick[i].value <= trick[w].value
                          /\ (i < w => trick[i].value < trick[w].value)
    BY <2>4 DEF Leads, CardsOf
  <2> HIDE DEF rights, lefts, trumps, n, w
  <2>7. S(w) = 14 + trick[w].value /\ trick[w].value \in Nat /\ trick[w].value >= 1
    BY <1>1, <1>4, <1>9, <2>5
  <2>8. ASSUME NEW i \in 1..n PROVE S(i) <= S(w) /\ (i < w => S(i) < S(w))
    <3>1. CASE i \in trumps
      <4>1. S(i) = 14 + trick[i].value /\ trick[i].value \in Nat
        BY <1>1, <1>4, <1>9, <3>1
      <4> QED
        BY <2>6, <2>7, <3>1, <4>1
    <3>2. CASE i \notin trumps
      <4>1. S(i) \in Nat /\ S(i) <= 14
        BY <1>4, <1>9, <3>2
      <4> QED
        BY <2>7, <4>1
    <3> QED
      BY <3>1, <3>2
  <2> QED
    BY <2>5, <2>8
<1>10. CASE rights = {} /\ lefts = {} /\ trumps = {}
  <2>1. Leads(w, trick[1].suit, trick, n)
    <3>1. w = HighestOf(trick[1].suit, 1, trick)
      BY <1>3, <1>10
    <3>2. Leads(HighestOf(trick[1].suit, 1, trick), trick[1].suit, trick, Len(trick))
      BY <1>1, <1>2, HighestOfLeads
    <3> QED
      BY <3>1, <3>2
  <2>2. ASSUME NEW i \in 1..n
        PROVE  S(i) = IF trick[i].suit = trick[1].suit THEN trick[i].value ELSE 0
    <3>1. /\ trick[i] \in Deck /\ trick[1] \in Deck /\ trumpSuit \in Suits
          /\ trick[i].suit # trumpSuit /\ trick[1].suit # trumpSuit
          /\ ~(trick[i].value = JACK /\ trick[i].suit = partner)
          /\ ~(trick[1].value = JACK /\ trick[1].suit = partner)
      BY <1>1, <1>10 DEF JacksOf, CardsOf
    <3> QED
      BY <3>1, PlainStrength
  <2> HIDE DEF n, w
  <2>3. w \in 1..n /\ trick[w].suit = trick[1].suit
    BY <2>1 DEF Leads, n
  <2>4. S(w) = trick[w].value /\ trick[w].value \in Nat /\ trick[w].value >= 1
    BY <1>1, <2>2, <2>3
  <2>5. ASSUME NEW i \in 1..n PROVE S(i) <= S(w) /\ (i < w => S(i) < S(w))
    <3>1. CASE trick[i].suit = trick[1].suit
      <4>1. S(i) = trick[i].value /\ trick[i].value \in Nat
        BY <1>1, <2>2, <3>1
      <4>2. /\ trick[i].value <= trick[w].value
            /\ i < w => trick[i].value < trick[w].value
        BY <2>1, <3>1 DEF Leads, n
      <4> QED
        BY <2>4, <4>1, <4>2
    <3>2. CASE trick[i].suit # trick[1].suit
      BY <2>2, <2>4, <3>2
    <3> QED
      BY <3>1, <3>2
  <2> QED
    BY <2>3, <2>5
<1> QED
  BY <1>7, <1>8, <1>9, <1>10
-----------------------------------------------------------------------------
(* The array the Submit handler fills holds cards, never more than fit.    *)
THEOREM TypeCorrect == Spec => []TypeOK
<1>1. Init => TypeOK
  BY RoundAssumption DEF Init, TypeOK
<1>2. TypeOK /\ [Next]_vars => TypeOK'
  <2> SUFFICES ASSUME TypeOK, [Next]_vars PROVE TypeOK'
    OBVIOUS
  <2>1. CASE NewTrick
    BY <2>1, RoundAssumption DEF NewTrick, TypeOK
  <2>2. ASSUME NEW c \in Deck, Play(c) PROVE TypeOK'
    <3>1. /\ trick' = Append(trick, c) /\ trumpSuit' = trumpSuit
          /\ trick \in Seq(Deck) /\ Len(trick) < TrickSize
      BY <2>2 DEF Play, TypeOK
    <3>2. Append(trick, c) \in Seq(Deck) /\ Len(Append(trick, c)) = Len(trick) + 1
      BY <3>1
    <3> QED
      BY <3>1, <3>2, RoundAssumption DEF TypeOK
  <2>3. CASE UNCHANGED vars
    BY <2>3 DEF vars, TypeOK
  <2> QED
    BY <2>1, <2>2, <2>3 DEF Next
<1> QED
  BY <1>1, <1>2, PTL DEF Spec

(* Euchre.trickWinner follows the rules of euchre: in every trick of any   *)
(* length it names the earliest strongest card.                            *)
THEOREM WinnerIsStrongestHolds == Spec => []WinnerIsStrongest
  BY TypeCorrect, StrongestWins, PTL

(* Position w holds the earliest strongest card of the trick.              *)
Strongest(w) ==
    /\ w \in 1..Len(trick)
    /\ \A i \in 1..Len(trick) :
          /\ Strength(trick[i], trick[1]) <= Strength(trick[w], trick[1])
          /\ i < w => Strength(trick[i], trick[1]) < Strength(trick[w], trick[1])

(* One more card takes the trick or leaves the winner where it was.        *)
THEOREM LaterCardHolds == Spec => LaterCardTakesOrLoses
<1> DEFINE Keeps == trick # <<>> /\ trick' # <<>> =>
                        trickWinner(trick', trumpSuit') \in
                            {trickWinner(trick, trumpSuit), Len(trick')}
<1>1. ASSUME TypeOK, WinnerIsStrongest, WinnerIsStrongest', [Next]_vars
      PROVE  [Keeps]_vars
  <2>1. CASE NewTrick
    BY <2>1 DEF NewTrick
  <2>2. ASSUME NEW c \in Deck, Play(c) PROVE Keeps
    <3> SUFFICES ASSUME trick # <<>>, trick' # <<>>,
                        trickWinner(trick', trumpSuit') # Len(trick')
                 PROVE  trickWinner(trick', trumpSuit') = trickWinner(trick, trumpSuit)
      OBVIOUS
    <3> DEFINE n    == Len(trick)
               S(i) == Strength(trick[i], trick[1])
    <3>1. /\ n \in Nat /\ n >= 1 /\ trumpSuit' = trumpSuit
          /\ Len(trick') = n + 1
          /\ \A i \in 1..n : trick'[i] = trick[i]
      BY <1>1, <2>2 DEF Play, TypeOK
    <3>2. PICK v : v = trickWinner(trick, trumpSuit) /\ Strongest(v)
      BY <1>1 DEF WinnerIsStrongest, Strongest
    <3>3. PICK w : w = trickWinner(trick, trumpSuit)' /\ Strongest(w)'
      BY <1>1 DEF WinnerIsStrongest, Strongest
    <3>4. \A i \in 1..n : S(i)' = S(i)
      <4> SUFFICES ASSUME NEW i \in 1..n PROVE S(i)' = S(i)
        OBVIOUS
      <4>1. trick[i]' = trick[i] /\ trick[1]' = trick[1]
        BY <3>1
      <4> QED
        BY <3>1, <4>1 DEF Strength, EffectiveSuit, IsLeftBower, IsRightBower
    <3>5. \A i \in 1..n : S(i) \in Int
      BY <1>1, StrengthFacts DEF TypeOK
    <3>6. v \in 1..n /\ w \in 1..n
      BY <3>1, <3>2, <3>3 DEF Strongest
    <3>7. S(w) <= S(v) /\ (w < v => S(w) < S(v))
      BY <3>2, <3>6 DEF Strongest
    <3>8. S(v)' <= S(w)' /\ (v < w => S(v)' < S(w)')
      BY <3>1, <3>3, <3>6 DEF Strongest
    <3>9. v = w
      BY <3>4, <3>5, <3>6, <3>7, <3>8
    <3> QED
      BY <3>2, <3>3, <3>9
  <2>3. CASE UNCHANGED vars
    BY <2>3
  <2> QED
    BY <1>1, <2>1, <2>2, <2>3 DEF Next
<1> QED
  BY <1>1, TypeCorrect, WinnerIsStrongestHolds, PTL DEF Spec, LaterCardTakesOrLoses
=============================================================================
