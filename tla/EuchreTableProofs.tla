------------------------- MODULE EuchreTableProofs -------------------------
(***************************************************************************)
(* Proofs about EuchreTable, for every cap on the anchors, every size of   *)
(* the tap queue and every number of taps.                                 *)
(*                                                                         *)
(* The properties are not inductive by themselves: whether a Submit throws *)
(* depends on how far the GL thread is in handleTap, on what the two lists *)
(* and the map held when Submit looked at them, and on whether a Reset ran *)
(* meanwhile.  IInv ties the program counters of both threads to the       *)
(* contents of the shared collections; one lemma per part shows that every *)
(* step of either thread keeps it.                                         *)
(***************************************************************************)
EXTENDS EuchreTable, TLAPS

(* Facts about sequences that the provers need one at a time.              *)
(* The empty sequence.                                                     *)
LEMMA EmptySeq ==
    ASSUME NEW S, NEW s \in Seq(S)
    PROVE  /\ <<>> \in Seq(S)
           /\ Len(<<>>) = 0
           /\ Len(s) \in Nat
           /\ s = <<>> <=> Len(s) = 0
  OBVIOUS

(* What remove(0) leaves, and what get(0) returns.                         *)
LEMMA TailSeq ==
    ASSUME NEW S, NEW s \in Seq(S), s # <<>>
    PROVE  /\ Tail(s) \in Seq(S)
           /\ Len(Tail(s)) = Len(s) - 1
           /\ \A i \in 1..(Len(s) - 1) : Tail(s)[i] = s[i + 1]
           /\ Head(s) = s[1]
           /\ Head(s) \in S
           /\ Len(s) >= 1
  OBVIOUS

(* What add(e) makes of a list.                                            *)
LEMMA AppendSeq ==
    ASSUME NEW S, NEW s \in Seq(S), NEW e \in S
    PROVE  /\ Append(s, e) \in Seq(S)
           /\ Len(Append(s, e)) = Len(s) + 1
           /\ \A i \in 1..Len(s) : Append(s, e)[i] = s[i]
           /\ Append(s, e)[Len(s) + 1] = e
  OBVIOUS

USE DEF tapState, table, selection, notice, shared, glLocal, submit, uiLocal,
        history, vars

(* What the cases of the switches assign.                                  *)
LEMMA CaseFacts ==
    /\ DOMAIN ValueCases = 1..13 /\ Len(ValueCases) = 13
    /\ \A i \in 1..13 : ValueCases[i] \in 2..ACE_HIGH
    /\ DOMAIN SuitCases = 1..4 /\ Len(SuitCases) = 4
    /\ \A i \in 1..4 : SuitCases[i] \in Suits
    /\ \A i \in 1..5 : DemoCases[i].value \in 2..ACE_HIGH /\ DemoCases[i].suit \in Suits
  BY DEF ValueCases, SuitCases, DemoCases, Card, Suits, JACK, QUEEN, KING, ACE_HIGH,
         HEARTS, DIAMONDS, CLUBS, SPADES

(* The case a switch is at, in each of the forms it is asked for.          *)
LEMMA FallFacts ==
    ASSUME NEW k
    PROVE  /\ k \in 1..13 <=> k \in DOMAIN ValueCases
           /\ k \in 1..4 <=> k \in DOMAIN SuitCases
           /\ k \in 1..13 => k \in 0..Len(ValueCases)
           /\ k \in 1..4 => k \in 0..Len(ValueCases)
           /\ 0 \in 0..Len(ValueCases)
  BY CaseFacts

(* The two bytes make a card, whichever of them was assigned last.         *)
LEMMA CardFacts ==
    /\ Card(-1, -1) \in Cards
    /\ \A c \in Cards : \A v \in 2..ACE_HIGH : [c EXCEPT !.value = v] \in Cards
    /\ \A c \in Cards : \A u \in Suits : [c EXCEPT !.suit = u] \in Cards
    /\ \A c, d \in Cards : Card(c.value, -1) \in Cards /\ Card(c.value, d.suit) \in Cards
  BY DEF Card, Cards

(* The fields have their types when onCreate has run.                      *)
LEMMA TypeInit == Init => ValuesOK
<1> SUFFICES ASSUME Init PROVE ValuesOK
  OBVIOUS
<1>1. nextTap \in 1..(MaxTaps + 1)
  BY TableAssumption DEF Init
<1>2. message[1] \in MessageKinds /\ toast[1] \in MessageKinds
  BY DEF Init, MessageKinds
<1>3. /\ trumpSuit \in Suits /\ demoTapCount \in 0..5
      /\ fall \in 0..13 /\ uiPc = "idle" /\ glPc = "frame"
  BY DEF Init, Suits
<1> QED
  BY <1>1, <1>2, <1>3, CaseFacts, CardFacts DEF Init, ValuesOK

(* While a tap is handled, the GL thread holds that tap.                   *)
TapInv == glPc \in Updating => glTap \in Taps

(* AnchorCap, and that handleTap has made room before it adds.             *)
CapInv ==
    /\ AnchorCap
    /\ glPc \in {"untrack", "unmap", "create", "track", "map", "add"} \cup Choosing =>
          Len(anchors) < MaxAnchors

(* MarkOrder, and that the taps under way come after all the anchors.      *)
OrderInv ==
    /\ MarkOrder
    /\ \A i, j \in 1..Len(queuedSingleTaps) :
          i < j => queuedSingleTaps[i] < queuedSingleTaps[j]
    /\ \A j \in 1..Len(queuedSingleTaps) : queuedSingleTaps[j] < nextTap
    /\ \A i \in 1..Len(anchors) : anchors[i] < nextTap
    /\ \A i \in 1..Len(anchors), j \in 1..Len(queuedSingleTaps) :
          anchors[i] < queuedSingleTaps[j]
    /\ glPc \in Updating =>
          /\ glTap < nextTap
          /\ \A i \in 1..Len(anchors) : anchors[i] < glTap
          /\ \A j \in 1..Len(queuedSingleTaps) : glTap < queuedSingleTaps[j]

(* A Reset that is not raced has the table to itself.                      *)
ResetInv ==
    (uiPc \in Resetting /\ ~raced) =>
        /\ glPc \notin Updating
        /\ trackingCards = <<>>
        /\ uiPc \in {"resetDetach", "resetRemove"} => anchors # <<>>

(* Eviction is on record from the moment it is decided.                    *)
EvictInv == glPc \in Evicting => evicted

(* What Submit has read is a prefix of its snapshot; the list still is the *)
(* snapshot unless it was modified, and has grown if nothing was evicted.  *)
ReadInv ==
    /\ uiPc = "iterator" => trick = <<>>
    /\ uiPc \in Filling \cup {"judge"} =>
          /\ Len(marks) = cursor
          /\ Len(marks) <= Len(snapshot)
          /\ \A i \in 1..Len(marks) : marks[i] = snapshot[i]
          /\ Len(marks) = Len(trick) + (IF uiPc = "get" THEN 1 ELSE 0)
          /\ uiPc \in Filling /\ ~stale => anchors = snapshot
          /\ uiPc = "next" /\ ~stale => cursor < Len(snapshot)
          /\ uiPc \in Filling /\ stale /\ ~evicted => Len(anchors) > Len(snapshot)
          /\ uiPc = "judge" => evicted \/ Len(marks) = Len(snapshot)

(* How far trackingCards is ahead of anchors at each point of handleTap.   *)
AgreeInv ==
    (~raced /\ uiPc \notin Resetting) =>
        Len(trackingCards) = Len(anchors) + (IF glPc \in {"untrack", "map", "add"} THEN 1 ELSE 0)

(* Below the cap each anchor has its card, also the one about to be added. *)
MapInv ==
    (~raced /\ ~evicted /\ uiPc \notin Resetting) =>
        /\ \A i \in 1..Len(anchors) : cardTypes[anchors[i]] # NULL
        /\ glPc = "add" => cardTypes[glTap] # NULL

(* A Submit that overlaps no tap sees the table stand still.               *)
SubmitInv ==
    (uiPc \in Submitting /\ ~overlap) =>
        /\ glPc \notin Updating
        /\ uiPc = "alloc" => trackingCards # <<>>
        /\ uiPc \in {"iterator", "judge"} \cup Filling =>
              trickLength > 0 /\ trickLength = Len(trackingCards)
        /\ uiPc \in Filling => ~stale
        /\ uiPc \in Filling \cup {"judge"} => snapshot = anchors
        /\ (uiPc \in Filling \cup {"judge"} /\ ~raced /\ ~evicted) =>
              \A i \in 1..Len(trick) : trick[i] # NULL

(* Every anchor in the list is tracked, except the one handleTap has just  *)
(* detached and is about to remove; and so is the one about to be added.   *)
TrackInv ==
    (~raced /\ uiPc \notin Resetting) =>
        /\ \A i \in 1..Len(anchors) : anchors[i] \in attached \/ (i = 1 /\ glPc = "remove")
        /\ glPc \in {"track", "map", "add"} \cup Choosing => glTap \in attached

(* The inductive invariant.                                                *)
IInv ==
    /\ TypeOK /\ TapInv /\ CapInv /\ OrderInv /\ ResetInv /\ EvictInv
    /\ ReadInv /\ AgreeInv /\ MapInv /\ TrackInv /\ SubmitInv
    /\ CrashNeedsRaceOrEviction

(* Every step keeps the types.                                             *)
LEMMA TypeStep ==
    ASSUME ValuesOK, ReadInv, TapInv, Next
    PROVE  ValuesOK'
<1> USE DEF ValuesOK, MessageKinds, Submitting, Resetting, Selecting, Updating,
           Choosing, Evicting, Filling
<1>1. CASE onSingleTapUp
  <2>1. nextTap \in Taps /\ nextTap' \in 1..(MaxTaps + 1)
    BY <1>1, TableAssumption DEF onSingleTapUp, Taps
  <2> QED
    BY <1>1, <2>1, AppendSeq DEF onSingleTapUp
<1>2. CASE \E i \in ValueItems : SelectValue(i)
  <2>1. uiPc' = "value" /\ fall' \in ValueItems /\ message'[1] \in MessageKinds
    BY <1>2 DEF SelectValue, UiGoto
  <2>2. UNCHANGED <<tapState, table, selection, toast, glLocal, submit, snapshot>>
    BY <1>2 DEF SelectValue
  <2>3. fall' \in DOMAIN ValueCases /\ fall' \in 0..Len(ValueCases)
    BY <2>1, FallFacts, TableAssumption
  <2> QED
    BY <2>1, <2>2, <2>3
<1>3. CASE \E i \in SuitItems : SelectSuit(i)
  <2>1. uiPc' = "suit" /\ fall' \in SuitItems /\ message'[1] \in MessageKinds
    BY <1>3 DEF SelectSuit, UiGoto
  <2>2. UNCHANGED <<tapState, table, selection, toast, glLocal, submit, snapshot>>
    BY <1>3 DEF SelectSuit
  <2>3. fall' \in DOMAIN SuitCases /\ fall' \in 0..Len(ValueCases)
    BY <2>1, FallFacts, TableAssumption
  <2> QED
    BY <2>1, <2>2, <2>3
<1>4. CASE \E i \in SuitItems : SelectTrump(i)
  <2>1. uiPc' = "trump" /\ fall' \in SuitItems /\ message'[1] \in MessageKinds
    BY <1>4 DEF SelectTrump, UiGoto
  <2>2. UNCHANGED <<tapState, table, selection, toast, glLocal, submit, snapshot>>
    BY <1>4 DEF SelectTrump
  <2>3. fall' \in DOMAIN SuitCases /\ fall' \in 0..Len(ValueCases)
    BY <2>1, FallFacts, TableAssumption
  <2> QED
    BY <2>1, <2>2, <2>3
<1>5. CASE SubmitClick
  BY <1>5 DEF SubmitClick
<1>6. CASE ResetClick
  BY <1>6 DEF ResetClick
<1>7. CASE Relaunch
  <2>1. nextTap' \in 1..(MaxTaps + 1)
    BY <1>7, TableAssumption DEF Relaunch
  <2>2. /\ trumpSuit' \in Suits /\ demoTapCount' \in 0..5
        /\ fall' \in 0..13 /\ uiPc' = "idle"
    BY <1>7 DEF Relaunch, Suits
  <2> QED
    BY <1>7, <2>1, <2>2, CaseFacts, CardFacts DEF Relaunch
<1>8. CASE SubmitSayEmpty
  BY <1>8 DEF SubmitSayEmpty, UiGoto
<1>9. CASE SubmitAlloc
  BY <1>9 DEF SubmitAlloc, UiGoto
<1>10. CASE SubmitIterator
  BY <1>10 DEF SubmitIterator, UiGoto
<1>11. CASE SubmitHasNext
  BY <1>11 DEF SubmitHasNext, UiGoto
<1>12. CASE SubmitNext
  <2>1. CASE stale
    BY <1>12, <2>1 DEF SubmitNext, IteratorThrows, UiGoto
  <2>2. CASE ~stale
    <3>1. anchors[cursor + 1] \in Taps
      BY <1>12, <2>2 DEF SubmitNext, ReadInv
    <3>2. Append(marks, anchors[cursor + 1]) \in Seq(Taps)
      BY <3>1, AppendSeq
    <3>3. marks' = Append(marks, anchors[cursor + 1]) /\ cursor' = cursor + 1 /\ uiPc' = "get"
      BY <1>12, <2>2 DEF SubmitNext, IteratorThrows, UiGoto
    <3>4. marks' \in Seq(Taps) /\ cursor' \in Nat
      BY <3>2, <3>3
    <3>5. UNCHANGED <<shared, glLocal, fall, trickLength, trick, snapshot>>
      BY <1>12 DEF SubmitNext
    <3> QED
      BY <3>3, <3>4, <3>5
  <2> QED
    BY <2>1, <2>2
<1>13. CASE SubmitGet
  <2>1. CASE Len(trick) >= trickLength
    BY <1>13, <2>1 DEF SubmitGet, UiGoto
  <2>2. CASE ~(Len(trick) >= trickLength)
    <3>1. marks[Len(marks)] \in Taps
      BY <1>13 DEF SubmitGet, ReadInv
    <3>2. cardTypes[marks[Len(marks)]] \in Cards \cup {NULL}
      BY <3>1
    <3>3. Append(trick, cardTypes[marks[Len(marks)]]) \in Seq(Cards \cup {NULL})
      BY <3>2, AppendSeq
    <3>4. trick' \in Seq(Cards \cup {NULL}) /\ uiPc' = "hasNext"
      BY <1>13, <2>2, <3>3 DEF SubmitGet, UiGoto
    <3> QED
      BY <1>13, <3>4 DEF SubmitGet
  <2> QED
    BY <2>1, <2>2
<1>14. CASE SubmitJudge
  <2>1. /\ uiPc' \in {"idle", "crashed"} /\ message'[1] \in MessageKinds
        /\ trumpSuit' \in Suits
    BY <1>14 DEF SubmitJudge, UiGoto, Suits
  <2> QED
    BY <1>14, <2>1 DEF SubmitJudge, UiGoto
<1>15. CASE ResetWhile
  BY <1>15 DEF ResetWhile, UiGoto
<1>16. CASE ResetDetach
  <2>1. CASE anchors = <<>>
    BY <1>16, <2>1 DEF ResetDetach, UiGoto
  <2>2. CASE anchors # <<>>
    <3>1. Tail(anchors) \in Seq(Taps) /\ Head(anchors) \in Taps
      BY <2>2, TailSeq
    <3>2. attached' \in SUBSET Taps /\ uiPc' = "resetRemove"
      BY <1>16, <2>2, <3>1 DEF ResetDetach, UiGoto
    <3>3. UNCHANGED <<tapState, anchors, trackingCards, cardTypes,
                     selection, notice, glPc, glTap, glCard, submit, fall, snapshot>>
      BY <1>16, <2>2 DEF ResetDetach, UiGoto
    <3> QED
      BY <3>2, <3>3
  <2> QED
    BY <2>1, <2>2
<1>17. CASE ResetRemove
  <2>1. CASE anchors = <<>>
    BY <1>17, <2>1 DEF ResetRemove, UiGoto
  <2>2. CASE anchors # <<>>
    <3>1. Tail(anchors) \in Seq(Taps) /\ Head(anchors) \in Taps
      BY <2>2, TailSeq
    <3>2. anchors' \in Seq(Taps) /\ uiPc' = "resetClear"
      BY <1>17, <2>2, <3>1 DEF ResetRemove, UiGoto
    <3>3. UNCHANGED <<tapState, attached, trackingCards, cardTypes,
                     selection, notice, glPc, glTap, glCard, submit, fall, snapshot>>
      BY <1>17, <2>2 DEF ResetRemove, UiGoto
    <3> QED
      BY <3>2, <3>3
  <2> QED
    BY <2>1, <2>2
<1>18. CASE ResetClear
  BY <1>18 DEF ResetClear, UiGoto
<1>19. CASE \E t \in {"TRACKING", "PAUSED", "STOPPED"} : FrameWithoutCard(t)
  <2>1. queuedSingleTaps' \in Seq(Taps)
    <3>1. CASE queuedSingleTaps = <<>>
      BY <1>19, <3>1 DEF FrameWithoutCard, Polled
    <3>2. CASE queuedSingleTaps # <<>>
      BY <1>19, <3>2, TailSeq DEF FrameWithoutCard, Polled
    <3> QED
      BY <3>1, <3>2
  <2>2. glPc' \in {"frame", "toast"}
    BY <1>19 DEF FrameWithoutCard, GlGoto
  <2> QED
    BY <1>19, <2>1, <2>2 DEF FrameWithoutCard
<1>20. CASE FrameWithHit
  <2>1. queuedSingleTaps' \in Seq(Taps) /\ glTap' \in Taps
    BY <1>20, TailSeq DEF FrameWithHit, Polled
  <2> QED
    BY <1>20, <2>1 DEF FrameWithHit, GlGoto
<1>21. CASE CheckSize
  BY <1>21 DEF CheckSize, GlGoto
<1>22. CASE EvictDetach
  <2>1. CASE anchors = <<>>
    BY <1>22, <2>1 DEF EvictDetach, GlGoto
  <2>2. CASE anchors # <<>>
    <3>1. Tail(anchors) \in Seq(Taps) /\ Head(anchors) \in Taps
      BY <2>2, TailSeq
    <3>2. attached' \in SUBSET Taps /\ glPc' = "remove"
      BY <1>22, <2>2, <3>1 DEF EvictDetach, GlGoto
    <3>3. UNCHANGED <<tapState, anchors, trackingCards, cardTypes,
                     selection, notice, glTap, glCard, uiPc, submit, fall, snapshot>>
      BY <1>22, <2>2 DEF EvictDetach, GlGoto
    <3> QED
      BY <3>2, <3>3
  <2> QED
    BY <2>1, <2>2
<1>23. CASE EvictRemove
  <2>1. CASE anchors = <<>>
    BY <1>23, <2>1 DEF EvictRemove, GlGoto
  <2>2. CASE anchors # <<>>
    <3>1. Tail(anchors) \in Seq(Taps) /\ Head(anchors) \in Taps
      BY <2>2, TailSeq
    <3>2. anchors' \in Seq(Taps) /\ glPc' = "untrack"
      BY <1>23, <2>2, <3>1 DEF EvictRemove, GlGoto
    <3>3. UNCHANGED <<tapState, attached, trackingCards, cardTypes,
                     selection, notice, glTap, glCard, uiPc, fall,
                     trickLength, trick, cursor, marks, snapshot>>
      BY <1>23, <2>2 DEF EvictRemove, GlGoto
    <3> QED
      BY <3>2, <3>3
  <2> QED
    BY <2>1, <2>2
<1>24. CASE EvictUntrack
  <2>1. CASE trackingCards = <<>>
    BY <1>24, <2>1 DEF EvictUntrack, GlGoto
  <2>2. CASE trackingCards # <<>>
    <3>1. Tail(trackingCards) \in Seq(Cards) /\ Head(trackingCards) \in Cards
      BY <2>2, TailSeq
    <3>2. trackingCards' \in Seq(Cards) /\ glPc' = "unmap"
      BY <1>24, <2>2, <3>1 DEF EvictUntrack, GlGoto
    <3>3. UNCHANGED <<tapState, anchors, attached, cardTypes, selection,
                     notice, glTap, glCard, uiPc, submit, fall, snapshot>>
      BY <1>24, <2>2 DEF EvictUntrack, GlGoto
    <3> QED
      BY <3>2, <3>3
  <2> QED
    BY <2>1, <2>2
<1>25. CASE EvictUnmap
  <2>1. CASE anchors = <<>>
    BY <1>25, <2>1 DEF EvictUnmap, GlGoto
  <2>2. CASE anchors # <<>>
    <3>1. Tail(anchors) \in Seq(Taps) /\ Head(anchors) \in Taps
      BY <2>2, TailSeq
    <3>2. cardTypes' \in [Taps -> Cards \cup {NULL}] /\ glPc' = "create"
      BY <1>25, <2>2, <3>1 DEF EvictUnmap, GlGoto
    <3>3. UNCHANGED <<tapState, anchors, attached, trackingCards,
                     selection, notice, glTap, glCard, uiPc, submit, fall, snapshot>>
      BY <1>25, <2>2 DEF EvictUnmap, GlGoto
    <3> QED
      BY <3>2, <3>3
  <2> QED
    BY <2>1, <2>2
<1>26. CASE CreateAnchor
  <2>1. glPc' \in {"toast", "demoSuit", "cardValue"} /\ attached' \in SUBSET Taps
    BY <1>26 DEF CreateAnchor, GlGoto, TapInv
  <2>2. trumpSuit' \in Suits
    BY <1>26 DEF CreateAnchor, Suits
  <2>3. UNCHANGED <<tapState, anchors, trackingCards, cardTypes, current, demoTapCount,
                    notice, glTap, glCard, uiLocal, snapshot>>
    BY <1>26 DEF CreateAnchor
  <2> QED
    BY <2>1, <2>2, <2>3
<1>27. CASE MapCard
  <2>1. cardTypes' \in [Taps -> Cards \cup {NULL}] /\ message'[1] \in MessageKinds
    BY <1>27 DEF MapCard
  <2>2. glCard' \in Cards /\ glPc' = "add"
    BY <1>27, CardFacts DEF MapCard, GlGoto
  <2> QED
    BY <1>27, <2>1, <2>2 DEF MapCard
<1>28. CASE AddAnchor
  <2>1. glTap \in Taps
    BY <1>28 DEF AddAnchor, TapInv
  <2>2. anchors' \in Seq(Taps) /\ glPc' = "toast" /\ glTap' = 0
    BY <1>28, <2>1, AppendSeq DEF AddAnchor, GlGoto
  <2>3. UNCHANGED <<tapState, attached, trackingCards, cardTypes, selection, notice,
                    glCard, uiPc, fall, trickLength, trick, cursor, marks, snapshot>>
    BY <1>28 DEF AddAnchor
  <2> QED
    BY <2>2, <2>3
<1>29. CASE ShowToast
  BY <1>29 DEF ShowToast, GlGoto
<1>30. CASE ClearMessage
  BY <1>30 DEF ClearMessage, GlGoto
<1>31. CASE ValueCase
  <2>1. fall \in 1..13 /\ uiPc = "value"
    BY <1>31, FallFacts DEF ValueCase
  <2>2. ValueCases[fall] \in 2..ACE_HIGH /\ Len(ValueCases) = 13
    BY <2>1, CaseFacts
  <2>3. current' \in Cards
    BY <1>31, <2>2, CardFacts DEF ValueCase
  <2>4. \/ uiPc' = "value" /\ fall' \in 1..13
        \/ uiPc' = "idle" /\ fall' = 0
    <3>1. FallThrough(ValueCases)
      BY <1>31 DEF ValueCase
    <3>2. CASE fall < 13
      BY <2>1, <2>2, <3>1, <3>2 DEF FallThrough
    <3>3. CASE ~(fall < 13)
      BY <2>2, <3>1, <3>3 DEF FallThrough, UiGoto
    <3> QED
      BY <3>2, <3>3
  <2>5. /\ fall' \in 0..Len(ValueCases)
        /\ uiPc' = "value" => fall' \in DOMAIN ValueCases
    BY <2>4, FallFacts
  <2>6. UNCHANGED <<tapState, table, trumpSuit, demoTapCount, notice, glLocal, submit, snapshot>>
    BY <1>31 DEF ValueCase
  <2> QED
    BY <2>3, <2>4, <2>5, <2>6
<1>37. CASE SuitCase
  <2>1. fall \in 1..4 /\ uiPc = "suit"
    BY <1>37, FallFacts DEF SuitCase
  <2>2. SuitCases[fall] \in Suits /\ Len(SuitCases) = 4
    BY <2>1, CaseFacts
  <2>3. current' \in Cards
    BY <1>37, <2>2, CardFacts DEF SuitCase
  <2>4. \/ uiPc' = "suit" /\ fall' \in 1..4
        \/ uiPc' = "idle" /\ fall' = 0
    BY <1>37, <2>1, <2>2 DEF SuitCase, FallThrough, UiGoto
  <2>5. /\ fall' \in 0..Len(ValueCases)
        /\ uiPc' = "suit" => fall' \in DOMAIN SuitCases
    BY <2>4, FallFacts
  <2>6. UNCHANGED <<tapState, table, trumpSuit, demoTapCount, notice, glLocal, submit, snapshot>>
    BY <1>37 DEF SuitCase
  <2> QED
    BY <2>3, <2>4, <2>5, <2>6
<1>38. CASE TrumpCase
  <2>1. fall \in 1..4 /\ uiPc = "trump"
    BY <1>38, FallFacts DEF TrumpCase
  <2>2. SuitCases[fall] \in Suits /\ Len(SuitCases) = 4
    BY <2>1, CaseFacts
  <2>3. trumpSuit' \in Suits
    BY <1>38, <2>2, CardFacts DEF TrumpCase
  <2>4. \/ uiPc' = "trump" /\ fall' \in 1..4
        \/ uiPc' = "idle" /\ fall' = 0
    BY <1>38, <2>1, <2>2 DEF TrumpCase, FallThrough, UiGoto
  <2>5. /\ fall' \in 0..Len(ValueCases)
        /\ uiPc' = "trump" => fall' \in DOMAIN SuitCases
    BY <2>4, FallFacts
  <2>6. UNCHANGED <<tapState, table, current, demoTapCount, notice, glLocal, submit, snapshot>>
    BY <1>38 DEF TrumpCase
  <2> QED
    BY <2>3, <2>4, <2>5, <2>6
<1>32. CASE SessionMade \/ SessionLost
  BY <1>32 DEF SessionMade, SessionLost
<1>33. CASE FrameThrows
  BY <1>33 DEF FrameThrows, GlGoto
<1>34. CASE DemoSuit \/ DemoValue
  <2> DEFINE n == IF demoTapCount \in 1..4 THEN demoTapCount ELSE 5
  <2>1. DemoCase.value \in 2..ACE_HIGH /\ DemoCase.suit \in Suits
    <3>1. n \in 1..5
      OBVIOUS
    <3>2. DemoCase = DemoCases[n]
      BY DEF DemoCase
    <3> HIDE DEF n
    <3> QED
      BY <3>1, <3>2, CaseFacts
  <2>2. current' \in Cards
    <3>1. CASE DemoSuit
      BY <3>1, <2>1, CardFacts DEF DemoSuit
    <3>2. CASE DemoValue
      BY <3>2, <2>1, CardFacts DEF DemoValue
    <3> QED
      BY <1>34, <3>1, <3>2
  <2>5. demoTapCount' \in 0..5
    BY <1>34 DEF DemoSuit, DemoValue
  <2>3. glPc' \in {"demoSuit", "demoValue", "cardValue"}
    BY <1>34 DEF DemoSuit, DemoValue, GlGoto
  <2>4. UNCHANGED <<tapState, table, trumpSuit, notice, glTap, glCard, uiLocal, snapshot>>
    BY <1>34 DEF DemoSuit, DemoValue
  <2> QED
    BY <2>2, <2>3, <2>4, <2>5
<1>35. CASE ReadValue \/ ReadSuit
  <2>1. glCard' \in Cards
    BY <1>35, CardFacts DEF ReadValue, ReadSuit
  <2> QED
    BY <1>35, <2>1 DEF ReadValue, ReadSuit, GlGoto
<1>36. CASE TrackCard
  <2>1. trackingCards' \in Seq(Cards)
    BY <1>36, AppendSeq DEF TrackCard
  <2> QED
    BY <1>36, <2>1 DEF TrackCard, GlGoto
<1> QED
  BY <1>1, <1>2, <1>3, <1>4, <1>5, <1>6, <1>7, <1>8, <1>9, <1>10, <1>11,
     <1>12, <1>13, <1>14, <1>15, <1>16, <1>17, <1>18, <1>19, <1>20, <1>21,
     <1>22, <1>23, <1>24, <1>25, <1>26, <1>27, <1>28, <1>29, <1>30, <1>31,
     <1>32, <1>33, <1>34, <1>35, <1>36, <1>37, <1>38
  DEF Next, UserEvent, UiStep, GlStep

(* The flags stay Boolean.                                                 *)
LEMMA FlagsStep ==
    ASSUME FlagsOK, Next
    PROVE  FlagsOK'
<1> USE DEF FlagsOK
<1>1. CASE onSingleTapUp
  BY <1>1 DEF onSingleTapUp
<1>2. CASE \E i \in ValueItems : SelectValue(i)
  BY <1>2 DEF SelectValue, UiGoto
<1>3. CASE \E i \in SuitItems : SelectSuit(i)
  BY <1>3 DEF SelectSuit, UiGoto
<1>4. CASE \E i \in SuitItems : SelectTrump(i)
  BY <1>4 DEF SelectTrump, UiGoto
<1>5. CASE SubmitClick
  BY <1>5 DEF SubmitClick
<1>6. CASE ResetClick
  BY <1>6 DEF ResetClick
<1>7. CASE Relaunch
  BY <1>7 DEF Relaunch
<1>8. CASE SubmitSayEmpty
  BY <1>8 DEF SubmitSayEmpty, UiGoto
<1>9. CASE SubmitAlloc
  BY <1>9 DEF SubmitAlloc, UiGoto
<1>10. CASE SubmitIterator
  BY <1>10 DEF SubmitIterator, UiGoto
<1>11. CASE SubmitHasNext
  BY <1>11 DEF SubmitHasNext, UiGoto
<1>12. CASE SubmitNext
  BY <1>12 DEF SubmitNext, UiGoto
<1>13. CASE SubmitGet
  BY <1>13 DEF SubmitGet, UiGoto
<1>14. CASE SubmitJudge
  BY <1>14 DEF SubmitJudge, UiGoto
<1>15. CASE ResetWhile
  BY <1>15 DEF ResetWhile, UiGoto
<1>16. CASE ResetDetach
  BY <1>16 DEF ResetDetach, UiGoto
<1>17. CASE ResetRemove
  BY <1>17 DEF ResetRemove, UiGoto
<1>18. CASE ResetClear
  BY <1>18 DEF ResetClear, UiGoto
<1>19. CASE \E t \in {"TRACKING", "PAUSED", "STOPPED"} : FrameWithoutCard(t)
  BY <1>19 DEF FrameWithoutCard, GlGoto
<1>20. CASE FrameWithHit
  BY <1>20 DEF FrameWithHit, GlGoto
<1>21. CASE CheckSize
  BY <1>21 DEF CheckSize, GlGoto
<1>22. CASE EvictDetach
  BY <1>22 DEF EvictDetach, GlGoto
<1>23. CASE EvictRemove
  <2>1. CASE anchors = <<>>
    BY <1>23, <2>1 DEF EvictRemove, GlGoto
  <2>2. CASE anchors # <<>>
    BY <1>23, <2>2 DEF EvictRemove, GlGoto
  <2> QED
    BY <2>1, <2>2
<1>24. CASE EvictUntrack
  BY <1>24 DEF EvictUntrack, GlGoto
<1>25. CASE EvictUnmap
  BY <1>25 DEF EvictUnmap, GlGoto
<1>26. CASE CreateAnchor
  BY <1>26 DEF CreateAnchor, GlGoto
<1>27. CASE MapCard
  BY <1>27 DEF MapCard, GlGoto
<1>28. CASE AddAnchor
  BY <1>28 DEF AddAnchor, GlGoto
<1>29. CASE ShowToast
  BY <1>29 DEF ShowToast, GlGoto
<1>30. CASE ClearMessage
  BY <1>30 DEF ClearMessage, GlGoto
<1>31. CASE ValueCase \/ SuitCase \/ TrumpCase
  BY <1>31 DEF ValueCase, SuitCase, TrumpCase, FallThrough, UiGoto
<1>32. CASE SessionMade \/ SessionLost
  BY <1>32 DEF SessionMade, SessionLost
<1>33. CASE FrameThrows
  BY <1>33 DEF FrameThrows, GlGoto
<1>34. CASE DemoSuit \/ DemoValue
  BY <1>34 DEF DemoSuit, DemoValue, GlGoto
<1>35. CASE ReadValue \/ ReadSuit
  BY <1>35 DEF ReadValue, ReadSuit, GlGoto
<1>36. CASE TrackCard
  BY <1>36 DEF TrackCard, GlGoto
<1> QED
  BY <1>1, <1>2, <1>3, <1>4, <1>5, <1>6, <1>7, <1>8, <1>9, <1>10, <1>11,
     <1>12, <1>13, <1>14, <1>15, <1>16, <1>17, <1>18, <1>19, <1>20, <1>21,
     <1>22, <1>23, <1>24, <1>25, <1>26, <1>27, <1>28, <1>29, <1>30, <1>31,
     <1>32, <1>33, <1>34, <1>35, <1>36
  DEF Next, UserEvent, UiStep, GlStep

(* What the spinners leave alone: all that the other parts of IInv are     *)
(* about.                                                                  *)
LEMMA SpinnerStep ==
    ASSUME \/ \E i \in ValueItems : SelectValue(i)
           \/ \E i \in SuitItems : SelectSuit(i) \/ SelectTrump(i)
           \/ ValueCase \/ SuitCase \/ TrumpCase
    PROVE  /\ uiPc \in Selecting \cup {"idle"} /\ uiPc' \in Selecting \cup {"idle"}
           /\ raced' <=> raced
           /\ overlap' <=> overlap
           /\ UNCHANGED <<tapState, table, glLocal, submit, snapshot, evicted>>
<1> USE DEF UiGoto, FallThrough, Selecting, Submitting, Resetting, Filling, UiIdle
<1>1. CASE \E i \in ValueItems : SelectValue(i)
  BY <1>1 DEF SelectValue
<1>2. CASE \E i \in SuitItems : SelectSuit(i)
  BY <1>2 DEF SelectSuit
<1>3. CASE \E i \in SuitItems : SelectTrump(i)
  BY <1>3 DEF SelectTrump
<1>4. CASE ValueCase
  BY <1>4 DEF ValueCase
<1>5. CASE SuitCase
  BY <1>5 DEF SuitCase
<1>6. CASE TrumpCase
  BY <1>6 DEF TrumpCase
<1> QED
  BY <1>1, <1>2, <1>3, <1>4, <1>5, <1>6

(* A tap being handled is a tap.                                           *)
LEMMA TapStep ==
    ASSUME ValuesOK, TapInv, Next
    PROVE  TapInv'
<1> USE DEF TapInv, Submitting, Resetting, Selecting, Updating,
           Choosing, Evicting, Filling
<1>1. CASE onSingleTapUp
  BY <1>1 DEF onSingleTapUp
<1>2. CASE \E i \in ValueItems : SelectValue(i)
  BY <1>2, SpinnerStep
<1>3. CASE \E i \in SuitItems : SelectSuit(i)
  BY <1>3, SpinnerStep
<1>4. CASE \E i \in SuitItems : SelectTrump(i)
  BY <1>4, SpinnerStep
<1>5. CASE SubmitClick
  BY <1>5 DEF SubmitClick
<1>6. CASE ResetClick
  BY <1>6 DEF ResetClick
<1>7. CASE Relaunch
  BY <1>7 DEF Relaunch
<1>8. CASE SubmitSayEmpty
  BY <1>8 DEF SubmitSayEmpty, UiGoto
<1>9. CASE SubmitAlloc
  BY <1>9 DEF SubmitAlloc, UiGoto
<1>10. CASE SubmitIterator
  BY <1>10 DEF SubmitIterator, UiGoto
<1>11. CASE SubmitHasNext
  BY <1>11 DEF SubmitHasNext, UiGoto
<1>12. CASE SubmitNext
  BY <1>12 DEF SubmitNext, UiGoto
<1>13. CASE SubmitGet
  BY <1>13 DEF SubmitGet, UiGoto
<1>14. CASE SubmitJudge
  BY <1>14 DEF SubmitJudge, UiGoto
<1>15. CASE ResetWhile
  BY <1>15 DEF ResetWhile, UiGoto
<1>16. CASE ResetDetach
  BY <1>16 DEF ResetDetach, UiGoto
<1>17. CASE ResetRemove
  BY <1>17 DEF ResetRemove, UiGoto
<1>18. CASE ResetClear
  BY <1>18 DEF ResetClear, UiGoto
<1>19. CASE \E t \in {"TRACKING", "PAUSED", "STOPPED"} : FrameWithoutCard(t)
  BY <1>19 DEF FrameWithoutCard, GlGoto
<1>20. CASE FrameWithHit
  <2>1. Head(queuedSingleTaps) \in Taps
    BY <1>20, TailSeq DEF FrameWithHit, ValuesOK
  <2> QED
    BY <1>20, <2>1 DEF FrameWithHit, GlGoto
<1>21. CASE CheckSize
  BY <1>21 DEF CheckSize, GlGoto
<1>22. CASE EvictDetach
  BY <1>22 DEF EvictDetach, GlGoto
<1>23. CASE EvictRemove
  BY <1>23 DEF EvictRemove, GlGoto
<1>24. CASE EvictUntrack
  BY <1>24 DEF EvictUntrack, GlGoto
<1>25. CASE EvictUnmap
  BY <1>25 DEF EvictUnmap, GlGoto
<1>26. CASE CreateAnchor
  BY <1>26 DEF CreateAnchor, GlGoto
<1>27. CASE MapCard
  BY <1>27 DEF MapCard, GlGoto
<1>28. CASE AddAnchor
  BY <1>28 DEF AddAnchor, GlGoto
<1>29. CASE ShowToast
  BY <1>29 DEF ShowToast, GlGoto
<1>30. CASE ClearMessage
  BY <1>30 DEF ClearMessage, GlGoto
<1>31. CASE ValueCase \/ SuitCase \/ TrumpCase
  BY <1>31, SpinnerStep
<1>32. CASE SessionMade \/ SessionLost
  BY <1>32 DEF SessionMade, SessionLost
<1>33. CASE FrameThrows
  BY <1>33 DEF FrameThrows, GlGoto
<1>34. CASE DemoSuit \/ DemoValue
  BY <1>34 DEF DemoSuit, DemoValue, GlGoto
<1>35. CASE ReadValue \/ ReadSuit
  BY <1>35 DEF ReadValue, ReadSuit, GlGoto
<1>36. CASE TrackCard
  BY <1>36 DEF TrackCard, GlGoto
<1> QED
  BY <1>1, <1>2, <1>3, <1>4, <1>5, <1>6, <1>7, <1>8, <1>9, <1>10, <1>11,
     <1>12, <1>13, <1>14, <1>15, <1>16, <1>17, <1>18, <1>19, <1>20, <1>21,
     <1>22, <1>23, <1>24, <1>25, <1>26, <1>27, <1>28, <1>29, <1>30, <1>31,
     <1>32, <1>33, <1>34, <1>35, <1>36
  DEF Next, UserEvent, UiStep, GlStep

(* The cap holds at every point of handleTap.                              *)
LEMMA CapStep ==
    ASSUME ValuesOK, CapInv, Next
    PROVE  CapInv'
<1> USE DEF CapInv, AnchorCap, Choosing
<1>1. CASE onSingleTapUp
  BY <1>1 DEF onSingleTapUp
<1>2. CASE \E i \in ValueItems : SelectValue(i)
  BY <1>2, SpinnerStep
<1>3. CASE \E i \in SuitItems : SelectSuit(i)
  BY <1>3, SpinnerStep
<1>4. CASE \E i \in SuitItems : SelectTrump(i)
  BY <1>4, SpinnerStep
<1>5. CASE SubmitClick
  BY <1>5 DEF SubmitClick
<1>6. CASE ResetClick
  BY <1>6 DEF ResetClick
<1>7. CASE Relaunch
  BY <1>7, TableAssumption DEF Relaunch
<1>8. CASE SubmitSayEmpty
  BY <1>8 DEF SubmitSayEmpty, UiGoto
<1>9. CASE SubmitAlloc
  BY <1>9 DEF SubmitAlloc, UiGoto
<1>10. CASE SubmitIterator
  BY <1>10 DEF SubmitIterator, UiGoto
<1>11. CASE SubmitHasNext
  BY <1>11 DEF SubmitHasNext, UiGoto
<1>12. CASE SubmitNext
  BY <1>12 DEF SubmitNext, UiGoto
<1>13. CASE SubmitGet
  BY <1>13 DEF SubmitGet, UiGoto
<1>14. CASE SubmitJudge
  BY <1>14 DEF SubmitJudge, UiGoto
<1>15. CASE ResetWhile
  BY <1>15 DEF ResetWhile, UiGoto
<1>16. CASE ResetDetach
  BY <1>16 DEF ResetDetach, UiGoto
<1>17. CASE ResetRemove
  <2>1. CASE anchors = <<>>
    BY <1>17, <2>1 DEF ResetRemove, UiGoto
  <2>2. CASE anchors # <<>>
    <3>1. anchors' = Tail(anchors) /\ glPc' = glPc
      BY <1>17, <2>2 DEF ResetRemove, UiGoto
    <3>2. /\ Len(anchors) \in Nat /\ Len(anchors') = Len(anchors) - 1
      BY <2>2, <3>1, TailSeq DEF ValuesOK
    <3> QED
      BY <3>1, <3>2, TableAssumption
  <2> QED
    BY <2>1, <2>2
<1>18. CASE ResetClear
  BY <1>18 DEF ResetClear, UiGoto
<1>19. CASE \E t \in {"TRACKING", "PAUSED", "STOPPED"} : FrameWithoutCard(t)
  BY <1>19 DEF FrameWithoutCard, GlGoto
<1>20. CASE FrameWithHit
  BY <1>20 DEF FrameWithHit, GlGoto
<1>21. CASE CheckSize
  <2>1. Len(anchors) \in Nat
    BY DEF ValuesOK
  <2> QED
    BY <1>21, <2>1, TableAssumption DEF CheckSize, GlGoto, TableIsFull
<1>22. CASE EvictDetach
  BY <1>22 DEF EvictDetach, GlGoto
<1>23. CASE EvictRemove
  <2>1. CASE anchors = <<>>
    BY <1>23, <2>1 DEF EvictRemove, GlGoto
  <2>2. CASE anchors # <<>>
    <3>1. anchors' = Tail(anchors) /\ glPc' = "untrack"
      BY <1>23, <2>2 DEF EvictRemove, GlGoto
    <3>2. /\ Len(anchors) \in Nat /\ Len(anchors') = Len(anchors) - 1
      BY <2>2, <3>1, TailSeq DEF ValuesOK
    <3> QED
      BY <3>1, <3>2, TableAssumption
  <2> QED
    BY <2>1, <2>2
<1>24. CASE EvictUntrack
  BY <1>24 DEF EvictUntrack, GlGoto
<1>25. CASE EvictUnmap
  BY <1>25 DEF EvictUnmap, GlGoto
<1>26. CASE CreateAnchor
  BY <1>26 DEF CreateAnchor, GlGoto
<1>27. CASE MapCard
  BY <1>27 DEF MapCard, GlGoto
<1>28. CASE AddAnchor
  <2>1. Len(anchors) \in Nat /\ Len(anchors') = Len(anchors) + 1 /\ glPc' = "toast"
    BY <1>28 DEF AddAnchor, GlGoto, ValuesOK
  <2> QED
    BY <1>28, <2>1, TableAssumption DEF AddAnchor
<1>29. CASE ShowToast
  BY <1>29 DEF ShowToast, GlGoto
<1>30. CASE ClearMessage
  BY <1>30 DEF ClearMessage, GlGoto
<1>31. CASE ValueCase \/ SuitCase \/ TrumpCase
  BY <1>31, SpinnerStep
<1>32. CASE SessionMade \/ SessionLost
  BY <1>32 DEF SessionMade, SessionLost
<1>33. CASE FrameThrows
  BY <1>33 DEF FrameThrows, GlGoto
<1>34. CASE DemoSuit \/ DemoValue
  BY <1>34 DEF DemoSuit, DemoValue, GlGoto
<1>35. CASE ReadValue \/ ReadSuit
  BY <1>35 DEF ReadValue, ReadSuit, GlGoto
<1>36. CASE TrackCard
  BY <1>36 DEF TrackCard, GlGoto
<1> QED
  BY <1>1, <1>2, <1>3, <1>4, <1>5, <1>6, <1>7, <1>8, <1>9, <1>10, <1>11,
     <1>12, <1>13, <1>14, <1>15, <1>16, <1>17, <1>18, <1>19, <1>20, <1>21,
     <1>22, <1>23, <1>24, <1>25, <1>26, <1>27, <1>28, <1>29, <1>30, <1>31,
     <1>32, <1>33, <1>34, <1>35, <1>36
  DEF Next, UserEvent, UiStep, GlStep

(* A Reset that is not raced keeps the table to itself.                    *)
LEMMA ResetStep ==
    ASSUME ValuesOK, ResetInv, Next
    PROVE  ResetInv'
<1> USE DEF ResetInv, Submitting, Resetting, Selecting, Updating,
           Choosing, Evicting, Filling
<1>1. CASE onSingleTapUp
  BY <1>1 DEF onSingleTapUp
<1>2. CASE \E i \in ValueItems : SelectValue(i)
  BY <1>2, SpinnerStep
<1>3. CASE \E i \in SuitItems : SelectSuit(i)
  BY <1>3, SpinnerStep
<1>4. CASE \E i \in SuitItems : SelectTrump(i)
  BY <1>4, SpinnerStep
<1>5. CASE SubmitClick
  BY <1>5 DEF SubmitClick
<1>6. CASE ResetClick
  BY <1>6 DEF ResetClick
<1>7. CASE Relaunch
  BY <1>7 DEF Relaunch
<1>8. CASE SubmitSayEmpty
  BY <1>8 DEF SubmitSayEmpty, UiGoto
<1>9. CASE SubmitAlloc
  BY <1>9 DEF SubmitAlloc, UiGoto
<1>10. CASE SubmitIterator
  BY <1>10 DEF SubmitIterator, UiGoto
<1>11. CASE SubmitHasNext
  BY <1>11 DEF SubmitHasNext, UiGoto
<1>12. CASE SubmitNext
  BY <1>12 DEF SubmitNext, UiGoto
<1>13. CASE SubmitGet
  BY <1>13 DEF SubmitGet, UiGoto
<1>14. CASE SubmitJudge
  BY <1>14 DEF SubmitJudge, UiGoto
<1>15. CASE ResetWhile
  BY <1>15 DEF ResetWhile, UiGoto
<1>16. CASE ResetDetach
  BY <1>16 DEF ResetDetach, UiGoto
<1>17. CASE ResetRemove
  BY <1>17 DEF ResetRemove, UiGoto
<1>18. CASE ResetClear
  BY <1>18 DEF ResetClear, UiGoto
<1>19. CASE \E t \in {"TRACKING", "PAUSED", "STOPPED"} : FrameWithoutCard(t)
  BY <1>19 DEF FrameWithoutCard, GlGoto
<1>20. CASE FrameWithHit
  BY <1>20 DEF FrameWithHit, GlGoto
<1>21. CASE CheckSize
  BY <1>21 DEF CheckSize, GlGoto
<1>22. CASE EvictDetach
  BY <1>22 DEF EvictDetach, GlGoto
<1>23. CASE EvictRemove
  BY <1>23 DEF EvictRemove, GlGoto
<1>24. CASE EvictUntrack
  BY <1>24 DEF EvictUntrack, GlGoto
<1>25. CASE EvictUnmap
  BY <1>25 DEF EvictUnmap, GlGoto
<1>26. CASE CreateAnchor
  BY <1>26 DEF CreateAnchor, GlGoto
<1>27. CASE MapCard
  BY <1>27 DEF MapCard, GlGoto
<1>28. CASE AddAnchor
  BY <1>28 DEF AddAnchor, GlGoto
<1>29. CASE ShowToast
  BY <1>29 DEF ShowToast, GlGoto
<1>30. CASE ClearMessage
  BY <1>30 DEF ClearMessage, GlGoto
<1>31. CASE ValueCase \/ SuitCase \/ TrumpCase
  BY <1>31, SpinnerStep
<1>32. CASE SessionMade \/ SessionLost
  BY <1>32 DEF SessionMade, SessionLost
<1>33. CASE FrameThrows
  BY <1>33 DEF FrameThrows, GlGoto
<1>34. CASE DemoSuit \/ DemoValue
  BY <1>34 DEF DemoSuit, DemoValue, GlGoto
<1>35. CASE ReadValue \/ ReadSuit
  BY <1>35 DEF ReadValue, ReadSuit, GlGoto
<1>36. CASE TrackCard
  BY <1>36 DEF TrackCard, GlGoto
<1> QED
  BY <1>1, <1>2, <1>3, <1>4, <1>5, <1>6, <1>7, <1>8, <1>9, <1>10, <1>11,
     <1>12, <1>13, <1>14, <1>15, <1>16, <1>17, <1>18, <1>19, <1>20, <1>21,
     <1>22, <1>23, <1>24, <1>25, <1>26, <1>27, <1>28, <1>29, <1>30, <1>31,
     <1>32, <1>33, <1>34, <1>35, <1>36
  DEF Next, UserEvent, UiStep, GlStep

(* The record of an eviction stays while it is carried out.                *)
LEMMA EvictStep ==
    ASSUME ResetInv, EvictInv, Next
    PROVE  EvictInv'
<1> USE DEF EvictInv, Submitting, Resetting, Selecting, Updating,
           Choosing, Evicting, Filling
<1>1. CASE onSingleTapUp
  BY <1>1 DEF onSingleTapUp
<1>2. CASE \E i \in ValueItems : SelectValue(i)
  BY <1>2, SpinnerStep
<1>3. CASE \E i \in SuitItems : SelectSuit(i)
  BY <1>3, SpinnerStep
<1>4. CASE \E i \in SuitItems : SelectTrump(i)
  BY <1>4, SpinnerStep
<1>5. CASE SubmitClick
  BY <1>5 DEF SubmitClick
<1>6. CASE ResetClick
  BY <1>6 DEF ResetClick
<1>7. CASE Relaunch
  BY <1>7 DEF Relaunch
<1>8. CASE SubmitSayEmpty
  BY <1>8 DEF SubmitSayEmpty, UiGoto
<1>9. CASE SubmitAlloc
  BY <1>9 DEF SubmitAlloc, UiGoto
<1>10. CASE SubmitIterator
  BY <1>10 DEF SubmitIterator, UiGoto
<1>11. CASE SubmitHasNext
  BY <1>11 DEF SubmitHasNext, UiGoto
<1>12. CASE SubmitNext
  BY <1>12 DEF SubmitNext, UiGoto
<1>13. CASE SubmitGet
  BY <1>13 DEF SubmitGet, UiGoto
<1>14. CASE SubmitJudge
  BY <1>14 DEF SubmitJudge, UiGoto
<1>15. CASE ResetWhile
  <2>1. glPc' = glPc /\ (raced \/ glPc \notin Updating)
    BY <1>15 DEF ResetWhile, UiGoto, ResetInv
  <2>2. CASE raced
    BY <1>15, <2>1, <2>2 DEF ResetWhile
  <2>3. CASE ~raced
    BY <2>1, <2>3
  <2> QED
    BY <2>2, <2>3
<1>16. CASE ResetDetach
  BY <1>16 DEF ResetDetach, UiGoto
<1>17. CASE ResetRemove
  BY <1>17 DEF ResetRemove, UiGoto
<1>18. CASE ResetClear
  BY <1>18 DEF ResetClear, UiGoto
<1>19. CASE \E t \in {"TRACKING", "PAUSED", "STOPPED"} : FrameWithoutCard(t)
  BY <1>19 DEF FrameWithoutCard, GlGoto
<1>20. CASE FrameWithHit
  BY <1>20 DEF FrameWithHit, GlGoto
<1>21. CASE CheckSize
  BY <1>21 DEF CheckSize, GlGoto
<1>22. CASE EvictDetach
  BY <1>22 DEF EvictDetach, GlGoto
<1>23. CASE EvictRemove
  BY <1>23 DEF EvictRemove, GlGoto
<1>24. CASE EvictUntrack
  BY <1>24 DEF EvictUntrack, GlGoto
<1>25. CASE EvictUnmap
  BY <1>25 DEF EvictUnmap, GlGoto
<1>26. CASE CreateAnchor
  BY <1>26 DEF CreateAnchor, GlGoto
<1>27. CASE MapCard
  BY <1>27 DEF MapCard, GlGoto
<1>28. CASE AddAnchor
  BY <1>28 DEF AddAnchor, GlGoto
<1>29. CASE ShowToast
  BY <1>29 DEF ShowToast, GlGoto
<1>30. CASE ClearMessage
  BY <1>30 DEF ClearMessage, GlGoto
<1>31. CASE ValueCase \/ SuitCase \/ TrumpCase
  BY <1>31, SpinnerStep
<1>32. CASE SessionMade \/ SessionLost
  BY <1>32 DEF SessionMade, SessionLost
<1>33. CASE FrameThrows
  BY <1>33 DEF FrameThrows, GlGoto
<1>34. CASE DemoSuit \/ DemoValue
  BY <1>34 DEF DemoSuit, DemoValue, GlGoto
<1>35. CASE ReadValue \/ ReadSuit
  BY <1>35 DEF ReadValue, ReadSuit, GlGoto
<1>36. CASE TrackCard
  BY <1>36 DEF TrackCard, GlGoto
<1> QED
  BY <1>1, <1>2, <1>3, <1>4, <1>5, <1>6, <1>7, <1>8, <1>9, <1>10, <1>11,
     <1>12, <1>13, <1>14, <1>15, <1>16, <1>17, <1>18, <1>19, <1>20, <1>21,
     <1>22, <1>23, <1>24, <1>25, <1>26, <1>27, <1>28, <1>29, <1>30, <1>31,
     <1>32, <1>33, <1>34, <1>35, <1>36
  DEF Next, UserEvent, UiStep, GlStep

(* Taps, the tap under way and anchors stay in order.                      *)
LEMMA OrderStep ==
    ASSUME ValuesOK, TapInv, OrderInv, Next
    PROVE  OrderInv'
<1> USE DEF OrderInv, MarkOrder, Submitting, Resetting, Selecting, Updating,
           Choosing, Evicting, Filling
<1>1. CASE onSingleTapUp
  <2>1. nextTap \in Taps /\ nextTap' = nextTap + 1 /\ UNCHANGED <<anchors, glPc, glTap>>
    BY <1>1, TableAssumption DEF onSingleTapUp, ValuesOK, Taps
  <2>2. /\ nextTap \in Nat /\ glTap \in Nat
        /\ \A j \in 1..Len(queuedSingleTaps) : queuedSingleTaps[j] \in Nat
        /\ \A i \in 1..Len(anchors) : anchors[i] \in Nat
    <3>1. Taps \cup {0} \subseteq Nat
      BY DEF Taps
    <3>2. \A j \in 1..Len(queuedSingleTaps) : queuedSingleTaps[j] \in Taps
      BY DEF ValuesOK
    <3>3. \A i \in 1..Len(anchors) : anchors[i] \in Taps
      BY DEF ValuesOK
    <3> QED
      BY <2>1, <3>1, <3>2, <3>3 DEF ValuesOK
  <2>3. CASE queuedSingleTaps' = queuedSingleTaps
    BY <2>1, <2>2, <2>3
  <2>4. CASE queuedSingleTaps' = Append(queuedSingleTaps, nextTap)
    <3>1. /\ Len(queuedSingleTaps) \in Nat
          /\ Len(queuedSingleTaps') = Len(queuedSingleTaps) + 1
          /\ \A i \in 1..Len(queuedSingleTaps) : queuedSingleTaps'[i] = queuedSingleTaps[i]
          /\ queuedSingleTaps'[Len(queuedSingleTaps) + 1] = nextTap
      BY <2>1, <2>4, AppendSeq DEF ValuesOK
    <3>2. \A j \in 1..Len(queuedSingleTaps') :
             \/ j \in 1..Len(queuedSingleTaps) /\ queuedSingleTaps'[j] = queuedSingleTaps[j]
             \/ j = Len(queuedSingleTaps) + 1 /\ queuedSingleTaps'[j] = nextTap
      BY <3>1
    <3>3. \A i, j \in 1..Len(queuedSingleTaps') :
             i < j => queuedSingleTaps'[i] < queuedSingleTaps'[j]
      BY <2>2, <3>1, <3>2
    <3>4. \A j \in 1..Len(queuedSingleTaps') : queuedSingleTaps'[j] < nextTap'
      BY <2>1, <2>2, <3>2
    <3>5. \A i \in 1..Len(anchors'), j \in 1..Len(queuedSingleTaps') :
             anchors'[i] < queuedSingleTaps'[j]
      BY <2>1, <2>2, <3>2
    <3>6. glPc \in Updating => \A j \in 1..Len(queuedSingleTaps') : glTap < queuedSingleTaps'[j]
      BY <2>2, <3>2
    <3> QED
      BY <2>1, <2>2, <3>3, <3>4, <3>5, <3>6
  <2> QED
    BY <1>1, <2>3, <2>4 DEF onSingleTapUp
<1>2. CASE \E i \in ValueItems : SelectValue(i)
  BY <1>2, SpinnerStep
<1>3. CASE \E i \in SuitItems : SelectSuit(i)
  BY <1>3, SpinnerStep
<1>4. CASE \E i \in SuitItems : SelectTrump(i)
  BY <1>4, SpinnerStep
<1>5. CASE SubmitClick
  BY <1>5 DEF SubmitClick
<1>6. CASE ResetClick
  BY <1>6 DEF ResetClick
<1>7. CASE Relaunch
  BY <1>7 DEF Relaunch
<1>8. CASE SubmitSayEmpty
  BY <1>8 DEF SubmitSayEmpty, UiGoto
<1>9. CASE SubmitAlloc
  BY <1>9 DEF SubmitAlloc, UiGoto
<1>10. CASE SubmitIterator
  BY <1>10 DEF SubmitIterator, UiGoto
<1>11. CASE SubmitHasNext
  BY <1>11 DEF SubmitHasNext, UiGoto
<1>12. CASE SubmitNext
  BY <1>12 DEF SubmitNext, UiGoto
<1>13. CASE SubmitGet
  BY <1>13 DEF SubmitGet, UiGoto
<1>14. CASE SubmitJudge
  BY <1>14 DEF SubmitJudge, UiGoto
<1>15. CASE ResetWhile
  BY <1>15 DEF ResetWhile, UiGoto
<1>16. CASE ResetDetach
  BY <1>16 DEF ResetDetach, UiGoto
<1>17. CASE ResetRemove
  <2>1. CASE anchors = <<>>
    BY <1>17, <2>1 DEF ResetRemove, UiGoto
  <2>2. CASE anchors # <<>>
    <3>1. anchors' = Tail(anchors) /\ UNCHANGED <<queuedSingleTaps, nextTap, glPc, glTap>>
      BY <1>17, <2>2 DEF ResetRemove, UiGoto
    <3>2. /\ Len(anchors) \in Nat /\ Len(anchors') = Len(anchors) - 1
          /\ \A i \in 1..Len(anchors') : anchors'[i] = anchors[i + 1]
      BY <2>2, <3>1, TailSeq DEF ValuesOK
    <3> QED
      BY <3>1, <3>2
  <2> QED
    BY <2>1, <2>2
<1>18. CASE ResetClear
  BY <1>18 DEF ResetClear, UiGoto
<1>19. CASE \E t \in {"TRACKING", "PAUSED", "STOPPED"} : FrameWithoutCard(t)
  BY <1>19 DEF FrameWithoutCard, GlGoto, Polled
<1>20. CASE FrameWithHit
  BY <1>20 DEF FrameWithHit, GlGoto, Polled
<1>21. CASE CheckSize
  BY <1>21 DEF CheckSize, GlGoto
<1>22. CASE EvictDetach
  BY <1>22 DEF EvictDetach, GlGoto
<1>23. CASE EvictRemove
  <2>1. CASE anchors = <<>>
    BY <1>23, <2>1 DEF EvictRemove, GlGoto
  <2>2. CASE anchors # <<>>
    <3>1. anchors' = Tail(anchors) /\ glPc' = "untrack"
          /\ glPc \in Updating /\ UNCHANGED <<queuedSingleTaps, nextTap, glTap>>
      BY <1>23, <2>2 DEF EvictRemove, GlGoto
    <3>2. /\ Len(anchors) \in Nat /\ Len(anchors') = Len(anchors) - 1
          /\ \A i \in 1..Len(anchors') : anchors'[i] = anchors[i + 1]
      BY <2>2, <3>1, TailSeq DEF ValuesOK
    <3> QED
      BY <3>1, <3>2
  <2> QED
    BY <2>1, <2>2
<1>24. CASE EvictUntrack
  BY <1>24 DEF EvictUntrack, GlGoto
<1>25. CASE EvictUnmap
  BY <1>25 DEF EvictUnmap, GlGoto
<1>26. CASE CreateAnchor
  BY <1>26 DEF CreateAnchor, GlGoto
<1>27. CASE MapCard
  BY <1>27 DEF MapCard, GlGoto
<1>28. CASE AddAnchor
  BY <1>28 DEF AddAnchor, GlGoto
<1>29. CASE ShowToast
  BY <1>29 DEF ShowToast, GlGoto
<1>30. CASE ClearMessage
  BY <1>30 DEF ClearMessage, GlGoto
<1>31. CASE ValueCase \/ SuitCase \/ TrumpCase
  BY <1>31, SpinnerStep
<1>32. CASE SessionMade \/ SessionLost
  BY <1>32 DEF SessionMade, SessionLost
<1>33. CASE FrameThrows
  BY <1>33 DEF FrameThrows, GlGoto
<1>34. CASE DemoSuit \/ DemoValue
  BY <1>34 DEF DemoSuit, DemoValue, GlGoto
<1>35. CASE ReadValue \/ ReadSuit
  BY <1>35 DEF ReadValue, ReadSuit, GlGoto
<1>36. CASE TrackCard
  BY <1>36 DEF TrackCard, GlGoto
<1> QED
  BY <1>1, <1>2, <1>3, <1>4, <1>5, <1>6, <1>7, <1>8, <1>9, <1>10, <1>11,
     <1>12, <1>13, <1>14, <1>15, <1>16, <1>17, <1>18, <1>19, <1>20, <1>21,
     <1>22, <1>23, <1>24, <1>25, <1>26, <1>27, <1>28, <1>29, <1>30, <1>31,
     <1>32, <1>33, <1>34, <1>35, <1>36
  DEF Next, UserEvent, UiStep, GlStep

(* Submit keeps reading its snapshot.                                      *)
LEMMA ReadStep ==
    ASSUME ValuesOK, EvictInv, ReadInv, Next
    PROVE  ReadInv'
<1> USE DEF ReadInv, Submitting, Resetting, Selecting, Updating,
           Choosing, Evicting, Filling
<1>1. CASE onSingleTapUp
  BY <1>1 DEF onSingleTapUp
<1>2. CASE \E i \in ValueItems : SelectValue(i)
  BY <1>2, SpinnerStep
<1>3. CASE \E i \in SuitItems : SelectSuit(i)
  BY <1>3, SpinnerStep
<1>4. CASE \E i \in SuitItems : SelectTrump(i)
  BY <1>4, SpinnerStep
<1>5. CASE SubmitClick
  BY <1>5 DEF SubmitClick
<1>6. CASE ResetClick
  BY <1>6 DEF ResetClick
<1>7. CASE Relaunch
  BY <1>7 DEF Relaunch
<1>8. CASE SubmitSayEmpty
  BY <1>8 DEF SubmitSayEmpty, UiGoto
<1>9. CASE SubmitAlloc
  BY <1>9 DEF SubmitAlloc, UiGoto
<1>10. CASE SubmitIterator
  <2>1. /\ uiPc' = "hasNext" /\ cursor' = 0 /\ ~stale' /\ marks' = <<>> /\ trick' = <<>>
        /\ snapshot' = anchors /\ anchors' = anchors
    BY <1>10 DEF SubmitIterator, UiGoto
  <2>2. Len(anchors) \in Nat
    BY DEF ValuesOK
  <2> QED
    BY <2>1, <2>2
<1>11. CASE SubmitHasNext
  BY <1>11 DEF SubmitHasNext, UiGoto
<1>12. CASE SubmitNext
  <2>1. CASE stale
    BY <1>12, <2>1 DEF SubmitNext, IteratorThrows, UiGoto
  <2>2. CASE ~stale
    <3>1. /\ uiPc' = "get" /\ cursor' = cursor + 1 /\ marks' = Append(marks, anchors[cursor + 1])
          /\ UNCHANGED <<anchors, snapshot, trick, stale, evicted>>
      BY <1>12, <2>2 DEF SubmitNext, IteratorThrows, UiGoto
    <3>2. /\ anchors = snapshot /\ cursor < Len(snapshot) /\ Len(marks) = cursor
          /\ Len(trick) = Len(marks) /\ \A i \in 1..Len(marks) : marks[i] = snapshot[i]
      BY <1>12, <2>2 DEF SubmitNext, ValuesOK
    <3>3. anchors[cursor + 1] \in Taps
      BY <3>2 DEF ValuesOK
    <3>4. /\ Len(marks') = Len(marks) + 1 /\ marks'[Len(marks) + 1] = snapshot[cursor + 1]
          /\ \A i \in 1..Len(marks) : marks'[i] = marks[i]
      BY <3>1, <3>2, <3>3, AppendSeq DEF ValuesOK
    <3> QED
      BY <2>2, <3>1, <3>2, <3>4 DEF ValuesOK
  <2> QED
    BY <2>1, <2>2
<1>13. CASE SubmitGet
  BY <1>13 DEF SubmitGet, UiGoto
<1>14. CASE SubmitJudge
  BY <1>14 DEF SubmitJudge, UiGoto
<1>15. CASE ResetWhile
  BY <1>15 DEF ResetWhile, UiGoto
<1>16. CASE ResetDetach
  BY <1>16 DEF ResetDetach, UiGoto
<1>17. CASE ResetRemove
  BY <1>17 DEF ResetRemove, UiGoto
<1>18. CASE ResetClear
  BY <1>18 DEF ResetClear, UiGoto
<1>19. CASE \E t \in {"TRACKING", "PAUSED", "STOPPED"} : FrameWithoutCard(t)
  BY <1>19 DEF FrameWithoutCard, GlGoto
<1>20. CASE FrameWithHit
  BY <1>20 DEF FrameWithHit, GlGoto
<1>21. CASE CheckSize
  BY <1>21 DEF CheckSize, GlGoto
<1>22. CASE EvictDetach
  BY <1>22 DEF EvictDetach, GlGoto
<1>23. CASE EvictRemove
  <2>1. evicted /\ evicted' /\ UNCHANGED <<uiPc, cursor, marks, trick, snapshot>>
    BY <1>23 DEF EvictRemove, EvictInv
  <2>2. CASE anchors = <<>>
    BY <1>23, <2>1, <2>2 DEF EvictRemove
  <2>3. CASE anchors # <<>>
    <3>1. stale' = (uiPc \in Filling)
      BY <1>23, <2>3 DEF EvictRemove
    <3> QED
      BY <2>1, <3>1
  <2> QED
    BY <2>2, <2>3
<1>24. CASE EvictUntrack
  BY <1>24 DEF EvictUntrack, GlGoto
<1>25. CASE EvictUnmap
  BY <1>25 DEF EvictUnmap, GlGoto
<1>26. CASE CreateAnchor
  BY <1>26 DEF CreateAnchor, GlGoto
<1>27. CASE MapCard
  BY <1>27 DEF MapCard, GlGoto
<1>28. CASE AddAnchor
  <2>1. stale' = (uiPc \in Filling) /\ UNCHANGED <<uiPc, cursor, marks, trick, snapshot, evicted>>
    BY <1>28 DEF AddAnchor
  <2>2. CASE uiPc \in Filling
    <3>1. Len(anchors') = Len(anchors) + 1 /\ Len(anchors) \in Nat /\ Len(snapshot) \in Nat
      BY <1>28 DEF AddAnchor, ValuesOK
    <3>2. evicted \/ Len(anchors) >= Len(snapshot)
      BY <2>2, <3>1
    <3>3. stale'
      BY <2>1, <2>2
    <3>4. evicted' \/ Len(anchors') > Len(snapshot')
      BY <2>1, <3>1, <3>2
    <3> QED
      BY <2>1, <2>2, <3>3, <3>4
  <2>3. CASE uiPc \notin Filling
    BY <2>1, <2>3
  <2> QED
    BY <2>2, <2>3
<1>29. CASE ShowToast
  BY <1>29 DEF ShowToast, GlGoto
<1>30. CASE ClearMessage
  BY <1>30 DEF ClearMessage, GlGoto
<1>31. CASE ValueCase \/ SuitCase \/ TrumpCase
  BY <1>31, SpinnerStep
<1>32. CASE SessionMade \/ SessionLost
  BY <1>32 DEF SessionMade, SessionLost
<1>33. CASE FrameThrows
  BY <1>33 DEF FrameThrows, GlGoto
<1>34. CASE DemoSuit \/ DemoValue
  BY <1>34 DEF DemoSuit, DemoValue, GlGoto
<1>35. CASE ReadValue \/ ReadSuit
  BY <1>35 DEF ReadValue, ReadSuit, GlGoto
<1>36. CASE TrackCard
  BY <1>36 DEF TrackCard, GlGoto
<1> QED
  BY <1>1, <1>2, <1>3, <1>4, <1>5, <1>6, <1>7, <1>8, <1>9, <1>10, <1>11,
     <1>12, <1>13, <1>14, <1>15, <1>16, <1>17, <1>18, <1>19, <1>20, <1>21,
     <1>22, <1>23, <1>24, <1>25, <1>26, <1>27, <1>28, <1>29, <1>30, <1>31,
     <1>32, <1>33, <1>34, <1>35, <1>36
  DEF Next, UserEvent, UiStep, GlStep

(* The two lists keep their distance.                                      *)
LEMMA AgreeStep ==
    ASSUME ValuesOK, TapInv, ResetInv, AgreeInv, Next
    PROVE  AgreeInv'
<1> USE DEF AgreeInv, Submitting, Resetting, Selecting, Updating,
           Choosing, Evicting, Filling
<1>1. CASE onSingleTapUp
  BY <1>1 DEF onSingleTapUp
<1>2. CASE \E i \in ValueItems : SelectValue(i)
  BY <1>2, SpinnerStep
<1>3. CASE \E i \in SuitItems : SelectSuit(i)
  BY <1>3, SpinnerStep
<1>4. CASE \E i \in SuitItems : SelectTrump(i)
  BY <1>4, SpinnerStep
<1>5. CASE SubmitClick
  <2>1. uiPc \notin Resetting /\ uiPc' \notin Resetting /\ UNCHANGED <<trackingCards, anchors, glPc, raced>>
    BY <1>5 DEF SubmitClick, UiIdle
  <2> QED
    BY <2>1
<1>6. CASE ResetClick
  BY <1>6 DEF ResetClick
<1>7. CASE Relaunch
  BY <1>7 DEF Relaunch
<1>8. CASE SubmitSayEmpty
  BY <1>8 DEF SubmitSayEmpty, UiGoto
<1>9. CASE SubmitAlloc
  BY <1>9 DEF SubmitAlloc, UiGoto
<1>10. CASE SubmitIterator
  BY <1>10 DEF SubmitIterator, UiGoto
<1>11. CASE SubmitHasNext
  BY <1>11 DEF SubmitHasNext, UiGoto
<1>12. CASE SubmitNext
  BY <1>12 DEF SubmitNext, UiGoto
<1>13. CASE SubmitGet
  BY <1>13 DEF SubmitGet, UiGoto
<1>14. CASE SubmitJudge
  BY <1>14 DEF SubmitJudge, UiGoto
<1>15. CASE ResetWhile
  <2>1. (raced => raced') /\ UNCHANGED <<trackingCards, anchors, glPc>>
    BY <1>15 DEF ResetWhile, UiGoto
  <2>2. CASE anchors = <<>>
    <3>1. raced \/ (glPc \notin Updating /\ trackingCards = <<>>)
      BY <1>15 DEF ResetWhile, ResetInv
    <3>2. CASE raced
      BY <2>1, <3>2
    <3>3. CASE glPc \notin Updating /\ trackingCards = <<>>
      <4>1. glPc' \notin {"untrack", "map", "add"} /\ Len(trackingCards') = Len(anchors') + 0
        BY <2>1, <2>2, <3>3
      <4> QED
        BY <4>1
    <3> QED
      BY <3>1, <3>2, <3>3
  <2>3. CASE anchors # <<>>
    BY <1>15, <2>3 DEF ResetWhile, UiGoto
  <2> QED
    BY <2>2, <2>3
<1>16. CASE ResetDetach
  <2>1. raced \/ anchors # <<>>
    BY <1>16 DEF ResetDetach, ResetInv
  <2> QED
    BY <1>16, <2>1 DEF ResetDetach, UiGoto
<1>17. CASE ResetRemove
  <2>1. raced \/ anchors # <<>>
    BY <1>17 DEF ResetRemove, ResetInv
  <2> QED
    BY <1>17, <2>1 DEF ResetRemove, UiGoto
<1>18. CASE ResetClear
  BY <1>18 DEF ResetClear, UiGoto
<1>19. CASE \E t \in {"TRACKING", "PAUSED", "STOPPED"} : FrameWithoutCard(t)
  BY <1>19 DEF FrameWithoutCard, GlGoto
<1>20. CASE FrameWithHit
  BY <1>20 DEF FrameWithHit, GlGoto
<1>21. CASE CheckSize
  BY <1>21 DEF CheckSize, GlGoto
<1>22. CASE EvictDetach
  BY <1>22 DEF EvictDetach, GlGoto
<1>23. CASE EvictRemove
  <2>1. CASE anchors = <<>>
    BY <1>23, <2>1 DEF EvictRemove, GlGoto
  <2>2. CASE anchors # <<>>
    <3>1. anchors' = Tail(anchors) /\ glPc' = "untrack"
          /\ glPc = "remove" /\ (raced => raced') /\ UNCHANGED <<trackingCards, uiPc>>
      BY <1>23, <2>2 DEF EvictRemove, GlGoto
    <3>2. /\ Len(anchors) \in Nat /\ Len(anchors') = Len(anchors) - 1
      BY <2>2, <3>1, TailSeq DEF ValuesOK
    <3> QED
      BY <3>1, <3>2 DEF ValuesOK
  <2> QED
    BY <2>1, <2>2
<1>24. CASE EvictUntrack
  <2>1. CASE trackingCards = <<>>
    <3>1. glPc = "untrack" /\ (raced => raced') /\ UNCHANGED uiPc
      BY <1>24 DEF EvictUntrack, GlGoto
    <3>2. Len(trackingCards) = 0 /\ Len(anchors) \in Nat
      BY <2>1 DEF ValuesOK
    <3>3. raced \/ uiPc \in Resetting
      BY <3>1, <3>2
    <3> QED
      BY <3>1, <3>3
  <2>2. CASE trackingCards # <<>>
    <3>1. /\ trackingCards' = Tail(trackingCards) /\ glPc' = "unmap" /\ glPc = "untrack"
          /\ (raced => raced') /\ UNCHANGED <<anchors, uiPc>>
      BY <1>24, <2>2 DEF EvictUntrack, GlGoto
    <3>2. Len(trackingCards) \in Nat /\ Len(trackingCards') = Len(trackingCards) - 1
      BY <2>2, <3>1, TailSeq DEF ValuesOK
    <3> QED
      BY <3>1, <3>2 DEF ValuesOK
  <2> QED
    BY <2>1, <2>2
<1>25. CASE EvictUnmap
  BY <1>25 DEF EvictUnmap, GlGoto
<1>26. CASE CreateAnchor
  BY <1>26 DEF CreateAnchor, GlGoto
<1>27. CASE MapCard
  BY <1>27 DEF MapCard, GlGoto
<1>28. CASE AddAnchor
  <2>1. /\ glPc = "add" /\ glPc' = "toast" /\ (raced => raced')
        /\ anchors' = Append(anchors, glTap) /\ UNCHANGED <<trackingCards, uiPc>>
    BY <1>28 DEF AddAnchor, GlGoto
  <2>2. Len(anchors') = Len(anchors) + 1
    BY <2>1 DEF ValuesOK
  <2> QED
    BY <2>1, <2>2 DEF ValuesOK
<1>29. CASE ShowToast
  BY <1>29 DEF ShowToast, GlGoto
<1>30. CASE ClearMessage
  BY <1>30 DEF ClearMessage, GlGoto
<1>31. CASE ValueCase \/ SuitCase \/ TrumpCase
  BY <1>31, SpinnerStep
<1>32. CASE SessionMade \/ SessionLost
  BY <1>32 DEF SessionMade, SessionLost
<1>33. CASE FrameThrows
  BY <1>33 DEF FrameThrows, GlGoto
<1>34. CASE DemoSuit \/ DemoValue
  BY <1>34 DEF DemoSuit, DemoValue, GlGoto
<1>35. CASE ReadValue \/ ReadSuit
  BY <1>35 DEF ReadValue, ReadSuit, GlGoto
<1>36. CASE TrackCard
  <2>1. /\ glPc = "track" /\ glPc' = "map" /\ (raced => raced')
        /\ trackingCards' = Append(trackingCards, glCard) /\ UNCHANGED <<anchors, uiPc>>
    BY <1>36 DEF TrackCard, GlGoto
  <2>2. Len(trackingCards') = Len(trackingCards) + 1
    BY <2>1 DEF ValuesOK
  <2> QED
    BY <2>1, <2>2 DEF ValuesOK
<1> QED
  BY <1>1, <1>2, <1>3, <1>4, <1>5, <1>6, <1>7, <1>8, <1>9, <1>10, <1>11,
     <1>12, <1>13, <1>14, <1>15, <1>16, <1>17, <1>18, <1>19, <1>20, <1>21,
     <1>22, <1>23, <1>24, <1>25, <1>26, <1>27, <1>28, <1>29, <1>30, <1>31,
     <1>32, <1>33, <1>34, <1>35, <1>36
  DEF Next, UserEvent, UiStep, GlStep

(* Below the cap no card is lost.                                          *)
LEMMA MapStep ==
    ASSUME ValuesOK, TapInv, OrderInv, ResetInv, EvictInv, MapInv, Next
    PROVE  MapInv'
<1> USE DEF MapInv, Submitting, Resetting, Selecting, Updating,
           Choosing, Evicting, Filling
<1>1. CASE onSingleTapUp
  BY <1>1 DEF onSingleTapUp
<1>2. CASE \E i \in ValueItems : SelectValue(i)
  BY <1>2, SpinnerStep
<1>3. CASE \E i \in SuitItems : SelectSuit(i)
  BY <1>3, SpinnerStep
<1>4. CASE \E i \in SuitItems : SelectTrump(i)
  BY <1>4, SpinnerStep
<1>5. CASE SubmitClick
  <2>1. uiPc \notin Resetting /\ uiPc' \notin Resetting /\ UNCHANGED <<anchors, cardTypes, glPc, glTap, raced, evicted>>
    BY <1>5 DEF SubmitClick, UiIdle
  <2> QED
    BY <2>1
<1>6. CASE ResetClick
  BY <1>6 DEF ResetClick
<1>7. CASE Relaunch
  BY <1>7 DEF Relaunch
<1>8. CASE SubmitSayEmpty
  BY <1>8 DEF SubmitSayEmpty, UiGoto
<1>9. CASE SubmitAlloc
  BY <1>9 DEF SubmitAlloc, UiGoto
<1>10. CASE SubmitIterator
  BY <1>10 DEF SubmitIterator, UiGoto
<1>11. CASE SubmitHasNext
  BY <1>11 DEF SubmitHasNext, UiGoto
<1>12. CASE SubmitNext
  BY <1>12 DEF SubmitNext, UiGoto
<1>13. CASE SubmitGet
  BY <1>13 DEF SubmitGet, UiGoto
<1>14. CASE SubmitJudge
  BY <1>14 DEF SubmitJudge, UiGoto
<1>15. CASE ResetWhile
  <2>1. (raced => raced') /\ UNCHANGED <<anchors, cardTypes, glPc, glTap>>
    BY <1>15 DEF ResetWhile, UiGoto
  <2>2. CASE anchors = <<>>
    <3>1. raced \/ glPc \notin Updating
      BY <1>15 DEF ResetWhile, ResetInv
    <3>2. \A i \in 1..Len(anchors') : cardTypes'[anchors'[i]] # NULL
      BY <2>1, <2>2
    <3> QED
      BY <2>1, <3>1, <3>2
  <2>3. CASE anchors # <<>>
    BY <1>15, <2>3 DEF ResetWhile, UiGoto
  <2> QED
    BY <2>2, <2>3
<1>16. CASE ResetDetach
  <2>1. raced \/ anchors # <<>>
    BY <1>16 DEF ResetDetach, ResetInv
  <2> QED
    BY <1>16, <2>1 DEF ResetDetach, UiGoto
<1>17. CASE ResetRemove
  <2>1. raced \/ anchors # <<>>
    BY <1>17 DEF ResetRemove, ResetInv
  <2> QED
    BY <1>17, <2>1 DEF ResetRemove, UiGoto
<1>18. CASE ResetClear
  BY <1>18 DEF ResetClear, UiGoto
<1>19. CASE \E t \in {"TRACKING", "PAUSED", "STOPPED"} : FrameWithoutCard(t)
  <2>1. glPc' # "add" /\ (raced => raced') /\ UNCHANGED <<anchors, cardTypes, uiPc, evicted>>
    BY <1>19 DEF FrameWithoutCard, GlGoto
  <2> QED
    BY <2>1
<1>20. CASE FrameWithHit
  BY <1>20 DEF FrameWithHit, GlGoto
<1>21. CASE CheckSize
  BY <1>21 DEF CheckSize, GlGoto
<1>22. CASE EvictDetach
  BY <1>22 DEF EvictDetach, GlGoto
<1>23. CASE EvictRemove
  <2>1. evicted /\ evicted'
    BY <1>23 DEF EvictRemove, EvictInv
  <2> QED
    BY <2>1
<1>24. CASE EvictUntrack
  BY <1>24 DEF EvictUntrack, GlGoto
<1>25. CASE EvictUnmap
  <2>1. evicted /\ evicted'
    BY <1>25 DEF EvictUnmap, EvictInv
  <2> QED
    BY <2>1
<1>26. CASE CreateAnchor
  BY <1>26 DEF CreateAnchor, GlGoto
<1>27. CASE MapCard
  <2>1. /\ glPc' = "add" /\ (raced => raced') /\ cardTypes' = [cardTypes EXCEPT ![glTap] = glCard]
        /\ UNCHANGED <<anchors, glTap, uiPc, evicted>>
    BY <1>27 DEF MapCard, GlGoto
  <2>2. glTap \in Taps /\ glCard # NULL
    BY <1>27, NullAssumption DEF MapCard, TapInv, ValuesOK, Cards
  <2>3. \A a \in Taps : cardTypes'[a] = IF a = glTap THEN glCard ELSE cardTypes[a]
    BY <2>1, <2>2 DEF ValuesOK
  <2>4. \A i \in 1..Len(anchors) : anchors[i] \in Taps
    BY DEF ValuesOK
  <2> QED
    BY <2>1, <2>2, <2>3, <2>4
<1>28. CASE AddAnchor
  <2>1. /\ glPc = "add" /\ glPc' = "toast" /\ (raced => raced')
        /\ anchors' = Append(anchors, glTap) /\ UNCHANGED <<cardTypes, uiPc, evicted>>
    BY <1>28 DEF AddAnchor, GlGoto
  <2>2. /\ Len(anchors') = Len(anchors) + 1 /\ Len(anchors) \in Nat
        /\ \A i \in 1..Len(anchors) : anchors'[i] = anchors[i]
        /\ anchors'[Len(anchors) + 1] = glTap
    BY <2>1, AppendSeq DEF ValuesOK, TapInv
  <2> QED
    BY <2>1, <2>2
<1>29. CASE ShowToast
  BY <1>29 DEF ShowToast, GlGoto
<1>30. CASE ClearMessage
  BY <1>30 DEF ClearMessage, GlGoto
<1>31. CASE ValueCase \/ SuitCase \/ TrumpCase
  BY <1>31, SpinnerStep
<1>32. CASE SessionMade \/ SessionLost
  BY <1>32 DEF SessionMade, SessionLost
<1>33. CASE FrameThrows
  BY <1>33 DEF FrameThrows, GlGoto
<1>34. CASE DemoSuit \/ DemoValue
  BY <1>34 DEF DemoSuit, DemoValue, GlGoto
<1>35. CASE ReadValue \/ ReadSuit
  BY <1>35 DEF ReadValue, ReadSuit, GlGoto
<1>36. CASE TrackCard
  BY <1>36 DEF TrackCard, GlGoto
<1> QED
  BY <1>1, <1>2, <1>3, <1>4, <1>5, <1>6, <1>7, <1>8, <1>9, <1>10, <1>11,
     <1>12, <1>13, <1>14, <1>15, <1>16, <1>17, <1>18, <1>19, <1>20, <1>21,
     <1>22, <1>23, <1>24, <1>25, <1>26, <1>27, <1>28, <1>29, <1>30, <1>31,
     <1>32, <1>33, <1>34, <1>35, <1>36
  DEF Next, UserEvent, UiStep, GlStep

(* No anchor stays in the list after it was detached.                      *)
LEMMA TrackStep ==
    ASSUME ValuesOK, TapInv, OrderInv, ResetInv, TrackInv, Next
    PROVE  TrackInv'
<1> USE DEF TrackInv, Submitting, Selecting, Resetting, Updating, Choosing, Evicting, Filling
<1>a. anchors \in Seq(Taps)
  BY DEF ValuesOK
<1>1. CASE onSingleTapUp
  BY <1>1 DEF onSingleTapUp
<1>2. CASE \E i \in ValueItems : SelectValue(i)
  <2>1. /\ uiPc \notin Resetting /\ (raced' <=> raced)
        /\ UNCHANGED <<anchors, attached, glPc, glTap>>
    BY <1>2, SpinnerStep
  <2> QED
    BY <2>1
<1>3. CASE \E i \in SuitItems : SelectSuit(i)
  <2>1. /\ uiPc \notin Resetting /\ (raced' <=> raced)
        /\ UNCHANGED <<anchors, attached, glPc, glTap>>
    BY <1>3, SpinnerStep
  <2> QED
    BY <2>1
<1>4. CASE \E i \in SuitItems : SelectTrump(i)
  <2>1. /\ uiPc \notin Resetting /\ (raced' <=> raced)
        /\ UNCHANGED <<anchors, attached, glPc, glTap>>
    BY <1>4, SpinnerStep
  <2> QED
    BY <2>1
<1>5. CASE SubmitClick
  BY <1>5 DEF SubmitClick, UiIdle
<1>6. CASE ResetClick
  BY <1>6 DEF ResetClick
<1>7. CASE Relaunch
  BY <1>7 DEF Relaunch
<1>8. CASE SubmitSayEmpty
  BY <1>8 DEF SubmitSayEmpty, UiGoto
<1>9. CASE SubmitAlloc
  BY <1>9 DEF SubmitAlloc, UiGoto
<1>10. CASE SubmitIterator
  BY <1>10 DEF SubmitIterator, UiGoto
<1>11. CASE SubmitHasNext
  BY <1>11 DEF SubmitHasNext, UiGoto
<1>12. CASE SubmitNext
  BY <1>12 DEF SubmitNext, UiGoto
<1>13. CASE SubmitGet
  BY <1>13 DEF SubmitGet, UiGoto
<1>14. CASE SubmitJudge
  BY <1>14 DEF SubmitJudge, UiGoto
<1>15. CASE ResetWhile
  <2>1. (raced => raced') /\ UNCHANGED <<anchors, attached, glPc, glTap>>
    BY <1>15 DEF ResetWhile, UiGoto
  <2>2. CASE anchors = <<>>
    <3>1. raced \/ glPc \notin Updating
      BY <1>15 DEF ResetWhile, ResetInv
    <3>2. Len(anchors') = 0
      BY <2>1, <2>2
    <3> QED
      BY <2>1, <3>1, <3>2
  <2>3. CASE anchors # <<>>
    BY <1>15, <2>3 DEF ResetWhile, UiGoto
  <2> QED
    BY <2>2, <2>3
<1>16. CASE ResetDetach
  <2>1. raced \/ anchors # <<>>
    BY <1>16 DEF ResetDetach, ResetInv
  <2> QED
    BY <1>16, <2>1 DEF ResetDetach, UiGoto
<1>17. CASE ResetRemove
  <2>1. raced \/ anchors # <<>>
    BY <1>17 DEF ResetRemove, ResetInv
  <2> QED
    BY <1>17, <2>1 DEF ResetRemove, UiGoto
<1>18. CASE ResetClear
  BY <1>18 DEF ResetClear, UiGoto
<1>19. CASE \E t \in {"TRACKING", "PAUSED", "STOPPED"} : FrameWithoutCard(t)
  BY <1>19 DEF FrameWithoutCard, GlGoto
<1>20. CASE FrameWithHit
  BY <1>20 DEF FrameWithHit, GlGoto
<1>21. CASE CheckSize
  BY <1>21 DEF CheckSize, GlGoto
<1>22. CASE EvictDetach
  <2>1. CASE anchors = <<>>
    <3>1. /\ glPc' = "toast" /\ (raced => raced')
          /\ UNCHANGED <<anchors, attached, uiPc>>
      BY <1>22, <2>1 DEF EvictDetach, GlGoto
    <3>2. Len(anchors') = 0
      BY <2>1, <3>1
    <3> QED
      BY <3>1, <3>2
  <2>2. CASE anchors # <<>>
    <3>1. /\ glPc = "detach" /\ glPc' = "remove" /\ (raced => raced')
          /\ attached' = attached \ {Head(anchors)} /\ UNCHANGED <<anchors, uiPc>>
      BY <1>22, <2>2 DEF EvictDetach, GlGoto
    <3>2. \A i \in 1..Len(anchors) : i # 1 => anchors[i] # Head(anchors)
      <4>1. Head(anchors) = anchors[1] /\ Len(anchors) \in Nat /\ Len(anchors) >= 1
        BY <2>2, TailSeq, <1>a, EmptySeq
      <4>2. ASSUME NEW i \in 1..Len(anchors), i # 1 PROVE anchors[1] < anchors[i]
        BY <4>1, <4>2 DEF OrderInv, MarkOrder
      <4>3. \A i \in 1..Len(anchors) : anchors[i] \in Nat
        BY <1>a, TableAssumption DEF Taps
      <4> QED
        BY <4>1, <4>2, <4>3
    <3>3. ASSUME ~raced, uiPc \notin Resetting
          PROVE  \A i \in 1..Len(anchors) : anchors[i] \in attached' \/ i = 1
      BY <3>1, <3>2, <3>3
    <3> QED
      BY <3>1, <3>3
  <2> QED
    BY <2>1, <2>2
<1>23. CASE EvictRemove
  <2>1. CASE anchors = <<>>
    <3>1. /\ glPc' = "toast" /\ (raced => raced')
          /\ UNCHANGED <<anchors, attached, uiPc>>
      BY <1>23, <2>1 DEF EvictRemove, GlGoto
    <3>2. Len(anchors') = 0
      BY <2>1, <3>1
    <3> QED
      BY <3>1, <3>2
  <2>2. CASE anchors # <<>>
    <3>1. /\ anchors' = Tail(anchors) /\ glPc' = "untrack"
          /\ (raced => raced') /\ UNCHANGED <<attached, uiPc>>
      BY <1>23, <2>2 DEF EvictRemove, GlGoto
    <3>2. /\ Len(anchors) \in Nat /\ Len(anchors') = Len(anchors) - 1
          /\ \A i \in 1..(Len(anchors) - 1) : anchors'[i] = anchors[i + 1]
      BY <2>2, <3>1, TailSeq, <1>a
    <3>3. ASSUME ~raced, uiPc \notin Resetting, NEW i \in 1..Len(anchors')
          PROVE  anchors'[i] \in attached
      <4>1. i + 1 \in 1..Len(anchors) /\ i + 1 # 1 /\ anchors'[i] = anchors[i + 1]
        BY <3>2
      <4> QED
        BY <3>3, <4>1
    <3> QED
      BY <3>1, <3>3
  <2> QED
    BY <2>1, <2>2
<1>24. CASE EvictUntrack
  BY <1>24 DEF EvictUntrack, GlGoto
<1>25. CASE EvictUnmap
  BY <1>25 DEF EvictUnmap, GlGoto
<1>26. CASE CreateAnchor
  <2>1. /\ glPc = "create" /\ (raced => raced') /\ UNCHANGED <<anchors, glTap, uiPc>>
        /\ \/ glPc' = "toast" /\ attached' = attached
           \/ attached' = attached \cup {glTap}
    BY <1>26 DEF CreateAnchor, GlGoto
  <2> QED
    BY <2>1
<1>27. CASE MapCard
  BY <1>27 DEF MapCard, GlGoto
<1>28. CASE AddAnchor
  <2>1. /\ glPc = "add" /\ glPc' = "toast" /\ (raced => raced')
        /\ anchors' = Append(anchors, glTap) /\ UNCHANGED <<attached, uiPc>>
    BY <1>28 DEF AddAnchor, GlGoto
  <2>2. /\ Len(anchors) \in Nat /\ Len(anchors') = Len(anchors) + 1
        /\ \A i \in 1..Len(anchors) : anchors'[i] = anchors[i]
        /\ anchors'[Len(anchors) + 1] = glTap
    <3>1. glTap \in Taps
      BY <2>1 DEF TapInv
    <3> QED
      BY <2>1, <3>1, AppendSeq, <1>a, EmptySeq
  <2>3. ASSUME ~raced, uiPc \notin Resetting, NEW i \in 1..Len(anchors')
        PROVE  anchors'[i] \in attached
    <3>1. i \in 1..Len(anchors) \/ i = Len(anchors) + 1
      BY <2>2
    <3> QED
      BY <2>1, <2>2, <2>3, <3>1
  <2> QED
    BY <2>1, <2>3
<1>29. CASE ShowToast
  BY <1>29 DEF ShowToast, GlGoto
<1>30. CASE ClearMessage
  BY <1>30 DEF ClearMessage, GlGoto
<1>31. CASE ValueCase \/ SuitCase \/ TrumpCase
  <2>1. /\ uiPc \notin Resetting /\ (raced' <=> raced)
        /\ UNCHANGED <<anchors, attached, glPc, glTap>>
    BY <1>31, SpinnerStep
  <2> QED
    BY <2>1
<1>32. CASE SessionMade \/ SessionLost
  BY <1>32 DEF SessionMade, SessionLost
<1>33. CASE FrameThrows
  BY <1>33 DEF FrameThrows, GlGoto
<1>34. CASE DemoSuit \/ DemoValue
  <2>1. /\ glPc \in Choosing /\ glPc' # "remove" /\ (raced => raced')
        /\ UNCHANGED <<anchors, attached, glTap, uiPc>>
    BY <1>34 DEF DemoSuit, DemoValue, GlGoto
  <2> QED
    BY <2>1
<1>35. CASE ReadValue \/ ReadSuit
  <2>1. /\ glPc \in Choosing /\ glPc' # "remove" /\ (raced => raced')
        /\ UNCHANGED <<anchors, attached, glTap, uiPc>>
    BY <1>35 DEF ReadValue, ReadSuit, GlGoto
  <2> QED
    BY <2>1
<1>36. CASE TrackCard
  BY <1>36 DEF TrackCard, GlGoto
<1> QED
  BY <1>1, <1>2, <1>3, <1>4, <1>5, <1>6, <1>7, <1>8, <1>9, <1>10, <1>11,
     <1>12, <1>13, <1>14, <1>15, <1>16, <1>17, <1>18, <1>19, <1>20, <1>21,
     <1>22, <1>23, <1>24, <1>25, <1>26, <1>27, <1>28, <1>29, <1>30, <1>31,
     <1>32, <1>33, <1>34, <1>35, <1>36
  DEF Next, UserEvent, UiStep, GlStep

(* A Submit without overlap keeps the table as it found it.                *)
LEMMA SubmitStep ==
    ASSUME ValuesOK, ReadInv, AgreeInv, MapInv, SubmitInv, Next
    PROVE  SubmitInv'
<1> USE DEF SubmitInv, Submitting, Resetting, Selecting, Updating,
           Choosing, Evicting, Filling
<1>1. CASE onSingleTapUp
  BY <1>1 DEF onSingleTapUp
<1>2. CASE \E i \in ValueItems : SelectValue(i)
  BY <1>2, SpinnerStep
<1>3. CASE \E i \in SuitItems : SelectSuit(i)
  BY <1>3, SpinnerStep
<1>4. CASE \E i \in SuitItems : SelectTrump(i)
  BY <1>4, SpinnerStep
<1>5. CASE SubmitClick
  BY <1>5 DEF SubmitClick
<1>6. CASE ResetClick
  BY <1>6 DEF ResetClick
<1>7. CASE Relaunch
  BY <1>7 DEF Relaunch
<1>8. CASE SubmitSayEmpty
  BY <1>8 DEF SubmitSayEmpty, UiGoto
<1>9. CASE SubmitAlloc
  <2>1. /\ uiPc = "alloc" /\ uiPc' = "iterator" /\ trickLength' = Len(trackingCards)
        /\ overlap' = (overlap \/ glPc \in Updating) /\ UNCHANGED <<trackingCards, glPc>>
    BY <1>9 DEF SubmitAlloc, UiGoto
  <2>2. Len(trackingCards) > 0 \/ trackingCards = <<>>
    BY EmptySeq DEF ValuesOK
  <2> QED
    BY <2>1, <2>2
<1>10. CASE SubmitIterator
  <2>1. /\ uiPc = "iterator" /\ uiPc' = "hasNext" /\ ~stale' /\ snapshot' = anchors
        /\ (overlap \/ glPc \in Updating => overlap')
        /\ UNCHANGED <<trackingCards, trickLength, anchors, glPc>>
    BY <1>10 DEF SubmitIterator, UiGoto
  <2>2. trick' = <<>> /\ Len(trick') = 0
    BY <1>10 DEF SubmitIterator, ReadInv
  <2> QED
    BY <2>1, <2>2
<1>11. CASE SubmitHasNext
  BY <1>11 DEF SubmitHasNext, UiGoto
<1>12. CASE SubmitNext
  BY <1>12 DEF SubmitNext, UiGoto
<1>13. CASE SubmitGet
  <2>1. CASE Len(trick) >= trickLength
    BY <1>13, <2>1 DEF SubmitGet, UiGoto
  <2>2. CASE ~(Len(trick) >= trickLength)
    <3>1. /\ uiPc = "get" /\ uiPc' = "hasNext" /\ trick' = Append(trick, cardTypes[marks[Len(marks)]])
          /\ (overlap => overlap') /\ (raced => raced')
          /\ UNCHANGED <<trackingCards, trickLength, anchors, cardTypes, glPc, stale, snapshot, evicted>>
      BY <1>13, <2>2 DEF SubmitGet, UiGoto
    <3>2. /\ Len(marks) = Len(trick) + 1 /\ marks[Len(marks)] = snapshot[Len(marks)]
          /\ Len(marks) \in 1..Len(snapshot) /\ marks[Len(marks)] \in Taps
      BY <3>1 DEF ReadInv, ValuesOK
    <3>3. /\ Len(trick') = Len(trick) + 1 /\ Len(trick) \in Nat
          /\ \A i \in 1..Len(trick) : trick'[i] = trick[i]
          /\ trick'[Len(trick) + 1] = cardTypes[marks[Len(marks)]]
      BY <3>1, <3>2, AppendSeq DEF ValuesOK
    <3>4. (~overlap /\ ~raced /\ ~evicted) => cardTypes[marks[Len(marks)]] # NULL
      BY <3>1, <3>2 DEF MapInv
    <3> QED
      BY <3>1, <3>3, <3>4
  <2> QED
    BY <2>1, <2>2
<1>14. CASE SubmitJudge
  BY <1>14 DEF SubmitJudge, UiGoto
<1>15. CASE ResetWhile
  BY <1>15 DEF ResetWhile, UiGoto
<1>16. CASE ResetDetach
  BY <1>16 DEF ResetDetach, UiGoto
<1>17. CASE ResetRemove
  BY <1>17 DEF ResetRemove, UiGoto
<1>18. CASE ResetClear
  BY <1>18 DEF ResetClear, UiGoto
<1>19. CASE \E t \in {"TRACKING", "PAUSED", "STOPPED"} : FrameWithoutCard(t)
  <2>1. /\ glPc' \notin Updating /\ (overlap => overlap') /\ (raced => raced')
        /\ UNCHANGED <<anchors, trackingCards, uiPc, submit, snapshot, evicted>>
    BY <1>19 DEF FrameWithoutCard, GlGoto
  <2> QED
    BY <2>1
<1>20. CASE FrameWithHit
  BY <1>20 DEF FrameWithHit, GlGoto
<1>21. CASE CheckSize
  BY <1>21 DEF CheckSize, GlGoto
<1>22. CASE EvictDetach
  BY <1>22 DEF EvictDetach, GlGoto
<1>23. CASE EvictRemove
  BY <1>23 DEF EvictRemove, GlGoto
<1>24. CASE EvictUntrack
  BY <1>24 DEF EvictUntrack, GlGoto
<1>25. CASE EvictUnmap
  BY <1>25 DEF EvictUnmap, GlGoto
<1>26. CASE CreateAnchor
  BY <1>26 DEF CreateAnchor, GlGoto
<1>27. CASE MapCard
  BY <1>27 DEF MapCard, GlGoto
<1>28. CASE AddAnchor
  BY <1>28 DEF AddAnchor, GlGoto
<1>29. CASE ShowToast
  BY <1>29 DEF ShowToast, GlGoto
<1>30. CASE ClearMessage
  BY <1>30 DEF ClearMessage, GlGoto
<1>31. CASE ValueCase \/ SuitCase \/ TrumpCase
  BY <1>31, SpinnerStep
<1>32. CASE SessionMade \/ SessionLost
  BY <1>32 DEF SessionMade, SessionLost
<1>33. CASE FrameThrows
  BY <1>33 DEF FrameThrows, GlGoto
<1>34. CASE DemoSuit \/ DemoValue
  BY <1>34 DEF DemoSuit, DemoValue, GlGoto
<1>35. CASE ReadValue \/ ReadSuit
  BY <1>35 DEF ReadValue, ReadSuit, GlGoto
<1>36. CASE TrackCard
  BY <1>36 DEF TrackCard, GlGoto
<1> QED
  BY <1>1, <1>2, <1>3, <1>4, <1>5, <1>6, <1>7, <1>8, <1>9, <1>10, <1>11,
     <1>12, <1>13, <1>14, <1>15, <1>16, <1>17, <1>18, <1>19, <1>20, <1>21,
     <1>22, <1>23, <1>24, <1>25, <1>26, <1>27, <1>28, <1>29, <1>30, <1>31,
     <1>32, <1>33, <1>34, <1>35, <1>36
  DEF Next, UserEvent, UiStep, GlStep

(* A crash has its cause on record.                                        *)
LEMMA CrashStep ==
    ASSUME ValuesOK, ResetInv, ReadInv, AgreeInv, MapInv, SubmitInv, CrashNeedsRaceOrEviction, Next
    PROVE  CrashNeedsRaceOrEviction'
<1> USE DEF CrashNeedsRaceOrEviction, Submitting, Resetting, Selecting, Updating,
           Choosing, Evicting, Filling
<1>1. CASE onSingleTapUp
  BY <1>1 DEF onSingleTapUp
<1>2. CASE \E i \in ValueItems : SelectValue(i)
  BY <1>2, SpinnerStep
<1>3. CASE \E i \in SuitItems : SelectSuit(i)
  BY <1>3, SpinnerStep
<1>4. CASE \E i \in SuitItems : SelectTrump(i)
  BY <1>4, SpinnerStep
<1>5. CASE SubmitClick
  BY <1>5 DEF SubmitClick
<1>6. CASE ResetClick
  BY <1>6 DEF ResetClick
<1>7. CASE Relaunch
  BY <1>7 DEF Relaunch
<1>8. CASE SubmitSayEmpty
  BY <1>8 DEF SubmitSayEmpty, UiGoto
<1>9. CASE SubmitAlloc
  BY <1>9 DEF SubmitAlloc, UiGoto
<1>10. CASE SubmitIterator
  BY <1>10 DEF SubmitIterator, UiGoto
<1>11. CASE SubmitHasNext
  BY <1>11 DEF SubmitHasNext, UiGoto
<1>12. CASE SubmitNext
  <2>1. uiPc = "next" /\ (stale => overlap)
    BY <1>12 DEF SubmitNext, SubmitInv
  <2> QED
    BY <1>12, <2>1 DEF SubmitNext, IteratorThrows, UiGoto
<1>13. CASE SubmitGet
  <2>1. CASE raced \/ overlap
    BY <1>13, <2>1 DEF SubmitGet, UiGoto
  <2>2. CASE ~raced /\ ~overlap
    <3>1. Len(trick) < Len(snapshot) /\ trickLength = Len(snapshot)
      BY <1>13, <2>2 DEF SubmitGet, ReadInv, SubmitInv, AgreeInv, ValuesOK
    <3>2. ~(Len(trick) >= trickLength)
      BY <3>1 DEF ValuesOK
    <3> QED
      BY <1>13, <3>2 DEF SubmitGet, UiGoto
  <2> QED
    BY <2>1, <2>2
<1>14. CASE SubmitJudge
  <2>1. CASE raced \/ overlap \/ evicted
    BY <1>14, <2>1 DEF SubmitJudge, UiGoto
  <2>2. CASE ~raced /\ ~overlap /\ ~evicted
    <3>1. /\ trickLength > 0 /\ trickLength = Len(trick)
          /\ \A i \in 1..Len(trick) : trick[i] # NULL
      BY <1>14, <2>2 DEF SubmitJudge, ReadInv, SubmitInv, AgreeInv, ValuesOK
    <3>2. ~JudgeThrows(trumpSuit')
      <4>1. \A k \in 1..trickLength : TrickAt(k) # NULL
        BY <3>1 DEF TrickAt
      <4> QED
        BY <3>1, <4>1 DEF JudgeThrows
    <3> QED
      BY <1>14, <3>2 DEF SubmitJudge, UiGoto
  <2> QED
    BY <2>1, <2>2
<1>15. CASE ResetWhile
  BY <1>15 DEF ResetWhile, UiGoto
<1>16. CASE ResetDetach
  <2>1. raced \/ anchors # <<>>
    BY <1>16 DEF ResetDetach, ResetInv
  <2> QED
    BY <1>16, <2>1 DEF ResetDetach, UiGoto
<1>17. CASE ResetRemove
  <2>1. raced \/ anchors # <<>>
    BY <1>17 DEF ResetRemove, ResetInv
  <2> QED
    BY <1>17, <2>1 DEF ResetRemove, UiGoto
<1>18. CASE ResetClear
  BY <1>18 DEF ResetClear, UiGoto
<1>19. CASE \E t \in {"TRACKING", "PAUSED", "STOPPED"} : FrameWithoutCard(t)
  BY <1>19 DEF FrameWithoutCard, GlGoto
<1>20. CASE FrameWithHit
  BY <1>20 DEF FrameWithHit, GlGoto
<1>21. CASE CheckSize
  BY <1>21 DEF CheckSize, GlGoto
<1>22. CASE EvictDetach
  BY <1>22 DEF EvictDetach, GlGoto
<1>23. CASE EvictRemove
  BY <1>23 DEF EvictRemove, GlGoto
<1>24. CASE EvictUntrack
  BY <1>24 DEF EvictUntrack, GlGoto
<1>25. CASE EvictUnmap
  BY <1>25 DEF EvictUnmap, GlGoto
<1>26. CASE CreateAnchor
  BY <1>26 DEF CreateAnchor, GlGoto
<1>27. CASE MapCard
  BY <1>27 DEF MapCard, GlGoto
<1>28. CASE AddAnchor
  BY <1>28 DEF AddAnchor, GlGoto
<1>29. CASE ShowToast
  BY <1>29 DEF ShowToast, GlGoto
<1>30. CASE ClearMessage
  BY <1>30 DEF ClearMessage, GlGoto
<1>31. CASE ValueCase \/ SuitCase \/ TrumpCase
  BY <1>31, SpinnerStep
<1>32. CASE SessionMade \/ SessionLost
  BY <1>32 DEF SessionMade, SessionLost
<1>33. CASE FrameThrows
  BY <1>33 DEF FrameThrows, GlGoto
<1>34. CASE DemoSuit \/ DemoValue
  BY <1>34 DEF DemoSuit, DemoValue, GlGoto
<1>35. CASE ReadValue \/ ReadSuit
  BY <1>35 DEF ReadValue, ReadSuit, GlGoto
<1>36. CASE TrackCard
  BY <1>36 DEF TrackCard, GlGoto
<1> QED
  BY <1>1, <1>2, <1>3, <1>4, <1>5, <1>6, <1>7, <1>8, <1>9, <1>10, <1>11,
     <1>12, <1>13, <1>14, <1>15, <1>16, <1>17, <1>18, <1>19, <1>20, <1>21,
     <1>22, <1>23, <1>24, <1>25, <1>26, <1>27, <1>28, <1>29, <1>30, <1>31,
     <1>32, <1>33, <1>34, <1>35, <1>36
  DEF Next, UserEvent, UiStep, GlStep

(* The inductive invariant holds when the activity is created,             *)
LEMMA InvInit == Init => IInv
<1> SUFFICES ASSUME Init PROVE IInv
  OBVIOUS
<1>1. TypeOK
  BY TypeInit DEF TypeOK, FlagsOK, Init
<1>2. TapInv /\ EvictInv /\ ResetInv /\ ReadInv /\ AgreeInv /\ SubmitInv
  BY DEF Init, TapInv, EvictInv, ResetInv, ReadInv, AgreeInv, SubmitInv,
         Updating, Choosing, Evicting, Resetting, Submitting, Filling
<1>3. CapInv
  BY TableAssumption DEF Init, CapInv, AnchorCap
<1>4. OrderInv /\ MapInv /\ TrackInv
  BY DEF Init, OrderInv, MarkOrder, MapInv, TrackInv, Updating, Choosing, Evicting
<1>5. CrashNeedsRaceOrEviction
  BY DEF Init, CrashNeedsRaceOrEviction
<1> QED
  BY <1>1, <1>2, <1>3, <1>4, <1>5 DEF IInv

(* a step that changes nothing keeps it,                                   *)
LEMMA InvStutter ==
    ASSUME IInv, UNCHANGED vars
    PROVE  IInv'
<1>1. TypeOK'
  BY DEF IInv, TypeOK, ValuesOK, FlagsOK
<1>2. TapInv' /\ EvictInv' /\ ResetInv' /\ CapInv' /\ OrderInv'
  BY DEF IInv, TapInv, EvictInv, ResetInv, CapInv, AnchorCap, OrderInv, MarkOrder
<1>3. ReadInv' /\ AgreeInv' /\ MapInv' /\ TrackInv'
  BY DEF IInv, ReadInv, AgreeInv, MapInv, TrackInv
<1>4. SubmitInv' /\ CrashNeedsRaceOrEviction'
  BY DEF IInv, SubmitInv, CrashNeedsRaceOrEviction
<1> QED
  BY <1>1, <1>2, <1>3, <1>4 DEF IInv

(* and so does every step of either thread.                                *)
LEMMA InvStep ==
    ASSUME IInv, Next
    PROVE  IInv'
<1> USE DEF IInv, TypeOK
<1>1. TypeOK'
  BY TypeStep, FlagsStep
<1>2. TapInv' /\ CapInv' /\ OrderInv' /\ ResetInv' /\ EvictInv'
  BY TapStep, CapStep, OrderStep, ResetStep, EvictStep
<1>3. ReadInv' /\ AgreeInv' /\ MapInv' /\ TrackInv'
  BY ReadStep, AgreeStep, MapStep, TrackStep
<1>4. SubmitInv' /\ CrashNeedsRaceOrEviction'
  BY SubmitStep, CrashStep
<1> QED
  BY <1>1, <1>2, <1>3, <1>4

(* The invariant of the whole table: both threads keep every part of it,   *)
(* whatever the cap, the size of the tap queue and the number of taps.     *)
THEOREM Invariance == Spec => []IInv
<1>1. Init => IInv
  BY InvInit
<1>2. IInv /\ [Next]_vars => IInv'
  BY InvStep, InvStutter
<1> QED
  BY <1>1, <1>2, PTL DEF Spec

(* Every field of the activity keeps its type: no interleaving of the      *)
(* switches that fall through takes one out of its cases, and the cards    *)
(* made of the bytes they leave behind are cards.                          *)
THEOREM TypeCorrect == Spec => []TypeOK
<1>1. IInv => TypeOK
  BY DEF IInv
<1> QED
  BY <1>1, Invariance, PTL

(* handleTap's cap on the anchors holds whatever Reset does meanwhile.     *)
THEOREM AnchorCapHolds == Spec => []AnchorCap
<1>1. IInv => AnchorCap
  BY DEF IInv, CapInv
<1> QED
  BY <1>1, Invariance, PTL

(* The anchors always lie in the order of their taps: the first is led.    *)
THEOREM MarkOrderHolds == Spec => []MarkOrder
<1>1. IInv => MarkOrder
  BY DEF IInv, OrderInv
<1> QED
  BY <1>1, Invariance, PTL

(* The trick that Submit judges is a prefix of the anchors at one moment.  *)
THEOREM SubmitReadsOneMomentHolds == Spec => []SubmitReadsOneMoment
<1>1. IInv => SubmitReadsOneMoment
  BY DEF IInv, ReadInv, SubmitReadsOneMoment
<1> QED
  BY <1>1, Invariance, PTL

(* trackingCards and anchors agree between events unless a Reset was raced. *)
THEOREM ListsAgreeHolds == Spec => []ListsAgreeUnlessRaced
<1>1. ASSUME IInv PROVE ListsAgreeUnlessRaced
  <2> SUFFICES ASSUME ~raced, uiPc = "idle", glPc \notin Updating
               PROVE  Len(trackingCards) = Len(anchors)
    BY DEF ListsAgreeUnlessRaced
  <2>1. Len(trackingCards) = Len(anchors) + 0
    BY <1>1 DEF IInv, AgreeInv, Resetting, Updating, Choosing, Evicting
  <2>2. Len(anchors) \in Nat
    BY <1>1 DEF IInv, TypeOK, ValuesOK
  <2> QED
    BY <2>1, <2>2
<1> QED
  BY <1>1, Invariance, PTL

(* ARCore tracks every anchor on the table between events, unless a Reset  *)
(* was raced: neither eviction nor Reset leaves a detached anchor behind.  *)
THEOREM TableIsTrackedHolds == Spec => []TableIsTracked
<1>1. ASSUME IInv PROVE TableIsTracked
  <2> SUFFICES ASSUME ~raced, uiPc = "idle", glPc \notin Updating
               PROVE  ToSet(anchors) \subseteq attached
    BY DEF TableIsTracked
  <2>1. \A i \in 1..Len(anchors) : anchors[i] \in attached
    BY <1>1 DEF IInv, TrackInv, Resetting, Updating, Choosing, Evicting
  <2>2. DOMAIN anchors = 1..Len(anchors)
    BY <1>1 DEF IInv, TypeOK, ValuesOK
  <2> QED
    BY <2>1, <2>2 DEF ToSet
<1> QED
  BY <1>1, Invariance, PTL

(* Without a raced Reset, an overlapped Submit or an eviction, no button   *)
(* handler throws.                                                         *)
THEOREM CrashNeedsRaceOrEvictionHolds == Spec => []CrashNeedsRaceOrEviction
<1>1. IInv => CrashNeedsRaceOrEviction
  BY DEF IInv
<1> QED
  BY <1>1, Invariance, PTL
=============================================================================
