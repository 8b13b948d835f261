---------------------------- MODULE EuchreTable ----------------------------
(***************************************************************************)
(* EuchreAugmentActivity.java: the table of marked cards, shared without   *)
(* any lock by two threads.                                                *)
(*                                                                         *)
(*   The UI thread delivers taps (TapHelper), the spinner selections and   *)
(*   the Submit and Reset buttons, one event at a time.                    *)
(*   The GL thread runs onDrawFrame over and over: it takes one tap per    *)
(*   frame, turns it into an anchor with a card, and shows the pending     *)
(*   message as a toast.                                                   *)
(*                                                                         *)
(* Each step is one access of a shared collection or of a shared static    *)
(* field (an ArrayList or HashMap operation is atomic), because between    *)
(* any two of them the other thread may run.  An exception on the GL       *)
(* thread is caught by onDrawFrame; one on the UI thread ends the process. *)
(*                                                                         *)
(* Drawing reads the table and changes nothing of it, so it has no step.   *)
(* An anchor is named by the tap it comes from.                            *)
(***************************************************************************)
EXTENDS EuchreTrick

CONSTANTS
    QueueCapacity,   \* capacity of TapHelper's ArrayBlockingQueue (16)
    MaxAnchors,      \* the cap on objects in handleTap (20)
    DEMO,            \* the activity's DEMO flag (true)
    MaxTaps,         \* bound on the taps of one run of the process
    ValueItems,      \* the entries of the value spinner that are picked, by case
    SuitItems,       \* the entries of the two suit spinners that are picked
    NULL             \* Java's null

(* What the cases of the switches assign, in the order of the source.      *)
ValueCases == <<2, 3, 4, 5, 6, 7, 8, 9, 10, JACK, QUEEN, KING, ACE_HIGH>>
SuitCases  == <<HEARTS, DIAMONDS, CLUBS, SPADES>>
DemoCases  == <<Card(JACK, SPADES), Card(QUEEN, HEARTS), Card(10, CLUBS),
                Card(8, DIAMONDS), Card(ACE_HIGH, SPADES)>>

(* The cards two bytes can make: -1 until something is assigned.           *)
Cards == [value : {-1} \cup 2..ACE_HIGH, suit : {-1} \cup Suits]

ASSUME TableAssumption ==
    /\ QueueCapacity \in Nat \ {0}
    /\ MaxAnchors \in Nat \ {0}
    /\ DEMO \in BOOLEAN
    /\ MaxTaps \in Nat
    /\ ValueItems \subseteq DOMAIN ValueCases
    /\ SuitItems \subseteq DOMAIN SuitCases

ASSUME NullAssumption == NULL \notin Cards

VARIABLES
    \* shared state
    queuedSingleTaps,  \* TapHelper's queue: taps from the UI to the GL thread
    nextTap,           \* the number of the next tap
    anchors,           \* ArrayList<ColoredAnchor>
    attached,          \* the anchors ARCore tracks: created, not detached
    trackingCards,     \* ArrayList<Card>
    cardTypes,         \* HashMap from anchor to Card; NULL where no entry is
    current,           \* currentCardValue and currentSuit, two static fields
    trumpSuit,
    demoTapCount,
    message,           \* what the next toast says: a kind, and a card or NULL
    showMessage,
    toast,             \* the message of the toast this frame has shown
    session,           \* session # null
    \* the GL thread's place in onDrawFrame, and its locals
    glPc, glTap, glCard,
    \* the UI thread's place in a handler, and its locals
    uiPc,
    fall,              \* the case of the switch to run next; 0 outside of one
    trickLength, trick, cursor,
    marks,             \* the anchors the loop has been through; c is the last one
    stale,             \* anchors was modified since Submit's iterator was made
    \* history: no action reads these
    snapshot,          \* anchors, at the moment Submit made its iterator
    overlap,           \* the latest Submit overlapped the handling of a tap
    raced,             \* the latest Reset overlapped the handling of a tap
    evicted            \* an anchor was evicted since the latest clean Reset

tapState      == <<queuedSingleTaps, nextTap>>
table         == <<anchors, attached, trackingCards, cardTypes>>
selection     == <<current, trumpSuit, demoTapCount>>
notice        == <<message, showMessage, toast>>
shared        == <<tapState, table, selection, notice, session>>
glLocal       == <<glPc, glTap, glCard>>
submit        == <<trickLength, trick, cursor, marks, stale>>
uiLocal       == <<uiPc, fall, submit>>
history       == <<snapshot, overlap, raced, evicted>>
vars          == <<shared, glLocal, uiLocal, history>>

Taps == 1..MaxTaps

MessageKinds == {"none", "selected", "pleaseIndicate", "placed", "wins"}

(* handleTap between the hit test and anchors.add: the GL thread is        *)
(* changing the table.                                                     *)
Evicting == {"detach", "remove", "untrack", "unmap"}
Choosing == {"demoSuit", "demoValue", "cardValue", "cardSuit"}
Updating == {"size", "create", "track", "map", "add"} \cup Choosing \cup Evicting

Selecting  == {"value", "suit", "trump"}

Filling    == {"hasNext", "next", "get"}
Submitting == {"sayEmpty", "alloc", "iterator", "judge"} \cup Filling
Resetting  == {"whileSize", "resetDetach", "resetRemove", "resetClear"}

(* The invariant of types.                                                 *)
ValuesOK ==
    /\ queuedSingleTaps \in Seq(Taps)
    /\ nextTap \in 1..(MaxTaps + 1)
    /\ anchors \in Seq(Taps)
    /\ attached \in SUBSET Taps
    /\ trackingCards \in Seq(Cards)
    /\ cardTypes \in [Taps -> Cards \cup {NULL}]
    /\ current \in Cards
    /\ trumpSuit \in Suits
    /\ demoTapCount \in 0..5
    /\ message[1] \in MessageKinds
    /\ toast[1] \in MessageKinds
    /\ glPc \in Updating \cup {"frame", "toast", "clear"}
    /\ glTap \in Taps \cup {0}
    /\ glCard \in Cards
    /\ uiPc \in Selecting \cup Submitting \cup Resetting \cup {"idle", "crashed"}
    /\ fall \in 0..Len(ValueCases)
    /\ uiPc = "value" => fall \in DOMAIN ValueCases
    /\ uiPc \in {"suit", "trump"} => fall \in DOMAIN SuitCases
    /\ trickLength \in Nat
    /\ trick \in Seq(Cards \cup {NULL})
    /\ cursor \in Nat
    /\ marks \in Seq(Taps)
    /\ snapshot \in Seq(Taps)

FlagsOK ==
    /\ showMessage \in BOOLEAN
    /\ session \in BOOLEAN
    /\ stale \in BOOLEAN
    /\ overlap \in BOOLEAN
    /\ raced \in BOOLEAN
    /\ evicted \in BOOLEAN

TypeOK == ValuesOK /\ FlagsOK

(* The fields as onCreate sets them.                                       *)
Init ==
    /\ queuedSingleTaps = <<>> /\ nextTap = 1
    /\ anchors = <<>> /\ attached = {}
    /\ trackingCards = <<>> /\ cardTypes = [a \in Taps |-> NULL]
    /\ current = Card(-1, -1) /\ trumpSuit = SPADES /\ demoTapCount = 1
    /\ message = <<"none", NULL>> /\ showMessage = FALSE /\ toast = <<"none", NULL>>
    /\ session = FALSE
    /\ glPc = "frame" /\ glTap = 0 /\ glCard = Card(-1, -1)
    /\ uiPc = "idle" /\ fall = 0 /\ trickLength = 0 /\ trick = <<>> /\ cursor = 0
    /\ marks = <<>> /\ stale = FALSE /\ snapshot = <<>>
    /\ overlap = FALSE /\ raced = FALSE /\ evicted = FALSE
-----------------------------------------------------------------------------
(* Moving on, with the bookkeeping of who overlaps whom.                   *)

GlGoto(pc) ==
    /\ uiPc # "crashed"
    /\ glPc' = pc
    /\ overlap' = (overlap \/ (uiPc \in Submitting /\ pc \in Updating))
    /\ raced'   = (raced \/ (uiPc \in Resetting /\ pc \in Updating))

UiGoto(pc) ==
    /\ uiPc' = pc
    /\ overlap' = (overlap \/ (pc \in Submitting /\ glPc \in Updating))
    /\ raced'   = (raced \/ (pc \in Resetting /\ glPc \in Updating))

(* Every handler starts from an idle UI thread.                            *)
UiIdle == uiPc = "idle"

-----------------------------------------------------------------------------
(* The UI thread: taps and spinners.                                       *)

(* onSingleTapUp: offer, which drops the tap when the queue is full.       *)
onSingleTapUp ==
    /\ UiIdle /\ nextTap <= MaxTaps
    /\ nextTap' = nextTap + 1
    /\ queuedSingleTaps' = IF Len(queuedSingleTaps) < QueueCapacity
                           THEN Append(queuedSingleTaps, nextTap)
                           ELSE queuedSingleTaps
    /\ UNCHANGED <<table, selection, notice, session, glLocal, uiLocal, history>>

(* The spinners.  The switches have no break: from the case selected on,   *)
(* every following case assigns its own value too, one write after the     *)
(* other, and each can be read by the GL thread.                           *)
SelectValue(i) ==
    /\ UiIdle
    /\ message' = <<"selected", NULL>>
    /\ UiGoto("value") /\ fall' = i
    /\ UNCHANGED <<tapState, table, selection, showMessage, toast, session, glLocal,
                   submit, snapshot, evicted>>

SelectSuit(i) ==
    /\ UiIdle
    /\ message' = <<"selected", NULL>>
    /\ UiGoto("suit") /\ fall' = i
    /\ UNCHANGED <<tapState, table, selection, showMessage, toast, session, glLocal,
                   submit, snapshot, evicted>>

SelectTrump(i) ==
    /\ UiIdle
    /\ message' = <<"selected", NULL>>
    /\ showMessage' = TRUE
    /\ UiGoto("trump") /\ fall' = i
    /\ UNCHANGED <<tapState, table, selection, toast, session, glLocal, submit,
                   snapshot, evicted>>

(* On to the next case, or out of the switch after the last one.           *)
FallThrough(cases) ==
    IF fall < Len(cases)
    THEN fall' = fall + 1 /\ UNCHANGED <<uiPc, overlap, raced>>
    ELSE fall' = 0 /\ UiGoto("idle")

ValueCase ==
    /\ uiPc = "value"
    /\ current' = [current EXCEPT !.value = ValueCases[fall]]
    /\ FallThrough(ValueCases)
    /\ UNCHANGED <<tapState, table, trumpSuit, demoTapCount, notice, session, glLocal,
                   submit, snapshot, evicted>>

SuitCase ==
    /\ uiPc = "suit"
    /\ current' = [current EXCEPT !.suit = SuitCases[fall]]
    /\ FallThrough(SuitCases)
    /\ UNCHANGED <<tapState, table, trumpSuit, demoTapCount, notice, session, glLocal,
                   submit, snapshot, evicted>>

TrumpCase ==
    /\ uiPc = "trump"
    /\ trumpSuit' = SuitCases[fall]
    /\ FallThrough(SuitCases)
    /\ UNCHANGED <<tapState, table, current, demoTapCount, notice, session, glLocal,
                   submit, snapshot, evicted>>
-----------------------------------------------------------------------------
(* The session, as far as a frame asks for it; ArSession has its life.     *)

(* onResume makes one.                                                     *)
SessionMade ==
    /\ UiIdle /\ ~session
    /\ session' = TRUE
    /\ UNCHANGED <<tapState, table, selection, notice, glLocal, uiLocal, history>>

(* onResume gives it up when the camera is not available: no frame of a    *)
(* session that is not running gets as far as a tap.                       *)
SessionLost ==
    /\ UiIdle /\ session /\ glPc \notin Updating
    /\ session' = FALSE
    /\ UNCHANGED <<tapState, table, selection, notice, glLocal, uiLocal, history>>
-----------------------------------------------------------------------------
(* The UI thread: the Submit button.                                       *)

(* The test of trackingCards.size(); both branches raise showMessage       *)
(* before the message is written.                                          *)
SubmitClick ==
    /\ UiIdle
    /\ showMessage' = TRUE
    /\ uiPc' = IF trackingCards = <<>> THEN "sayEmpty" ELSE "alloc"
    /\ overlap' = (glPc \in Updating)
    /\ UNCHANGED <<tapState, table, selection, message, toast, session, glLocal,
                   submit, fall, snapshot, raced, evicted>>

SubmitSayEmpty ==
    /\ uiPc = "sayEmpty"
    /\ message' = <<"pleaseIndicate", NULL>>
    /\ UiGoto("idle")
    /\ UNCHANGED <<tapState, table, selection, showMessage, toast, session, glLocal,
                   submit, fall, snapshot, evicted>>

(* new Card[trackingCards.size()], the size being read again.              *)
SubmitAlloc ==
    /\ uiPc = "alloc"
    /\ trickLength' = Len(trackingCards)
    /\ trick' = <<>>
    /\ UiGoto("iterator")
    /\ UNCHANGED <<shared, glLocal, fall, cursor, marks, stale, snapshot, evicted>>

SubmitIterator ==
    /\ uiPc = "iterator"
    /\ cursor' = 0 /\ stale' = FALSE
    /\ marks' = <<>> /\ snapshot' = anchors
    /\ UiGoto("hasNext")
    /\ UNCHANGED <<shared, glLocal, fall, trickLength, trick, evicted>>

(* The iterator's hasNext() compares its cursor with the size of the list. *)
SubmitHasNext ==
    /\ uiPc = "hasNext"
    /\ UiGoto(IF cursor # Len(anchors) THEN "next" ELSE "judge")
    /\ UNCHANGED <<shared, glLocal, submit, fall, snapshot, evicted>>

(* A mutation of IteratorThrows: the list is walked by index.              *)
IteratorThrows_Never == FALSE

(* The iterator's next() fails fast on a modified list.                    *)
IteratorThrows == stale

SubmitNext ==
    /\ uiPc = "next"
    /\ IF IteratorThrows
       THEN UiGoto("crashed") /\ UNCHANGED <<cursor, marks>>
       ELSE /\ UiGoto("get")
            /\ marks' = Append(marks, anchors[cursor + 1])
            /\ cursor' = cursor + 1
    /\ UNCHANGED <<shared, glLocal, fall, trickLength, trick, stale, snapshot, evicted>>

(* trick[counter] = cardTypes.get(c), where the array may be too short.    *)
SubmitGet ==
    /\ uiPc = "get"
    /\ IF Len(trick) >= trickLength
       THEN UiGoto("crashed") /\ UNCHANGED trick
       ELSE UiGoto("hasNext") /\ trick' = Append(trick, cardTypes[marks[Len(marks)]])
    /\ UNCHANGED <<shared, glLocal, fall, trickLength, cursor, marks, stale, snapshot,
                   evicted>>

(* The element k of the array: those never assigned are null.              *)
TrickAt(k) == IF k <= Len(trick) THEN trick[k] ELSE NULL

(* trickWinner meets a null before a right bower, or an empty array.       *)
JudgeThrows(trump) ==
    \/ trickLength = 0
    \/ \E k \in 1..trickLength :
          TrickAt(k) = NULL /\ \A j \in 1..(k - 1) : TrickAt(j) # Card(JACK, trump)

(* The card trickWinner picks when it does not throw; nulls after a right  *)
(* bower are never read.                                                   *)
WinningCard(trump) ==
    LET read == SelectSeq(trick, LAMBDA c : c # NULL) IN read[trickWinner(read, trump)]

SubmitJudge ==
    /\ uiPc = "judge"
    /\ trumpSuit' = IF DEMO THEN SPADES ELSE trumpSuit
    /\ IF JudgeThrows(trumpSuit')
       THEN UiGoto("crashed") /\ UNCHANGED message
       ELSE UiGoto("idle") /\ message' = <<"wins", toString(WinningCard(trumpSuit'))>>
    /\ trickLength' = 0 /\ trick' = <<>> /\ cursor' = 0 /\ marks' = <<>>
    /\ stale' = FALSE /\ snapshot' = <<>>
    /\ UNCHANGED <<tapState, table, current, demoTapCount, showMessage, toast, session,
                   glLocal, fall, evicted>>
-----------------------------------------------------------------------------
(* The UI thread: the Reset button.                                        *)

ResetClick ==
    /\ UiIdle
    /\ trackingCards' = <<>>
    /\ uiPc' = "whileSize"
    /\ raced' = (glPc \in Updating)
    /\ UNCHANGED <<tapState, anchors, attached, cardTypes, selection, notice,
                   session, glLocal, submit, fall, snapshot, overlap, evicted>>

(* while (anchors.size() > 0)                                              *)
ResetWhile ==
    /\ uiPc = "whileSize"
    /\ UiGoto(IF anchors = <<>> THEN "idle" ELSE "resetDetach")
    /\ evicted' = (evicted /\ (raced \/ anchors # <<>>))
    /\ UNCHANGED <<shared, glLocal, submit, fall, snapshot>>

(* anchors.get(0).anchor.detach()                                          *)
ResetDetach ==
    /\ uiPc = "resetDetach"
    /\ IF anchors = <<>>
       THEN UiGoto("crashed") /\ UNCHANGED attached
       ELSE UiGoto("resetRemove") /\ attached' = attached \ {Head(anchors)}
    /\ UNCHANGED <<tapState, anchors, trackingCards, cardTypes, selection, notice,
                   session, glLocal, submit, fall, snapshot, evicted>>

(* anchors.remove(0)                                                       *)
ResetRemove ==
    /\ uiPc = "resetRemove"
    /\ IF anchors = <<>>
       THEN UiGoto("crashed") /\ UNCHANGED anchors
       ELSE UiGoto("resetClear") /\ anchors' = Tail(anchors)
    /\ UNCHANGED <<tapState, attached, trackingCards, cardTypes, selection, notice,
                   session, glLocal, submit, fall, snapshot, evicted>>

(* cardTypes.clear(), and back to the test                                 *)
ResetClear ==
    /\ uiPc = "resetClear"
    /\ UiGoto("whileSize")
    /\ cardTypes' = [a \in Taps |-> NULL]
    /\ UNCHANGED <<tapState, anchors, attached, trackingCards, selection, notice,
                   session, glLocal, submit, fall, snapshot, evicted>>
-----------------------------------------------------------------------------
(* The GL thread: onDrawFrame and handleTap.                               *)

(* A mutation of Polled: peek() in place of poll().                        *)
Polled_Peek == queuedSingleTaps

(* tapHelper.poll(): the queue afterwards.                                 *)
Polled == IF queuedSingleTaps = <<>> THEN <<>> ELSE Tail(queuedSingleTaps)

(* While session is null a frame returns at once: it neither takes a tap   *)
(* nor shows the toast, and as a step changes nothing.                     *)

(* A frame of a session whose update() throws: no tap is taken.            *)
FrameThrows ==
    /\ glPc = "frame" /\ session
    /\ GlGoto("toast")
    /\ UNCHANGED <<shared, glTap, glCard, uiLocal, snapshot, evicted>>

(* A frame that places no card: no tap is queued, the camera is not        *)
(* tracking, or the tap hits nothing.  The tap is consumed all the same.   *)
(* A PAUSED camera ends the frame before the toast.                        *)
FrameWithoutCard(trackingState) ==
    /\ glPc = "frame" /\ session
    /\ queuedSingleTaps' = Polled
    /\ GlGoto(IF trackingState = "PAUSED" THEN "frame" ELSE "toast")
    /\ UNCHANGED <<nextTap, table, selection, notice, session, glTap, glCard,
                   uiLocal, snapshot, evicted>>

(* A tap, a tracking camera, and a hit on a plane or an oriented point.    *)
FrameWithHit ==
    /\ glPc = "frame" /\ session /\ queuedSingleTaps # <<>>
    /\ glTap' = Head(queuedSingleTaps)
    /\ queuedSingleTaps' = Polled
    /\ GlGoto("size")
    /\ UNCHANGED <<nextTap, table, selection, notice, session, glCard, uiLocal,
                   snapshot, evicted>>

(* A mutation of TableIsFull: > in place of >=.                            *)
TableIsFull_OffByOne == Len(anchors) > MaxAnchors

(* if (anchors.size() >= 20)                                               *)
TableIsFull == Len(anchors) >= MaxAnchors

CheckSize ==
    /\ glPc = "size"
    /\ GlGoto(IF TableIsFull THEN "detach" ELSE "create")
    /\ evicted' = (evicted \/ TableIsFull)
    /\ UNCHANGED <<shared, glTap, glCard, uiLocal, snapshot>>

(* anchors.get(0).anchor.detach().  An index out of bounds, here and in    *)
(* the next three steps, is caught at the end of onDrawFrame.              *)
EvictDetach ==
    /\ glPc = "detach"
    /\ IF anchors = <<>>
       THEN GlGoto("toast") /\ UNCHANGED attached
       ELSE GlGoto("remove") /\ attached' = attached \ {Head(anchors)}
    /\ UNCHANGED <<tapState, anchors, trackingCards, cardTypes, selection,
                   notice, session, glTap, glCard, uiLocal, snapshot, evicted>>

(* A mutation of EvictRemove: the newest anchor leaves the list.           *)
EvictRemove_Newest ==
    /\ glPc = "remove"
    /\ IF anchors = <<>>
       THEN GlGoto("toast") /\ UNCHANGED <<anchors, stale>>
       ELSE GlGoto("untrack") /\ anchors' = Front(anchors) /\ stale' = (uiPc \in Filling)
    /\ UNCHANGED <<tapState, attached, trackingCards, cardTypes, selection,
                   notice, session, glTap, glCard, uiPc, fall, trickLength,
                   trick, cursor, marks, snapshot, evicted>>

(* anchors.remove(0)                                                       *)
EvictRemove ==
    /\ glPc = "remove"
    /\ IF anchors = <<>>
       THEN GlGoto("toast") /\ UNCHANGED <<anchors, stale>>
       ELSE GlGoto("untrack") /\ anchors' = Tail(anchors) /\ stale' = (uiPc \in Filling)
    /\ UNCHANGED <<tapState, attached, trackingCards, cardTypes, selection,
                   notice, session, glTap, glCard, uiPc, fall, trickLength,
                   trick, cursor, marks, snapshot, evicted>>

(* A mutation of EvictUntrack: the evicted card stays in trackingCards.    *)
EvictUntrack_Forgotten ==
    /\ glPc = "untrack"
    /\ GlGoto("unmap")
    /\ UNCHANGED <<shared, glTap, glCard, uiLocal, snapshot, evicted>>

(* trackingCards.remove(0)                                                 *)
EvictUntrack ==
    /\ glPc = "untrack"
    /\ IF trackingCards = <<>>
       THEN GlGoto("toast") /\ UNCHANGED trackingCards
       ELSE GlGoto("unmap") /\ trackingCards' = Tail(trackingCards)
    /\ UNCHANGED <<tapState, anchors, attached, cardTypes, selection, notice,
                   session, glTap, glCard, uiLocal, snapshot, evicted>>

(* cardTypes.remove(anchors.get(0)): by now the anchor after the evicted   *)
(* one is the first.                                                       *)
EvictUnmap ==
    /\ glPc = "unmap"
    /\ IF anchors = <<>>
       THEN GlGoto("toast") /\ UNCHANGED cardTypes
       ELSE GlGoto("create") /\ cardTypes' = [cardTypes EXCEPT ![Head(anchors)] = NULL]
    /\ UNCHANGED <<tapState, anchors, attached, trackingCards, selection,
                   notice, session, glTap, glCard, uiLocal, snapshot, evicted>>

(* hit.createAnchor(), which may throw; then the demo's trump suit.        *)
CreateAnchor ==
    /\ glPc = "create"
    /\ \/ GlGoto("toast") /\ UNCHANGED <<attached, trumpSuit>>
       \/ /\ GlGoto(IF DEMO THEN "demoSuit" ELSE "cardValue")
          /\ attached' = attached \cup {glTap}
          /\ trumpSuit' = IF DEMO THEN SPADES ELSE trumpSuit
    /\ UNCHANGED <<tapState, anchors, trackingCards, cardTypes, current,
                   demoTapCount, notice, session, glTap, glCard, uiLocal,
                   snapshot, evicted>>

(* The case of the demo's switch that runs; the fifth is the default.      *)
DemoCase == DemoCases[IF demoTapCount \in 1..4 THEN demoTapCount ELSE 5]

(* The demo's switch: a case assigns the suit, then the value, counts, and *)
(* falls through to the next one; the default resets the count.            *)
DemoSuit ==
    /\ glPc = "demoSuit"
    /\ current' = [current EXCEPT !.suit = DemoCase.suit]
    /\ GlGoto("demoValue")
    /\ UNCHANGED <<tapState, table, trumpSuit, demoTapCount, notice, session,
                   glTap, glCard, uiLocal, snapshot, evicted>>

(* A mutation of DemoValue: the default does not reset the count.          *)
DemoValue_NoReset ==
    /\ glPc = "demoValue"
    /\ current' = [current EXCEPT !.value = DemoCase.value]
    /\ demoTapCount' = demoTapCount + 1
    /\ GlGoto(IF demoTapCount \in 1..4 THEN "demoSuit" ELSE "cardValue")
    /\ UNCHANGED <<tapState, table, trumpSuit, notice, session, glTap, glCard, uiLocal,
                   snapshot, evicted>>

DemoValue ==
    /\ glPc = "demoValue"
    /\ current' = [current EXCEPT !.value = DemoCase.value]
    /\ demoTapCount' = IF demoTapCount \in 1..4 THEN demoTapCount + 1 ELSE 0
    /\ GlGoto(IF demoTapCount \in 1..4 THEN "demoSuit" ELSE "cardValue")
    /\ UNCHANGED <<tapState, table, trumpSuit, notice, session, glTap, glCard,
                   uiLocal, snapshot, evicted>>

(* new Card(currentCardValue, currentSuit), read one after the other.      *)
ReadValue ==
    /\ glPc = "cardValue"
    /\ glCard' = Card(current.value, -1)
    /\ GlGoto("cardSuit")
    /\ UNCHANGED <<shared, glTap, uiLocal, snapshot, evicted>>

ReadSuit ==
    /\ glPc = "cardSuit"
    /\ glCard' = Card(glCard.value, current.suit)
    /\ GlGoto("track")
    /\ UNCHANGED <<shared, glTap, uiLocal, snapshot, evicted>>

(* trackingCards.add(newCard)                                              *)
TrackCard ==
    /\ glPc = "track"
    /\ trackingCards' = Append(trackingCards, glCard)
    /\ GlGoto("map")
    /\ UNCHANGED <<tapState, anchors, attached, cardTypes, selection, notice,
                   session, glTap, glCard, uiLocal, snapshot, evicted>>

(* A mutation of MapCard: the card is not put in the map.                  *)
MapCard_NoPut ==
    /\ glPc = "map"
    /\ message' = <<"placed", NULL>>
    /\ showMessage' = TRUE
    /\ GlGoto("add") /\ glCard' = Card(-1, -1)
    /\ UNCHANGED <<tapState, table, selection, toast, session, glTap,
                   uiLocal, snapshot, evicted>>

(* cardTypes.put(newAnchor, newCard), and the message                      *)
MapCard ==
    /\ glPc = "map"
    /\ cardTypes' = [cardTypes EXCEPT ![glTap] = glCard]
    /\ message' = <<"placed", NULL>>
    /\ showMessage' = TRUE
    /\ GlGoto("add") /\ glCard' = Card(-1, -1)
    /\ UNCHANGED <<tapState, anchors, attached, trackingCards, selection,
                   toast, session, glTap, uiLocal, snapshot, evicted>>

(* A mutation of AddAnchor: anchors.add(0, newAnchor).                     *)
AddAnchor_AtFront ==
    /\ glPc = "add"
    /\ anchors' = <<glTap>> \o anchors
    /\ stale' = (uiPc \in Filling)
    /\ GlGoto("toast") /\ glTap' = 0
    /\ UNCHANGED <<tapState, attached, trackingCards, cardTypes, selection,
                   notice, session, glCard, uiPc, fall, trickLength,
                   trick, cursor, marks, snapshot, evicted>>

(* anchors.add(newAnchor)                                                  *)
AddAnchor ==
    /\ glPc = "add"
    /\ anchors' = Append(anchors, glTap)
    /\ stale' = (uiPc \in Filling)
    /\ GlGoto("toast") /\ glTap' = 0
    /\ UNCHANGED <<tapState, attached, trackingCards, cardTypes, selection,
                   notice, session, glCard, uiPc, fall, trickLength,
                   trick, cursor, marks, snapshot, evicted>>

(* if (showMessage) Toast.makeText(this, message, ...).show()              *)
ShowToast ==
    /\ glPc = "toast"
    /\ toast' = IF showMessage THEN message ELSE toast
    /\ GlGoto(IF showMessage THEN "clear" ELSE "frame")
    /\ UNCHANGED <<tapState, table, selection, message, showMessage, session, glTap,
                   glCard, uiLocal, snapshot, evicted>>

(* showMessage = false, the last statement of the frame                    *)
ClearMessage ==
    /\ glPc = "clear"
    /\ showMessage' = FALSE /\ toast' = <<"none", NULL>>
    /\ GlGoto("frame")
    /\ UNCHANGED <<tapState, table, selection, message, session, glTap,
                   glCard, uiLocal, snapshot, evicted>>
-----------------------------------------------------------------------------
(* The user starts the app again after a crash: a new process.             *)
Relaunch ==
    /\ uiPc = "crashed"
    /\ queuedSingleTaps' = <<>> /\ nextTap' = 1
    /\ anchors' = <<>> /\ attached' = {}
    /\ trackingCards' = <<>> /\ cardTypes' = [a \in Taps |-> NULL]
    /\ current' = Card(-1, -1) /\ trumpSuit' = SPADES /\ demoTapCount' = 1
    /\ message' = <<"none", NULL>> /\ showMessage' = FALSE /\ toast' = <<"none", NULL>>
    /\ session' = FALSE
    /\ glPc' = "frame" /\ glTap' = 0 /\ glCard' = Card(-1, -1)
    /\ uiPc' = "idle" /\ fall' = 0 /\ trickLength' = 0 /\ trick' = <<>> /\ cursor' = 0
    /\ marks' = <<>> /\ stale' = FALSE /\ snapshot' = <<>>
    /\ overlap' = FALSE /\ raced' = FALSE /\ evicted' = FALSE

UserEvent == \/ onSingleTapUp
             \/ \E i \in ValueItems : SelectValue(i)
             \/ \E i \in SuitItems : SelectSuit(i) \/ SelectTrump(i)
             \/ SubmitClick
             \/ ResetClick
             \/ SessionMade \/ SessionLost
             \/ Relaunch

UiStep == \/ ValueCase \/ SuitCase \/ TrumpCase
          \/ SubmitSayEmpty \/ SubmitAlloc \/ SubmitIterator
          \/ SubmitHasNext \/ SubmitNext \/ SubmitGet \/ SubmitJudge
          \/ ResetWhile \/ ResetDetach \/ ResetRemove \/ ResetClear

GlStep == \/ \E t \in {"TRACKING", "PAUSED", "STOPPED"} : FrameWithoutCard(t)
          \/ FrameThrows \/ FrameWithHit \/ CheckSize
          \/ EvictDetach \/ EvictRemove \/ EvictUntrack \/ EvictUnmap
          \/ CreateAnchor \/ DemoSuit \/ DemoValue
          \/ ReadValue \/ ReadSuit \/ TrackCard
          \/ MapCard \/ AddAnchor \/ ShowToast \/ ClearMessage

Next == UserEvent \/ UiStep \/ GlStep

(* GLSurfaceView renders continuously and the UI thread finishes the       *)
(* handlers it starts.  A session that is there again and again neither    *)
(* throws in every update() nor stays paused for ever.  Nothing is assumed *)
(* of the user, nor that there ever is a session.                          *)
Fairness == /\ WF_vars(UiStep)
            /\ WF_vars(GlStep)
            /\ SF_vars(FrameWithHit \/ FrameWithoutCard("TRACKING"))

Spec     == Init /\ [][Next]_vars
FairSpec == Spec /\ Fairness
-----------------------------------------------------------------------------
(* The properties that hold.                                               *)

(* handleTap caps the number of objects: whatever Reset does meanwhile,    *)
(* the table never holds more than MaxAnchors anchors.                     *)
AnchorCap == Len(anchors) <= MaxAnchors

(* The anchors lie in the order in which they were tapped, none twice,     *)
(* although two threads remove from the list: the first one is the led     *)
(* card.                                                                   *)
MarkOrder ==
    \A i, j \in 1..Len(anchors) : i < j => anchors[i] < anchors[j]

(* A Submit that gets as far as Euchre.trickWinner has read a prefix of    *)
(* the anchors as they lay at one moment, the led card first; all of them  *)
(* unless an anchor was evicted.                                           *)
SubmitReadsOneMoment ==
    uiPc = "judge" =>
        /\ Len(marks) <= Len(snapshot)
        /\ \A i \in 1..Len(marks) : marks[i] = snapshot[i]
        /\ evicted \/ Len(marks) = Len(snapshot)

(* trackingCards and anchors have the same length whenever neither thread  *)
(* is changing them, unless a Reset ran into the handling of a tap.  A     *)
(* Reset that runs alone repairs the disagreement.                         *)
ListsAgreeUnlessRaced ==
    (~raced /\ uiPc = "idle" /\ glPc \notin Updating) => Len(trackingCards) = Len(anchors)

(* ARCore tracks every anchor that lies on the table, under the same       *)
(* conditions: none was detached and then left in the list, where it would *)
(* never be drawn again and yet count as a card of the trick.              *)
TableIsTracked ==
    (~raced /\ uiPc = "idle" /\ glPc \notin Updating) => ToSet(anchors) \subseteq attached

(* The activity crashes only after a Reset that ran into the handling of a *)
(* tap, in a Submit that overlaps one, or once an anchor was evicted: used *)
(* one event at a time and below the cap, Submit and Reset never throw.    *)
CrashNeedsRaceOrEviction ==
    uiPc = "crashed" => (raced \/ overlap \/ evicted)

(* A queued tap is taken up by some frame, also while the camera is not    *)
(* tracking and although frames throw in between, unless the session is    *)
(* given up or the process ends.  Without a session it waits.              *)
TapsServed ==
    \A t \in Taps : (session /\ t \in ToSet(queuedSingleTaps)) ~>
                       (t \notin ToSet(queuedSingleTaps) \/ ~session \/ uiPc = "crashed")
-----------------------------------------------------------------------------
(* What the source says of itself and the code does not do.                *)

(* "HashMap to map each anchor created to a card holding the suit and      *)
(* value that were selected": each anchor that lies on the table has its   *)
(* card, when no tap is being handled and no button was raced.             *)
EachAnchorHasCard ==
    (~raced /\ uiPc = "idle" /\ glPc \notin Updating) =>
        \A i \in 1..Len(anchors) : cardTypes[anchors[i]] # NULL

(* "add listener to the Submit button, telling you which card wins": the   *)
(* winner that Submit computed is shown, unless another message replaces   *)
(* it first or the session is given up.                                    *)
WinnerIsShown ==
    (uiPc = "idle" /\ message[1] = "wins") ~>
        (toast = message \/ message[1] # "wins" \/ ~session)
=============================================================================
