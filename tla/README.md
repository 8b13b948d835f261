# Verification of the card recogniser

This directory holds TLA+ models of the *High Rollers* card applications, the
TLC configurations that check them and TLAPS proofs of the main results.
Paths below are relative to the repository root; line numbers refer to the
commit the models were written from. `PROJECT.json` maps every definition to
its source lines.

## 1. The system

The repository contains three Android applications, a vendored TensorFlow tree
and the team's documents. Nothing is persisted except pictures.

| Part | State | Operations | Interacts with |
|---|---|---|---|
| **Cards** `NewDemo/.../hand_determination/Card.java` | value, suit | constructor, setters, `toString` | everything below |
| **Euchre trick** `Euchre.java` | none (static) | `trickWinner`, `partnerSuit` | called by Submit |
| **Euchre table** `EuchreAugmentActivity.java`, `TapHelper.java` | `anchors`, `trackingCards`, `cardTypes`, selection, `message`/`showMessage`, tap queue | spinners, Submit, Reset (UI thread); `onDrawFrame`, `handleTap` (GL thread) | both threads share every field, with no lock but that of the tap queue |
| **AR session** (the same activity; `DisplayRotationHelper`, `SnackbarHelper`) | `session`, `installRequested`, viewport, snackbar | `onResume`, `onPause`, permission dialog, surface callbacks | UI thread against GL thread |
| **Poker hand** `Hand.java`, `Hand_test.java` | `Cards`, `Rank` | `is...` predicates, `determineRank`, `setCards` | array shared with its caller |
| **Poker imager** `poker_hand_augmented_imager/.../AugmentedImageActivity.java` | recognised images, `pokerCards`, saved pictures | `drawAugmentedImages`, `parseCard`, `SavePicture` | Hand, Card, file system |
| **Camera pipeline** `ML Kit Java/mlkit/.../CameraSource.java`, `CameraSourcePreview`, `VisionProcessorBase`, `CustomImageClassifierProcessor` | camera, pending frame, buffers, `processorLock`, processing thread, latest/processing image | start, stop, release, `setNextFrame`, `run`, `process`, success and failure callbacks | UI, camera callback, processing thread, asynchronous detector |
| **Image classifier** `CustomImageClassifier.java` | bounded priority queue of labels | `getTopLabels` | TensorFlow Lite |
| **Still image, live preview, chooser** | selected model and size, picked image | menu selections, saved instance state | camera pipeline |
| **Renderers, overlays, adapters, vendored code** | GPU buffers | drawing | not modelled |

What is hard in this code, and what makes each part correct:

* **Two threads over plain collections.** Submit and Reset (UI thread) walk and
  empty the very `ArrayList`s and `HashMap` that `handleTap` (GL thread) fills
  and evicts from. An exception on the GL thread inside `onDrawFrame`'s `try`
  is swallowed halfway through an update; one on the UI thread ends the
  process. Correct means: the cap and the tap order survive, the three
  collections agree between events, Submit judges one moment of the table, no
  queued tap is forgotten.
* **Switches without `break`**, over static fields that the other thread reads
  while the later cases overwrite them one after the other.
* **Flag and message.** `showMessage` and `message` are written by one thread
  and consumed by the other, in an order that can lose the message.
* **Rules with exceptions.** The left bower changes suit; ties between equal
  cards; hands in any order; the ace at one end only.
* **Cached results over shared arrays.** `Rank` is computed once, over an array
  the caller may change afterwards.
* **Life cycle against a render thread** (AR session): a session nulled, or not yet
  resumed, while a frame uses it; a flag that one thread raises and the other
  lowers; an error whose dismissal finishes the activity. Correct means: a frame
  meets a running session, an empty screen is explained, frames follow a resume.
* **Locks, buffers and asynchronous detection** (camera pipeline): `release`
  joining a thread while it holds the lock that thread needs; four buffers that
  must not be lost or overwritten; a failed detection after which no frame is
  processed; classifiers that answer out of turn; a start that fails halfway; a
  camera started behind the activity's back. Correct means: every handler
  returns, a buffer has one owner, each processor gets frames in order, and what
  the screen shows is never older than the frame it is said to be of.
* **Recreation** (still images): the activity is destroyed and created anew
  between any two events, with some fields saved and others not, while answers
  for the old one are on their way.

The complete list, with lines, is `hazards` in `PROJECT.json`.

## 2. Plan

Written (sections 3 to 7), in this order:

1. `PlayingCard`, `EuchreTrick`, `EuchreRound`: the trick, against the rules.
2. `EuchreTable`: both threads over the shared table. `EuchreTableProofs`.
3. `PokerHand`, `HandObject`: the classification, and the object that caches it.
4. `VisionProcessor` and `CameraPipeline`: the live preview, composed; `FrameFeed`,
   what it promises, and the refinement that shows it.
5. `SnackbarHelper` and `ArSession`: the life cycle against the GL thread.
6. `StillImage`: the activity that is created anew.
7. `CameraPipelineProofs`, `ArSessionProofs`, `StillImageProofs`: their safety
   properties for all bounds, and the refinement of `FrameFeed`.

8. `LeastElement`, `EuchreRoundProofs`, `HandObjectProofs`: the trick and the hand
   against the rules, for all cards. With them every invariant and every action
   property that a run checks is proved.

## 3. Modules

| Module | Models |
|---|---|
| `PlayingCard` | `Card.java`: constants, constructor, `toString` (what it tells apart). |
| `EuchreTrick` | `Euchre.java`: `partnerSuit`, `trickWinner` as the index it selects. |
| `EuchreRound` | The array Submit fills, card by card, under every trump; the rules of euchre as an independent definition. |
| `EuchreTable` | `EuchreAugmentActivity` and `TapHelper` (below). |
| `EuchreTableProofs` | The inductive invariant and the theorems about `EuchreTable`. |
| `LeastElement` | Lemmas: a set of natural numbers has a least element. |
| `EuchreRoundProofs` | That `trickWinner` follows the rules, for tricks of every length. |
| `PokerHand` | The `is...` methods and `determineRank` of `Hand.java`, over any array. |
| `HandObject` | A Hand over its life: array filled, `new Hand`, cards edited through their setters, `setCards`; the rules of poker by counting, the ace at either end of a run. |
| `HandObjectProofs` | That the predicates are inclusive on arrays of every length, and that five cards get the rank of the rules, but for a run that needs the ace at its other end. |
| `FrameFeed` | Abstract: each processor begins detections for frames in the order of capture, for each at most once, one at a time unless it is a streaming one; a detection sees its frame or a newer one; the screen shows the results of the detection that has just ended, over an image, neither older than its frame. |
| `VisionProcessor` | `VisionProcessorBase.java` (`process`, `processLatestImage`, the two callbacks) and `CustomImageClassifierProcessor.java` (`process`, its callbacks), for every processor made. |
| `CameraPipeline` | `CameraSource`, `CameraSourcePreview`, `LivePreviewActivity` over `VisionProcessor` (below). |
| `CameraPipelineProofs` | Its inductive invariant, its safety theorems, and that it implements `FrameFeed`. |
| `SnackbarHelper` | `SnackbarHelper.java`: the bar on the screen, posted hides, `finish()`. |
| `ArSession` | The session life cycle of `EuchreAugmentActivity`, with `DisplayRotationHelper` and `SnackbarHelper` (below). |
| `ArSessionProofs` | Its inductive invariant and safety theorems. |
| `StillImage` | `StillImageActivity.java` (below). |
| `StillImageProofs` | Its inductive invariant, safety theorems and `RecreationKeepsImage`. |
| `MC...` | Constants for TLC. |

### EuchreTable

Each shared field is a variable of the same name. An anchor is named by the
number of the tap it comes from, which also fixes the order of taps. The two
threads have program counters:

* **UI thread** (`uiPc`). `onSingleTapUp` offers a tap (dropped when the queue is
  full); `SelectValue`, `SelectSuit` and `SelectTrump` are the spinners, whose
  switches run on in `ValueCase`, `SuitCase` and `TrumpCase`, one case per step;
  Submit is `SubmitClick` (the size test), `SubmitSayEmpty` or `SubmitAlloc`
  (`new Card[size]`), `SubmitIterator`, the loop `SubmitHasNext`/`SubmitNext`/
  `SubmitGet`, and `SubmitJudge`; Reset is `ResetClick`, `ResetWhile`,
  `ResetDetach`, `ResetRemove`, `ResetClear`.
* **GL thread** (`glPc`). `FrameWithoutCard` and `FrameWithHit` are the start of a
  frame up to the hit test, and need a session; `FrameThrows` is a frame whose
  `session.update()` throws, which polls no tap; without a session `onDrawFrame`
  returns at once, which changes nothing. `CheckSize`, `EvictDetach`,
  `EvictRemove`, `EvictUntrack`, `EvictUnmap`, `CreateAnchor`, the demo's switch
  (`DemoSuit`, `DemoValue`), `ReadValue` and `ReadSuit` (the arguments of
  `new Card`), `TrackCard`, `MapCard`, `AddAnchor` follow `handleTap` statement
  by statement; `ShowToast` and `ClearMessage` end the frame.
* **Session.** Of its life (module `ArSession`) the table sees that it is made and
  given up between two handlers (`SessionMade`, `SessionLost`).
* `Relaunch` is the user starting the process again after a crash.

What is abstracted, and why it is sound for the properties:

* **Atomicity.** A step is one operation on a shared collection or one access of
  `currentCardValue` or `currentSuit`; reads and writes of the other scalars next
  to it belong to the same step, except where their order matters (`showMessage`
  before `message`, the toast before the flag is cleared, the cases of a switch).
  Single `ArrayList`/`HashMap` operations are taken as atomic: torn
  internals and unsynchronised visibility of the Java memory model are left out,
  so the real program can do *more* than the model. Every failure shown here needs
  nothing but interleaving.
* **The iterator** is a cursor and a flag `stale` standing for its comparison of
  `modCount`: set by any structural change since the iterator was made. Exactly
  as in `ArrayList`, `hasNext` compares the cursor with the size and only `next`
  fails fast.
* **Switches without `break`.** `fall` is the next case of the spinner's switch. Each
  case is a write of its own, which the GL thread may read before the next one
  overwrites it: a tap can place any card of a value and a suit byte that some case
  assigns, and `TypeOK` bounds it by that and no more. Once no switch is running the
  last case has won (section 5).
* **Drawing** reads the lists and changes nothing; its exceptions are caught; it has
  no step. The toast is taken to be shown; Android's requirement
  that a toast be made on a thread with a looper is outside the model.
* **History variables** `snapshot`, `overlap`, `raced`, `evicted` record what the
  properties speak about; no action's guard or assignment of a program variable
  reads them.

### CameraPipeline

* **Main thread.** The life cycle of the activity, the surface and layout callbacks
  of the preview, the spinner, the switch, `onPreviewFrame` and the callbacks of
  detections run one at a time. A handler that stops the camera has two steps:
  `StopIn` (`setActive(false)`) and, when the processing thread has ended, the rest
  (`PauseStopped`, `SelectStopped`, `ToggleStopped`, `DestroyStopped`); in between
  `uiPc` names it and nothing else runs on the main thread.
* **Processing thread.** `ThreadLoop` is the part of `run` under the runnable's lock
  (wait, leave, or take the pending frame), `ProcessFrame` the call under
  `processorLock`, `ReturnBuffer` the `finally` clause. `release` holds
  `processorLock` from `onDestroy` to `DestroyStopped`; no other holder waits for
  anything.
* **Camera.** A buffer is named by the camera that made it and a number; `contents` says
  which frame it holds. The external camera fills fresh buffers in the order in which
  `createCamera` adds them, and those it got back in any order (`CameraFills`). `stop` leaves
  `pendingFrameData` as it is, so a buffer of an earlier camera can be handed to the
  next one; its frame is not in `bytesToByteBuffer` and is skipped.
* **Starting** can fail in four ways: no camera is found; an `IOException` after
  `Camera.open` leaves a camera open that no field refers to (`noSize`); another comes
  when the field `camera` is set (`noTexture`); a `RuntimeException` of `Camera.open`
  is caught by nobody and ends the process (`throws`, `uiPc = "crashed"`; nothing is
  persisted, so the model ends there). The preview's callbacks (`startIfReady`) log an
  `IOException`; the activity (`startCameraSource`) releases its source. `startRequested`
  stays set in both cases and over `onPause`, which is how a camera comes to be started
  while the activity is not resumed; `lateStart` records it of the open camera.
* **Images.** A processor keeps buffers, not copies. A detection records the frame it was
  begun for (`frame`, the number when the buffer was handed in) and what the buffer holds
  when it begins (`seen`), which is what the bitmap and a custom classifier's input are
  made of. A Firebase detector has the buffer itself: its results are of anything between
  `seen` and what the buffer holds in the end. `shown` is a processor with the frames of
  the results and of the image they are drawn over.
* **Several processors** exist side by side: one that was replaced still gets its
  callbacks and draws on the same overlay. A `VisionProcessorBase` has one detection at a
  time; a custom classifier (`custom`) begins one for every frame, gets its answers in any
  order, and draws its labels over what the buffer holds by then. One that cannot be
  loaded leaves the old processor in place (`"unloadable"`).
* One set of variables stands for the source that both the activity and the preview
  refer to. The activity makes another only when it has released the first, and
  `onCreate` is left out while a leaked camera is still open, where two would exist.

`FrameFeed` is instantiated with `streaming <- custom`, `last <- begun` and
`detecting <- detections`: the abstract specification knows neither buffers nor threads. It
promises the order in which frames are handed in, and that what a detection sees and what is
shown of it are no older than its frame. It does not promise that each contents is seen once:
`camera_recycled` shows that the code does not keep that.

### ArSession

The main thread runs `onResume` in the steps that the GL thread can tell apart: the
assignment of `session` (`CreateSession`), `session.resume()`, `surfaceView.onResume()`
and the rest (`Listen`). The GL thread's frame reads the field `session` three times:
the test for null, the argument of `updateSessionIfNeeded`, and `session.update()`;
`updateSessionIfNeeded` is a step for each of: test and read of the rotation,
`setDisplayGeometry`, the lowering of the flag. Taken from Android: `surfaceView.onPause`
returns when the GL thread has stopped between two frames; a view that was paused
reports its surface size anew; a new view is not paused; showing a snackbar dismisses the
one before and runs its callback. `session.update()` may throw on any session, also a running
one whose camera was taken away; the frame then ends. `missed` and `wasPaused` are history. A second
`onResume` with an error on the screen finishes the activity, so no activity makes more
than two sessions and `MaxSessions = 3` is never reached.

### StillImage

One thread; the hard part is what happens between its events. `Recreate` is
`onSaveInstanceState` followed by the `onCreate` of the next activity, at any time,
also under the camera or the chooser. `reports` holds what the spinners have still to
tell their listeners: after a recreation both, since a `Spinner` keeps its selection and
reports it after layout. `laidOut` says whether the activity has had its layout pass
(`Layout`); the result of a camera or chooser above a new activity comes before it.
`imageMaxWidth` and `imageMaxHeight` are one variable: null, zero (read from a bundle without
them), measured before the layout (`unlaid`) or after it (`screen`). An image may be missing
(an `IOException`, logged), not decode (`getBitmap` returns null, and line 283 throws what
nobody catches), be so thin that the casts of lines 289 and 290 give 0, or be good; `insert`
may return null, and the camera is started all the same. Detections are numbered; they answer
in any order, fail, or are lost with the activity. `tryReload` is one operator for its four
callers.

## 4. Runs

| Run | Result | What it shows |
|---|---|---|
| `trick` | passes | For every trick of up to four cards, duplicates included, under every trump: `trickWinner` names the strongest card by the rules, the earliest of equals (`WinnerIsStrongest`), and one more card takes the trick or leaves the winner (`LaterCardTakesOrLoses`). |
| `table` | passes | Under all interleavings: the cap (`AnchorCap`), the order of taps (`MarkOrder`), Submit reads a prefix of one moment, all of it if nothing was evicted (`SubmitReadsOneMoment`), `anchors` and `trackingCards` agree between events unless a Reset was raced (`ListsAgreeUnlessRaced`), every anchor on the table is still tracked (`TableIsTracked`), a crash needs a raced Reset, an overlapped Submit or an eviction (`CrashNeedsRaceOrEviction`), every queued tap is taken up as long as there is a session (`TapsServed`). |
| `table_evict` | violated | `EachAnchorHasCard`: at the cap the wrong entry leaves `cardTypes`. |
| `table_toast` | violated | `WinnerIsShown`: the flag can be consumed before the winner is written. |
| `hand` | passes | `Rank` is that of the rules of poker for the cards as they were last assessed, on every ordered five-card array of the instance and whatever is edited later; the one exception, a run with the ace at the end its constant does not stand for, is stated with its outcome (`RankFollowsRules`); the predicates are inclusive on arrays of any length up to five (`PredicatesInclusive`). |
| `camera` | passes | Buffers have one owner and none of an open camera is lost (`BuffersKept`); at most one buffer of an earlier camera is about (`OneForeignBuffer`); the thread never runs without a camera nor a previewing camera without a thread (`ThreadServesCamera`); `release` finds a live thread only after a late start (`ReleaseFindsThreadOnlyAfterLateStart`); handlers return, or end with the process, but for that case (`HandlersReturn`); a pending frame or a newer one reaches detection, unless a detection failed, the camera is stopped or holds a foreign buffer (`FramesReachDetection`); the whole implements `FrameFeed`: order of frames, nothing shown that is older than its frame (`FeedSpec`). |
| `camera_release` | violated | `ReleaseReturns`: after a late start `release` and the thread wait for each other. |
| `camera_recycled` | violated | `DetectsItsFrame`: a frame kept as `latestImage` is overwritten before its detection begins. |
| `session` | passes | Once the view has been paused no frame meets a null or paused session (`FramesFindRunningSession`); a screen without a session is explained (`EmptyScreenExplained`); the GL thread asks a running session for frames again after every successful resume (`FramesFollow`); the session learns how the display is turned, but for the races that `missed` records (`GeometryFollows`). |
| `session_retry` | violated | `RecreatedSessionStays`: the activity finishes itself when its second attempt succeeds. |
| `still` | passes | When the spinners have reported, the newest detection is of the selected image, mode and size (`NewestIsSelected`); the preview is of the selected image (`PreviewIsOfImage`); an outdated result is drawn only if it was overtaken (`StaleOnlyIfOverlapped`); the size is never measured before the layout pass, although images are loaded before it (`MeasuredAfterLayout`); an image survives recreation (`RecreationKeepsImage`). |
| `still_turned` | violated | `NeverScaledToNothing`: an early save, then an image, ends the process. |

### Bounds

* `table`: `MaxAnchors = 2` (20 in the code), so that eviction happens with one
  anchor left behind, the case in which the wrong entry is removed;
  `MaxTaps = 3`, one more than the cap, so that the third tap evicts;
  `QueueCapacity = 1` (16 in the code), so that a tap is dropped while another
  waits; `SuitItems = {3}`, the case before the last, so that a suit nobody ends up with can
  be read in between, and `ValueItems = {13}`: a longer way through a switch adds more
  values of the same kind. Spinners and buttons are used any number of times.
  `MaxTaps` bounds one run of the process only; a crash starts afresh. The safety properties are proved for all
  values (section 6).
* `trick`: tricks of four (a round of euchre) over the ten, the jack and the ace (a
  card below the jack and one above it, so that a bower overtakes both); all four
  suits and trumps. Proved for tricks of every length and all values.
* `hand`: nine to king, a run, and the low ace, with which ten to king is a run only if the
  ace moves to the other end; two suits, all orders; one edit of one card after
  construction. Section 6 proves it for all values and suits.
* `camera`: two cameras, so that buffers of the first meet the second; two buffers
  (4 in the code), so that one can be pending or in process while the camera fills the
  other; three frames, so that one is in detection, one is kept as latest, and the third
  overwrites it; one processor of either kind, which may be selected at any time. The same
  properties hold with two frames and two processors, where a replaced processor answers
  late, and with one camera, three frames and two processors; together they are too long for
  one run. The safety properties and the refinement are proved for all values.
* `session`: two posted hides; the sessions are bounded by the code itself.
* `still`: two images, so that one replaces another, and four detections, so that a
  recreation with its three reloads fits; when they are used up, no further image is
  processed. Four of the modes and three of the sizes are represented by two each: the
  code treats all modes alike and distinguishes only the screen's size from fixed ones.

### Fairness

`FairSpec` assumes `WF(UiStep)`: the UI thread finishes a handler it started;
`WF(GlStep)`: `GLSurfaceView` renders continuously
(`RENDERMODE_CONTINUOUSLY`); and `SF(FrameWithHit \/ FrameWithoutCard("TRACKING"))`: a session
that is there again and again neither throws in every `update()` nor stays paused for
ever. Nothing is assumed of the user, nor that there ever is a session: taps,
clicks, `SessionMade` and `Relaunch` may never happen, and a tap queued without a session
waits until there is one. `WinnerIsShown` fails even with the third assumption.

`CameraPipeline`: `WF(ThreadStep)` and `WF(HandlerStopped)`, threads run and `join`
returns once the thread has ended; `WF` of `onPreviewFrame`, the looper delivers;
`SF(DetectionEnds(p))`, a Firebase task completes, with either result, and its callback
gets its turn between handlers, however often one is in between. `ArSession`: `WF` of the
main thread's handler, of the display callback and of the GL thread. Nothing is
assumed of the camera, the user, the surface or the permission dialog. `StillImage`
states safety only.

Deadlock is checked in every passing run but `camera`, where the code may really stop: in the
deadlock of `camera_release`, when an exception has ended the process, and when a leaked
camera is left with its bounds used up.

## 5. Findings

* **Eviction removes the wrong map entry** (`EuchreAugmentActivity.java:761`):
  `anchors.remove(0)` precedes `cardTypes.remove(anchors.get(0))`, so the next
  anchor loses its card and the evicted one keeps its entry; a later Submit hands
  `null` to `trickWinner`. Run `table_evict`.
* **A winner that is never shown** (`:331`): `showMessage = true` precedes the
  message by the whole loop. Run `table_toast`.
* **A release that does not return** (`CameraSource.java:146`): it holds
  `processorLock` while it joins a thread that needs it. Run `camera_release`.
* **A frame overwritten while it waits** (`:727`): the buffer goes back to the camera
  while `VisionProcessorBase` keeps it. Run `camera_recycled`.
* **A retry that ends the activity** (`EuchreAugmentActivity.java:431`): "Searching for
  surfaces..." dismisses the error, and that finishes the activity. Run `session_retry`.
* **A size restored as zero** (`StillImageActivity.java:148`). Run `still_turned`.

More is visible without a run:

* **Switches that fall through** (`EuchreAugmentActivity.java:213`, `:269`, `:299`, `:781`). No case
  has a `break`, so a selection ends at the last case whatever was picked: the value is the ace,
  suit and trump are spades, and the demo places aces of spades where its comments (`:784` to
  `:804`) announce a Jack of Spades, a Queen of Hearts and so on; `:203` and `:262` say that the
  listeners "update" the fields "accordingly". Only a tap handled between two of the writes sees
  another value, or a value of one selection with the suit of another. The model does all of this step
  by step; no property promises otherwise.
* **The ace.** A low ace follows no king, so a suit has nine straight flushes and there are 9180
  straights, where `Hand_test.java:622` and `:626` expect 40 straight flushes in all and 10200
  straights. `README.txt` says that one must decide ahead whether aces are high or low, as the
  code does. `RankFollowsRules` states the rule with the ace at either end, and the code's answer
  where it differs.
* **An edited card** leaves `Rank` behind, since `Hand` keeps the caller's array (`README.txt:13`
  promises a reassessment "when the Hand is created or modified"). `RankFollowsRules` therefore
  speaks of the cards as they were last assessed.
* **A null session** (`EuchreAugmentActivity.java:568`). Until the view is paused for the first time
  it draws while `onResume` runs, which may set `session` back to null after a frame has tested it;
  the uncaught exception ends the process. `FramesFindRunningSession` says that the first pause
  puts an end to this.
* **A camera nobody closes** (`CameraSource.java:286`, `:293`): an `IOException` after `Camera.open`
  leaves it open, and no field refers to it. A `RuntimeException` of `Camera.open` itself is not
  caught at all.
* **An image that does not decode**, or is too thin, ends the process (`StillImageActivity.java:283`,
  `:289`).

## 6. Proofs

`EuchreTableProofs` proves, for every `QueueCapacity`, `MaxAnchors`, `MaxTaps`, whichever
spinner entries are picked and both values of `DEMO`, from `TableAssumption` and
`NullAssumption` (`null` is no card) alone:
`TypeOK`, `AnchorCap`, `MarkOrder`, `SubmitReadsOneMoment`, `ListsAgreeUnlessRaced`,
`TableIsTracked` and `CrashNeedsRaceOrEviction`, each as `Spec => []P`, all from the theorem
`Invariance`: `Spec => []IInv`.

None of the properties is inductive alone. `IInv` adds how far each thread is:

* `CapInv`: between the eviction and `anchors.add` there is room, since the UI thread
  only ever removes. This is why the test and the add may be far apart.
* `OrderInv`: the taps in the queue, the one being handled and the ones on the table
  are ordered; that gives `MarkOrder` when an anchor is added.
* `ReadInv`: what Submit has read is a prefix of the list at the iterator's creation;
  the list is unchanged or `stale` is set, and a stale list that lost nothing is longer
  than the snapshot, so that the loop cannot end early without an eviction.
* `AgreeInv`: by how much `trackingCards` is ahead of `anchors` at each point of
  `handleTap`; `MapInv`: below the cap each anchor has its card.
* `TrackInv`: every anchor in the list is tracked, but for the first one between its
  `detach` and its `remove`, and the one about to be added is tracked too. Reset
  detaches and removes in two steps of its own, so it holds outside a Reset,
  and the loop's end, an empty list, brings it back.
* `ResetInv`, `SubmitInv`: a Reset that is not raced, and a Submit that overlaps no
  tap, see the table stand still. With `EvictInv` and `MapInv` they give
  `CrashNeedsRaceOrEviction`.

There is one lemma per part with one case per action; `InvStep` puts them together.

`CameraPipelineProofs` proves from `PipelineAssumption` (the bounds are natural numbers)
`TypeOK`, `BuffersKept`, `OneForeignBuffer`, `ThreadServesCamera`,
`ReleaseFindsThreadOnlyAfterLateStart` and the refinement `Spec => FeedSpec`. Its `IInv` has

* `ControlInv`: the thread holds a buffer exactly between taking and returning it; it
  lives only while a camera is open; only a handler that then waits makes it inactive;
  without permissions there is no source, no request and no camera; a thread that is
  alive outside a resumed activity, and not about to be joined by `onPause`, was
  started late. The last part is what `release` depends on.
* `BufferInv`: the two properties of buffers, and that no buffer belongs to a camera
  not yet opened, so that a new camera's buffers are new.
* `ProcessorInv`, `OrderInv`: the frames that a processor has begun, keeps as latest,
  in the thread's hands, pending and on their way are in strictly increasing order,
  and a buffer that is kept or in detection holds its frame or a newer one.
  This is why a detection is begun for a newer frame than all before it, across
  restarts and changes of the processor, and why nothing older is ever shown.
* `MadeInv`: a processor that is not yet made has begun nothing, so that which kind
  it is can still be chosen.

For the refinement every action is mapped: `CameraFills` to `Capture`, `ProcessFrame`
to `Begin` or a stutter, a callback to `Succeed`, `SucceedAndGoOn` or `Fail`, the making of a
custom classifier to `Stream`, all others to `Clear` or a stutter (`Quiet`).

`ArSessionProofs` proves from `SessionAssumption` (positive bounds) `TypeOK`,
`FramesFindRunningSession` and `EmptyScreenExplained`. `OrderInv` says at which points of
`onResume` and `onPause` the view is paused and the session is running: after the first
pause the view is only unpaused behind `session.resume()`, and the session only paused
behind the view.

`StillImageProofs` proves from `StillAssumption` (natural bounds) `TypeOK`,
`NewestIsSelected`, `PreviewIsOfImage`, `StaleOnlyIfOverlapped`, `MeasuredAfterLayout` and the
action property `RecreationKeepsImage`. `IInv` adds `LayoutInv` (before the layout the size is
null only if there is nothing to load, which is why none is measured too early), `RequestInv`
(the newest request is for the current fields, and a field
differs from its spinner only while that spinner's report is due) and `FlightInv`
(detections in flight are the newest or were overtaken).

`EuchreRoundProofs` proves from `RoundAssumption` (values are those of a card, a trick has
some natural size) `TypeOK`, `WinnerIsStrongest` and the action property
`LaterCardTakesOrLoses`, for every set of values, every trump and tricks of every length.
The state is simple and `TypeOK` is inductive; the work is in the operators. `HighestOf`
is a loop, written as a function recursive over the positions. That such a function
exists (`WalkExists`) and what it returns (`HighestOfLeads`: the earliest highest card of
the suit) are inductions; they are stated with `LeastNat` of `LeastElement`, the least
position at which the claim fails, which needs no induction scheme. `WinnerCases` says
which of the four searches of `trickWinner` decides, and `StrengthFacts`, `PlainStrength`
compare the cards by the rules. `LaterCardTakesOrLoses` then follows from
`WinnerIsStrongest` before and after the card: a winner among the old cards is the
earliest strongest of them, and that is unique. The proof also showed that `Strength`,
first written as a `CASE` with overlapping guards (the left bower is a trump as well),
left open which branch is taken; it is now a chain of conditions.

`HandObjectProofs` proves from `HandAssumption` `TypeOK`, `PredicatesInclusive` and
`RankFollowsRules`. `IInv` says that `Rank` is `determineRank` of the cards as they were when
it last ran; what `determineRank` computes is the larger part:

* The methods of `Hand.java` search positions i < j < k ...; the rules count values. A method
  that looks for n equal cards finds them exactly if some value occurs at n positions
  or more (`OfAKind`; positions are peeled off a set one by one with `LeastNat`).
  `TwoPairCounts` and `FullHouseCounts` do the same for two groups. `isTwoPair` starts
  from the first pair in the order of its loops and may miss others; `FirstPair`,
  `TwoPairOfTwo` and `TwoPairOfFour` show that this loses nothing. All but `FullHouseCounts` are
  for arrays of every length.
* `isStraight` finds each value from the lowest upwards. A map from a set of n positions
  onto n values is one-to-one, so a straight has distinct values (`StraightIsDistinct`)
  and the converse holds by the same count (`DistinctIsStraight`, `StraightIsRun`).
* `FiveCounts`: the counts of different values add up to five at most. With it
  `KindsByMethods` compares the methods and the rules kind by kind, and
  `RankIsBestKind` shows that the if-else chain stops at the best one. A run with the
  ace at its other end is treated apart: its values are distinct, so that only the
  flush is left.

`RankFollowsRulesHolds` has the hypothesis `HandSize = 5`: the ranks of `Hand.java` are those
of five-card poker, and for other sizes the rules that `Kinds` states (one pair, two pairs,
...) leave hands out, such as three pairs of six cards. The values may be all of 1 to 14,
the suits all four, and cards may be duplicated.

Only model-checked: the liveness properties (`TapsServed`, `HandlersReturn`,
`FramesReachDetection`, `FramesFollow`, `GeometryFollows`); liveness under fairness is outside
the prover. The six violations are counterexamples that TLC finds.

## 7. Not modelled

* **The poker imager's own work.** Its life cycle is that of `ArSession`. `pokerCards` is
  never assigned, `parseCard` calls `Integer.parseInt` on a word for every image of
  the database, and `SavePicture` lists the files of a file: each fails in the same way
  the first time it is reached, and nothing after it has a state to speak of.
* The inside of `CustomImageClassifier`: `getTopLabels` is a `java.util.PriorityQueue`.
* `stop` of a processor closes its detector; the calls on a closed one, and exceptions thrown
  by the detectors' own calls, are left out: a detection that fails stands for them. The
  overlays of successive activities are one variable.
* `start(SurfaceHolder)` of `CameraSource`, which nothing calls; the choice of preview
  size, frame rate and rotation in `createCamera`.
* Renderers, overlays and detector adapters: drawing and library calls, no state a
  property could be about. `ChooserActivity` is a menu; the permission and full-screen
  helpers call Android and keep nothing; `Hand_test` draws random hands and prints.
* ARCore, Firebase, TensorFlow Lite, Android: external; they appear as the outcomes the code
  tells apart (a hit test, a session that cannot be made, a detection that fails).
* The vendored TensorFlow tree, which no build file of the applications uses.
* `parseSuit` and `parseValue` of `EuchreAugmentActivity`: called from nowhere.
