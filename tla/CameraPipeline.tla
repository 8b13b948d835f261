--------------------------- MODULE CameraPipeline ---------------------------
(***************************************************************************)
(* The live preview of the ML Kit application: LivePreviewActivity and     *)
(* CameraSourcePreview, which open and close the camera on the main        *)
(* thread; CameraSource with its processing thread; and the processors.    *)
(*                                                                         *)
(* The main thread runs one handler at a time: the activity's life cycle,  *)
(* surface and layout callbacks, the spinner and the switch, the camera's  *)
(* preview callback, and the callbacks of detections.  A handler that      *)
(* stops the camera waits for the processing thread to end; uiPc says      *)
(* which one is waiting.  Bodies under the runnable's lock are one step;   *)
(* processorLock is held across steps only by release, in onDestroy.       *)
(*                                                                         *)
(* One set of variables stands for the CameraSource that the preview and   *)
(* the activity refer to.  The activity makes a new one only when it has   *)
(* none, and then the old one is stopped.  Java assertions are off, as on  *)
(* every Android device.                                                   *)
(***************************************************************************)
EXTENDS VisionProcessor

VARIABLES
    \* the camera, as CameraSource uses it
    camera,            \* which opening of a camera the field refers to; 0: null
    opens,             \* the cameras opened so far
    previewing,        \* startPreview was called
    queued,            \* the buffers the camera may fill
    posted,            \* filled buffers, on their way to onPreviewFrame
    captured,          \* the number of the latest frame
    \* FrameProcessingRunnable and its thread
    active, pendingFrameData,
    procPc, data,
    frameProcessor,    \* the processor that is set; 0: null
    made,              \* the processors made so far
    \* CameraSourcePreview
    inPreview,         \* its cameraSource is not null
    startRequested, surfaceAvailable,
    \* LivePreviewActivity
    held,              \* its cameraSource is not null
    granted,           \* the permissions are granted
    life, uiPc,
    \* history: no action reads it
    lateStart          \* the open camera was started while the activity was not
                       \* resumed

cameraVars   == <<camera, opens, previewing, queued, posted>>
frameVars    == <<contents, captured>>
threadVars   == <<active, pendingFrameData, procPc, data>>
choice       == <<frameProcessor, made, custom>>
previewVars  == <<inPreview, startRequested, surfaceAvailable>>
activityVars == <<held, granted, life, uiPc>>
vars == <<cameraVars, frameVars, threadVars, choice, previewVars, activityVars, lateStart,
          processorVars>>

Own(g) == {g} \X (1..NumBuffers)

(* The keys of the map: filled by createCamera, cleared by stop.           *)
bytesToByteBuffer == IF camera = 0 THEN {} ELSE Own(camera)

Waiting == {"pause", "select", "toggle", "destroy"}

TypeOK ==
    /\ ProcessorTypeOK
    /\ camera \in 0..MaxOpens /\ opens \in 0..MaxOpens
    /\ previewing \in BOOLEAN
    /\ queued \in SUBSET Buffers /\ posted \in SUBSET Buffers
    /\ contents \in [Buffers -> 0..MaxFrames] /\ captured \in 0..MaxFrames
    /\ active \in BOOLEAN
    /\ pendingFrameData \in Buffers \cup {NoBuffer} /\ data \in Buffers \cup {NoBuffer}
    /\ procPc \in {"none", "loop", "wait", "want", "return"}
    /\ frameProcessor \in 0..MaxProcessors /\ made \in 0..MaxProcessors
    /\ inPreview \in BOOLEAN /\ startRequested \in BOOLEAN /\ surfaceAvailable \in BOOLEAN
    /\ held \in BOOLEAN /\ granted \in BOOLEAN
    /\ life \in {"created", "resumed", "paused", "stopped", "destroyed"}
    /\ uiPc \in Waiting \cup {"idle", "crashed"}
    /\ lateStart \in BOOLEAN

Init ==
    /\ ProcessorInit
    /\ camera = 0 /\ opens = 0 /\ previewing = FALSE
    /\ queued = {} /\ posted = {}
    /\ contents = [b \in Buffers |-> 0] /\ captured = 0
    /\ active = TRUE /\ pendingFrameData = NoBuffer
    /\ procPc = "none" /\ data = NoBuffer
    /\ frameProcessor = 0 /\ made = 0
    /\ inPreview = FALSE /\ startRequested = FALSE /\ surfaceAvailable = FALSE
    /\ held = FALSE /\ granted \in BOOLEAN
    /\ life = "destroyed" /\ uiPc = "idle"
    /\ lateStart = FALSE
-----------------------------------------------------------------------------
(* The processing thread.                                                  *)

(* lock.notifyAll()                                                        *)
Notified == IF procPc = "wait" THEN "loop" ELSE procPc

(* The synchronized part of run: wait, leave, or take the pending frame.   *)
ThreadLoop ==
    /\ procPc = "loop"
    /\ \/ /\ active /\ pendingFrameData = NoBuffer
          /\ procPc' = "wait"
          /\ UNCHANGED <<pendingFrameData, data>>
       \/ /\ ~active
          /\ procPc' = "none"
          /\ UNCHANGED <<pendingFrameData, data>>
       \/ /\ active /\ pendingFrameData # NoBuffer
          /\ procPc' = "want"
          /\ data' = pendingFrameData
          /\ pendingFrameData' = NoBuffer
    /\ UNCHANGED <<cameraVars, frameVars, active, choice, previewVars, activityVars,
                   lateStart, processorVars>>

(* release holds the lock until the handler is through.                    *)
processorLockFree == uiPc # "destroy"

(* frameProcessor.process under processorLock; with no processor set, the  *)
(* exception is caught.                                                    *)
ProcessFrame ==
    /\ procPc = "want" /\ processorLockFree
    /\ IF frameProcessor = 0
       THEN UNCHANGED processorVars
       ELSE LET image == [buf |-> data, frame |-> contents[data]]
            IN  IF frameProcessor \in custom
                THEN classifyFrame(frameProcessor, image)
                ELSE process(frameProcessor, image)
    /\ procPc' = "return"
    /\ UNCHANGED <<cameraVars, frameVars, active, pendingFrameData, data, choice,
                   previewVars, activityVars, lateStart>>

(* finally camera.addCallbackBuffer(data.array())                          *)
ReturnBuffer ==
    /\ procPc = "return"
    /\ queued' = queued \cup {data}
    /\ data' = NoBuffer
    /\ procPc' = "loop"
    /\ UNCHANGED <<camera, opens, previewing, posted, frameVars, active, pendingFrameData,
                   choice, previewVars, activityVars, lateStart, processorVars>>

ThreadStep == ThreadLoop \/ ProcessFrame \/ ReturnBuffer
-----------------------------------------------------------------------------
(* The camera and its callback.                                            *)

(* New buffers are filled in the order createCamera adds them; when one    *)
(* that was given back is filled again is left open.                       *)
CameraFills(b) ==
    /\ previewing /\ captured < MaxFrames /\ b \in queued
    /\ contents[b] = 0 => \A c \in queued : contents[c] = 0 => b[2] <= c[2]
    /\ captured' = captured + 1
    /\ contents' = [contents EXCEPT ![b] = captured + 1]
    /\ queued' = queued \ {b}
    /\ posted' = posted \cup {b}
    /\ UNCHANGED <<camera, opens, previewing, threadVars, choice, previewVars,
                   activityVars, lateStart, processorVars>>

(* A mutation of setNextFrame: the frame it replaces is not given back.    *)
setNextFrame_Leaks(b) ==
    /\ UNCHANGED queued
    /\ IF b \in bytesToByteBuffer
       THEN pendingFrameData' = b /\ procPc' = Notified
       ELSE pendingFrameData' = NoBuffer /\ UNCHANGED procPc

(* A mutation of setNextFrame: the thread is not told of the frame.        *)
setNextFrame_Silent(b) ==
    /\ queued' = queued \cup ({pendingFrameData} \ {NoBuffer})
    /\ pendingFrameData' = IF b \in bytesToByteBuffer THEN b ELSE NoBuffer
    /\ UNCHANGED procPc

(* A mutation of setNextFrame: the test for null is missing.               *)
setNextFrame_Null(b) ==
    /\ queued' = queued \cup {pendingFrameData}
    /\ IF b \in bytesToByteBuffer
       THEN pendingFrameData' = b /\ procPc' = Notified
       ELSE pendingFrameData' = NoBuffer /\ UNCHANGED procPc

(* The frame that was pending goes back to the camera; a buffer that is    *)
(* not in the map is skipped, and dropped.                                 *)
setNextFrame(b) ==
    /\ queued' = queued \cup ({pendingFrameData} \ {NoBuffer})
    /\ IF b \in bytesToByteBuffer
       THEN pendingFrameData' = b /\ procPc' = Notified
       ELSE pendingFrameData' = NoBuffer /\ UNCHANGED procPc

(* The looper delivers the buffers in the order in which they were filled. *)
onPreviewFrame(b) ==
    /\ uiPc = "idle" /\ b \in posted
    /\ \A c \in posted : contents[b] <= contents[c]
    /\ posted' = posted \ {b}
    /\ setNextFrame(b)
    /\ UNCHANGED <<camera, opens, previewing, frameVars, active, data, choice,
                   previewVars, activityVars, lateStart, processorVars>>
-----------------------------------------------------------------------------
(* Opening and closing the camera, on the main thread.                     *)

Closed == camera' = 0 /\ previewing' = FALSE /\ queued' = {} /\ posted' = {}

(* createCamera with its buffers, and startPreview if it gets that far.    *)
Opened(preview) ==
    /\ opens < MaxOpens
    /\ opens' = opens + 1 /\ camera' = opens + 1 /\ previewing' = preview
    /\ queued' = Own(opens + 1) /\ posted' = {}

(* A mutation of Joined: nobody waits for the thread.                      *)
Joined_Never == TRUE

(* processingThread.join() returns, or there is no thread.                 *)
Joined == procPc = "none"

(* A mutation of Started: the runnable is not made active again.           *)
Started_Inactive ==
    /\ Opened(TRUE)
    /\ procPc' = "loop" /\ UNCHANGED active
    /\ startRequested' = FALSE
    /\ shown' = Nothing

(* start() goes through: the thread is made and started, and the preview   *)
(* clears the overlay.                                                     *)
Started ==
    /\ Opened(TRUE)
    /\ active' = TRUE /\ procPc' = "loop"
    /\ startRequested' = FALSE
    /\ shown' = Nothing

(* What throws an IOException: looking for a camera; looking for its sizes *)
(* and rates when it is open, which leaves it open and unknown to anybody; *)
(* and setPreviewTexture, when the field camera is assigned.               *)
Failures == {"noCamera", "noSize", "noTexture"}

OpensBy(o) == IF o \in {"noSize", "noTexture"} THEN 1 ELSE 0

(* Camera.open and startPreview may also throw a RuntimeException, which   *)
(* nobody catches.                                                         *)
Left(o) == IF o = "throws" THEN "crashed" ELSE "idle"

(* startCameraSource on a source whose camera is closed; has says if the   *)
(* activity has a source at all, overlay what is drawn if nothing starts.  *)
(* A failure makes the activity release its source and forget it; the      *)
(* preview does not forget it, nor that a start was requested.             *)
startCameraSource(has, overlay, o) ==
    \/ /\ ~has /\ o = "noSource"
       /\ Closed /\ shown' = overlay
       /\ UNCHANGED <<opens, active, procPc, held, inPreview, startRequested>>
    \/ /\ has /\ o = IF surfaceAvailable THEN "throws" ELSE "notReady"
       /\ Closed /\ shown' = overlay
       /\ held' = TRUE /\ inPreview' = TRUE /\ startRequested' = TRUE
       /\ UNCHANGED <<opens, active, procPc>>
    \/ /\ has /\ surfaceAvailable /\ o = "ok"
       /\ Started
       /\ held' = TRUE /\ inPreview' = TRUE
    \/ /\ has /\ surfaceAvailable /\ o \in Failures
       /\ Closed /\ shown' = Nothing
       /\ opens + OpensBy(o) <= MaxOpens /\ opens' = opens + OpensBy(o)
       /\ active' = FALSE
       /\ held' = FALSE /\ inPreview' = TRUE /\ startRequested' = TRUE
       /\ UNCHANGED procPc

Outcomes == {"noSource", "notReady", "ok", "throws"} \cup Failures

(* CameraSourcePreview.startIfReady from a callback of the view: a failure *)
(* is logged, and leaves the camera it has opened.                         *)
startIfReady(o) ==
    \/ /\ ~(startRequested /\ surfaceAvailable') /\ o = "notReady"
       /\ UNCHANGED <<cameraVars, active, procPc, startRequested, shown, lateStart>>
    \/ /\ startRequested /\ surfaceAvailable' /\ camera # 0 /\ o = "running"
       /\ startRequested' = FALSE /\ shown' = Nothing
       /\ UNCHANGED <<cameraVars, active, procPc, lateStart>>
    \/ /\ startRequested /\ surfaceAvailable' /\ camera = 0 /\ o = "ok"
       /\ Started
       /\ lateStart' = (lateStart \/ life # "resumed")
    \/ /\ startRequested /\ surfaceAvailable' /\ camera = 0 /\ o = "noTexture"
       /\ Opened(FALSE)
       /\ UNCHANGED <<active, procPc, startRequested, shown, lateStart>>
    \/ /\ startRequested /\ surfaceAvailable' /\ camera = 0
       /\ o \in {"noCamera", "noSize", "throws"}
       /\ opens + OpensBy(o) <= MaxOpens /\ opens' = opens + OpensBy(o)
       /\ UNCHANGED <<camera, previewing, queued, posted>>
       /\ UNCHANGED <<active, procPc, startRequested, shown, lateStart>>

ViewOutcomes == {"notReady", "running", "ok", "throws"} \cup Failures

(* What the selected model asks for: a VisionProcessorBase, or a custom    *)
(* classifier, whose model may fail to load.                               *)
Models == {"base", "custom", "unloadable"}

(* createCameraSource: a new source if there is none, and a new processor; *)
(* if there is no such processor the source keeps the one it has.          *)
createCameraSource(model) ==
    /\ pendingFrameData' = IF held THEN pendingFrameData ELSE NoBuffer
    /\ IF model = "unloadable"
       THEN frameProcessor' = (IF held THEN frameProcessor ELSE 0) /\ UNCHANGED <<made, custom>>
       ELSE /\ made < MaxProcessors /\ made' = made + 1 /\ frameProcessor' = made + 1
            /\ custom' = IF model = "custom" THEN custom \cup {made + 1} ELSE custom

(* A new source clears the overlay, and so does a new processor.           *)
Cleaned(model) == IF held /\ model = "unloadable" THEN shown ELSE Nothing

images == <<latestImage, processingImage, detections, begun>>
-----------------------------------------------------------------------------
(* The handlers of the main thread.                                        *)

onCreate ==
    /\ life = "destroyed" /\ uiPc = "idle" /\ camera = 0
    /\ life' = "created"
    /\ inPreview' = FALSE /\ startRequested' = FALSE /\ surfaceAvailable' = FALSE
    /\ IF granted
       THEN createCameraSource("base") /\ held' = TRUE
       ELSE held' = FALSE /\ UNCHANGED <<choice, pendingFrameData>>
    /\ shown' = Nothing
    /\ UNCHANGED <<cameraVars, frameVars, active, procPc, data, granted, uiPc, lateStart,
                   images>>

(* The user grants the permissions; the dialog has paused the activity.    *)
onRequestPermissionsResult(model) ==
    /\ life = "paused" /\ uiPc = "idle" /\ ~granted
    /\ granted' = TRUE /\ held' = TRUE
    /\ createCameraSource(model) /\ shown' = Cleaned(model)
    /\ UNCHANGED <<cameraVars, frameVars, active, procPc, data, previewVars, life, uiPc,
                   lateStart, images>>

onResume(o) ==
    /\ life \in {"created", "paused", "stopped"} /\ uiPc = "idle" /\ camera = 0
    /\ life' = "resumed" /\ uiPc' = Left(o)
    /\ startCameraSource(held, shown, o)
    /\ UNCHANGED <<frameVars, pendingFrameData, data, choice, surfaceAvailable, granted,
                   lateStart, images>>

(* onResume while a camera is open: start() returns at once.               *)
onResumeOpen ==
    /\ life \in {"created", "paused", "stopped"} /\ uiPc = "idle" /\ camera # 0
    /\ life' = "resumed"
    /\ inPreview' = (inPreview \/ held)
    /\ startRequested' = IF held THEN ~surfaceAvailable ELSE startRequested
    /\ shown' = IF held /\ surfaceAvailable THEN Nothing ELSE shown
    /\ UNCHANGED <<cameraVars, frameVars, threadVars, choice, surfaceAvailable, held,
                   granted, uiPc, lateStart, images>>

(* A mutation of StopIn: setActive does not notify.                        *)
StopIn_Silent(handler, source) ==
    /\ uiPc = "idle" /\ uiPc' = handler
    /\ active' = IF source THEN FALSE ELSE active
    /\ UNCHANGED <<cameraVars, frameVars, pendingFrameData, procPc, data, choice,
                   previewVars, held, granted, lateStart, processorVars>>

(* setActive(false), the first step of CameraSource.stop, in a handler     *)
(* that then waits; there is nothing to stop without a source.             *)
StopIn(handler, source) ==
    /\ uiPc = "idle" /\ uiPc' = handler
    /\ active' = IF source THEN FALSE ELSE active
    /\ procPc' = IF source THEN Notified ELSE procPc
    /\ UNCHANGED <<cameraVars, frameVars, pendingFrameData, data, choice, previewVars,
                   held, granted, lateStart, processorVars>>

onPause ==
    /\ life = "resumed" /\ life' = "paused"
    /\ StopIn("pause", inPreview)

onItemSelected ==
    /\ life = "resumed" /\ UNCHANGED life
    /\ StopIn("select", inPreview)

onCheckedChanged ==
    /\ life = "resumed" /\ UNCHANGED life
    /\ StopIn("toggle", inPreview)

(* release, whose processorLock is free between two frames.                *)
onDestroy ==
    /\ life \in {"created", "paused", "stopped"} /\ held
    /\ life' = "destroyed"
    /\ StopIn("destroy", TRUE)

onDestroyWithoutSource ==
    /\ life \in {"created", "paused", "stopped"} /\ uiPc = "idle" /\ ~held
    /\ life' = "destroyed"
    /\ UNCHANGED <<cameraVars, frameVars, threadVars, choice, previewVars, held, granted,
                   uiPc, lateStart, processorVars>>

PauseStopped ==
    /\ uiPc = "pause" /\ Joined /\ uiPc' = "idle"
    /\ Closed /\ lateStart' = FALSE
    /\ UNCHANGED <<opens, frameVars, threadVars, choice, previewVars, held, granted, life,
                   processorVars>>

(* Without the permissions they are asked for again, and nothing starts.   *)
SelectStopped(o) ==
    /\ uiPc = "select" /\ Joined /\ uiPc' = Left(o)
    /\ IF granted
       THEN \E model \in Models :
                createCameraSource(model) /\ startCameraSource(TRUE, Cleaned(model), o)
       ELSE UNCHANGED <<choice, pendingFrameData>> /\ startCameraSource(FALSE, shown, o)
    /\ lateStart' = FALSE
    /\ UNCHANGED <<frameVars, data, surfaceAvailable, granted, life, images>>

ToggleStopped(o) ==
    /\ uiPc = "toggle" /\ Joined /\ uiPc' = Left(o)
    /\ startCameraSource(held, shown, o) /\ lateStart' = FALSE
    /\ UNCHANGED <<frameVars, pendingFrameData, data, choice, surfaceAvailable, granted,
                   life, images>>

(* The rest of release.                                                    *)
DestroyStopped ==
    /\ uiPc = "destroy" /\ Joined /\ uiPc' = "idle"
    /\ Closed /\ shown' = Nothing
    /\ held' = FALSE /\ lateStart' = FALSE
    /\ UNCHANGED <<opens, frameVars, threadVars, choice, previewVars, granted, life, images>>

surfaceCreated(o) ==
    /\ life \in {"resumed", "paused"} /\ uiPc = "idle" /\ ~surfaceAvailable
    /\ surfaceAvailable' = TRUE
    /\ startIfReady(o) /\ uiPc' = Left(o)
    /\ UNCHANGED <<frameVars, pendingFrameData, data, choice, inPreview, held, granted, life,
                   images>>

onLayout(o) ==
    /\ life \in {"resumed", "paused"} /\ uiPc = "idle"
    /\ UNCHANGED surfaceAvailable
    /\ startIfReady(o) /\ uiPc' = Left(o)
    /\ UNCHANGED <<frameVars, pendingFrameData, data, choice, inPreview, held, granted, life,
                   images>>

(* The activity is no longer visible.                                      *)
surfaceDestroyed ==
    /\ life = "paused" /\ uiPc = "idle"
    /\ life' = "stopped" /\ surfaceAvailable' = FALSE
    /\ UNCHANGED <<cameraVars, frameVars, threadVars, choice, inPreview, startRequested,
                   held, granted, uiPc, lateStart, processorVars>>

(* The main looper calls back when a detection is over.                    *)
DetectionEnds(p) ==
    /\ uiPc = "idle"
    /\ \E d \in detections[p] : onSuccess(p, d) \/ onFailure(p, d) \/ onClassified(p, d)
    /\ UNCHANGED <<cameraVars, frameVars, threadVars, choice, previewVars, activityVars,
                   lateStart>>

HandlerStopped ==
    \/ PauseStopped \/ DestroyStopped
    \/ \E o \in Outcomes : SelectStopped(o) \/ ToggleStopped(o)

Next ==
    \/ ThreadStep \/ HandlerStopped
    \/ \E b \in Buffers : CameraFills(b) \/ onPreviewFrame(b)
    \/ \E p \in Processors : DetectionEnds(p)
    \/ onCreate \/ onResumeOpen \/ onPause
    \/ onItemSelected \/ onCheckedChanged \/ onDestroy \/ onDestroyWithoutSource
    \/ \E model \in Models : onRequestPermissionsResult(model)
    \/ \E o \in Outcomes : onResume(o)
    \/ \E o \in ViewOutcomes : surfaceCreated(o) \/ onLayout(o)
    \/ surfaceDestroyed

(* The processing thread runs, a handler goes on once the thread it waits  *)
(* for has ended, the looper delivers frames, and detections end.  Nothing *)
(* is assumed of the user, of the system's callbacks or of the camera.     *)
Fairness ==
    /\ WF_vars(ThreadStep)
    /\ WF_vars(HandlerStopped)
    /\ WF_vars(\E b \in Buffers : onPreviewFrame(b))
    /\ \A p \in Processors : SF_vars(DetectionEnds(p))

Spec     == Init /\ [][Next]_vars
FairSpec == Spec /\ Fairness
-----------------------------------------------------------------------------
(* The properties that hold.                                               *)

(* Every buffer has one owner, and while a camera is open none of its      *)
(* buffers is lost: the camera has it to fill, or it is on its way to the  *)
(* callback, or pending, or with the processing thread.  createCamera says *)
(* how many the camera needs in order to go on.                            *)
BuffersKept ==
    /\ queued \cap posted = {}
    /\ {pendingFrameData, data} \cap (queued \cup posted) = {}
    /\ pendingFrameData = data => data = NoBuffer
    /\ camera # 0 => Own(camera) \subseteq queued \cup posted \cup {pendingFrameData, data}

(* stop() and restart leave one frame of the old camera pending, and the   *)
(* new camera is given its buffer: never more than that one.               *)
OneForeignBuffer ==
    \A b, c \in (queued \cup posted \cup {pendingFrameData, data}) \ (Own(camera) \cup {NoBuffer}) :
        b = c

(* The processing thread reads the field camera without a lock, but never  *)
(* without a camera; and a camera that is previewing has its thread.       *)
ThreadServesCamera ==
    /\ procPc # "none" => camera # 0
    /\ (previewing /\ uiPc = "idle") => procPc # "none"

(* release finds the processing thread alive, and can wait for a thread    *)
(* that waits for its lock, only if the camera that is open was started    *)
(* while the activity was not resumed.                                     *)
ReleaseFindsThreadOnlyAfterLateStart ==
    (uiPc = "destroy" /\ procPc # "none") => lateStart

(* Such a release may wait for ever.                                       *)
LateRelease == uiPc = "destroy" /\ lateStart

(* Every handler that waits returns, or goes on to start the camera and    *)
(* ends with an exception of it, unless it is a release after such a       *)
(* start.                                                                  *)
HandlersReturn == uiPc \in Waiting ~> (uiPc \in {"idle", "crashed"} \/ LateRelease)

(* A frame that has become pending is eventually detected, or passed over  *)
(* for a newer one that is, while the camera runs with a processor, unless *)
(* a handler stops the camera, a detection has failed, or the camera has a *)
(* buffer of an earlier one, whose frame takes the place of the pending    *)
(* one and is then skipped.                                                *)
FramesReachDetection ==
    \A f \in 1..MaxFrames :
        (pendingFrameData # NoBuffer /\ contents[pendingFrameData] = f /\ previewing
            /\ frameProcessor # 0)
            ~> (\/ \E p \in Processors : begun[p] >= f \/ Stalled(p)
                \/ uiPc # "idle"
                \/ ~(queued \cup posted \subseteq Own(camera)))

(* The pipeline does what FrameFeed promises.                              *)
Feed == INSTANCE FrameFeed WITH
            streaming <- custom, last <- begun, detecting <- detections

FeedSpec == Feed!Spec
-----------------------------------------------------------------------------
(* What the source says of itself and the code does not do.                *)

(* "Stops the camera and releases the resources": a release returns.       *)
ReleaseReturns == uiPc = "destroy" ~> uiPc = "idle"

(* "to ensure that this buffer isn't recycled back to the camera before we *)
(* are done using that data": when the detection of an image begins, its   *)
(* buffer still holds the frame that was handed in.                        *)
DetectsItsFrame ==
    [][\A p \in Processors :
          \A d \in detections'[p] \ detections[p] : d.seen = d.frame]_vars
=============================================================================
