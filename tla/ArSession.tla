----------------------------- MODULE ArSession -----------------------------
(***************************************************************************)
(* The life cycle of the AR session in EuchreAugmentActivity, with         *)
(* DisplayRotationHelper and SnackbarHelper.  (AugmentedImageActivity has  *)
(* the same onResume and onPause.)                                         *)
(*                                                                         *)
(* The main thread runs onResume, onPause and the callbacks; the GL thread *)
(* runs onSurfaceChanged and onDrawFrame.  They share the fields session,  *)
(* viewportChanged and messageSnackbar without a lock, so every access is  *)
(* a step.  surfaceView.onPause returns when the GL thread has stopped     *)
(* between two frames; the view is not paused when it is created.          *)
(***************************************************************************)
EXTENDS SnackbarHelper

CONSTANT MaxSessions    \* bound on the sessions an activity creates

ASSUME SessionAssumption == MaxSessions \in Nat \ {0} /\ MaxPosts \in Nat \ {0}

VARIABLES
    \* the activity
    session,           \* which session the field refers to; 0: null
    sessions,          \* the sessions created so far
    running,           \* session.resume() has succeeded, without a pause() since
    installRequested,
    granted,           \* the camera permission
    dialog,            \* what the system asks the user on top of the activity
    life, uiPc,
    \* the GL view and the system
    viewPaused,        \* the GL thread has stopped
    pauseAsked,        \* surfaceView.onPause has asked it to
    sizeChanged,       \* an onSurfaceChanged is due before the next frame
    rotation,          \* what display.getRotation() returns
    displayPosted,     \* an onDisplayChanged is on its way
    \* DisplayRotationHelper
    listening, viewportChanged,
    geometry,          \* the rotation each session was told, or Untold
    \* the frame
    glPc, glSession, displayRotation, crashed,
    \* history: no action reads it
    wasPaused,         \* the view has been paused at least once
    missed             \* the display turned, or a session was made, unnoticed

activityVars == <<session, sessions, running, installRequested, granted, dialog, life, uiPc>>
viewVars     == <<viewPaused, pauseAsked, sizeChanged>>
displayVars  == <<rotation, displayPosted, listening>>
frameVars    == <<viewportChanged, geometry, glPc, glSession, displayRotation, crashed>>
historyVars  == <<wasPaused, missed>>
vars == <<activityVars, viewVars, displayVars, frameVars, historyVars, snackbarVars>>

Sessions  == 1..MaxSessions
Rotations == {0, 180}
Untold    == 1

TypeOK ==
    /\ SnackbarTypeOK
    /\ session \in 0..MaxSessions /\ sessions \in 0..MaxSessions
    /\ running \subseteq Sessions
    /\ installRequested \in BOOLEAN /\ granted \in BOOLEAN
    /\ dialog \in {"none", "install", "permission"}
    /\ life \in {"paused", "resumed"}
    /\ uiPc \in {"idle", "resuming", "starting", "listening", "pausing"}
    /\ viewPaused \in BOOLEAN /\ pauseAsked \in BOOLEAN /\ sizeChanged \in BOOLEAN
    /\ rotation \in Rotations /\ displayPosted \in BOOLEAN /\ listening \in BOOLEAN
    /\ viewportChanged \in BOOLEAN
    /\ geometry \in [Sessions -> Rotations \cup {Untold}]
    /\ glPc \in {"idle", "checked", "called", "rotated", "told", "draw", "updated"}
    /\ glSession \in 0..MaxSessions /\ displayRotation \in Rotations
    /\ crashed \in BOOLEAN /\ wasPaused \in BOOLEAN /\ missed \in BOOLEAN

(* A new activity, on a display that may already be turned.                *)
Init ==
    /\ SnackbarInit
    /\ session = 0 /\ sessions = 0 /\ running = {}
    /\ installRequested = FALSE /\ granted \in BOOLEAN /\ dialog = "none"
    /\ life = "paused" /\ uiPc = "idle"
    /\ viewPaused = FALSE /\ pauseAsked = FALSE /\ sizeChanged = TRUE
    /\ rotation \in Rotations /\ displayPosted = FALSE /\ listening = FALSE
    /\ viewportChanged = FALSE /\ geometry = [s \in Sessions |-> Untold]
    /\ glPc = "idle" /\ glSession = 0 /\ displayRotation = 0 /\ crashed = FALSE
    /\ wasPaused = FALSE /\ missed = FALSE
-----------------------------------------------------------------------------
(* The main thread.                                                        *)

UiIdle == uiPc = "idle" /\ ~crashed

(* onResume.  A dialog that was on top is over.                            *)
Resuming(asked) ==
    /\ UiIdle /\ life = "paused" /\ ~finishing /\ life' = "resumed"
    /\ dialog' = asked

RequestInstall ==
    /\ Resuming("install") /\ session = 0 /\ ~installRequested
    /\ installRequested' = TRUE
    /\ UNCHANGED <<session, sessions, running, granted, uiPc, viewVars, displayVars,
                   frameVars, historyVars, snackbarVars>>

RequestPermission ==
    /\ Resuming("permission") /\ session = 0 /\ ~granted
    /\ UNCHANGED <<session, sessions, running, installRequested, granted, uiPc, viewVars,
                   displayVars, frameVars, historyVars, snackbarVars>>

(* ARCore is missing, too old, declined, or cannot make a session.         *)
Unavailable ==
    /\ Resuming("none") /\ session = 0
    /\ showError /\ UNCHANGED posts
    /\ UNCHANGED <<session, sessions, running, installRequested, granted, uiPc, viewVars,
                   displayVars, frameVars, historyVars>>

(* A frame to come will tell the session of the display, the frame that is *)
(* being drawn too if it is at one of the given places.                    *)
ChangeDue(places) == viewPaused \/ sizeChanged \/ (viewportChanged /\ glPc \in places)

(* The session is created, and the GL thread may see it from now on.  It   *)
(* will be told of the display only if the helper has a change for it.     *)
CreateSession ==
    /\ Resuming("none") /\ session = 0 /\ granted /\ sessions < MaxSessions
    /\ sessions' = sessions + 1 /\ session' = sessions + 1
    /\ uiPc' = "resuming"
    /\ missed' = (missed \/ ~ChangeDue({"idle", "checked", "draw", "updated"}))
    /\ UNCHANGED <<running, installRequested, granted, viewVars, displayVars, frameVars,
                   wasPaused, snackbarVars>>

(* A mutation of ResumeAgain: whether there is a session is not tested.    *)
ResumeAgain_Untested ==
    /\ Resuming("none")
    /\ uiPc' = "resuming"
    /\ UNCHANGED <<session, sessions, running, installRequested, granted, viewVars,
                   displayVars, frameVars, historyVars, snackbarVars>>

ResumeAgain ==
    /\ Resuming("none") /\ session # 0
    /\ uiPc' = "resuming"
    /\ UNCHANGED <<session, sessions, running, installRequested, granted, viewVars,
                   displayVars, frameVars, historyVars, snackbarVars>>

(* session.resume() finds the camera.                                      *)
SessionResumes ==
    /\ uiPc = "resuming" /\ ~crashed
    /\ running' = running \cup {session}
    /\ uiPc' = "starting"
    /\ UNCHANGED <<session, sessions, installRequested, granted, dialog, life, viewVars,
                   displayVars, frameVars, historyVars, snackbarVars>>

(* A mutation of CameraNotAvailable: a plain message is shown.             *)
CameraNotAvailable_Message ==
    /\ uiPc = "resuming" /\ ~crashed
    /\ showMessage /\ UNCHANGED posts
    /\ session' = 0 /\ uiPc' = "idle"
    /\ UNCHANGED <<sessions, running, installRequested, granted, dialog, life, viewVars,
                   displayVars, frameVars, historyVars>>

(* Another application has the camera.                                     *)
CameraNotAvailable ==
    /\ uiPc = "resuming" /\ ~crashed
    /\ showError /\ UNCHANGED posts
    /\ session' = 0 /\ uiPc' = "idle"
    /\ UNCHANGED <<sessions, running, installRequested, granted, dialog, life, viewVars,
                   displayVars, frameVars, historyVars>>

(* A mutation of ViewResumes: the view is not resumed.                     *)
ViewResumes_Not ==
    /\ uiPc = "starting" /\ ~crashed
    /\ uiPc' = "listening"
    /\ UNCHANGED <<session, sessions, running, installRequested, granted, dialog, life,
                   viewVars, displayVars, frameVars, historyVars, snackbarVars>>

(* surfaceView.onResume(): a view that was paused makes its surface anew.  *)
ViewResumes ==
    /\ uiPc = "starting" /\ ~crashed
    /\ viewPaused' = FALSE /\ pauseAsked' = FALSE
    /\ sizeChanged' = (sizeChanged \/ viewPaused)
    /\ uiPc' = "listening"
    /\ UNCHANGED <<session, sessions, running, installRequested, granted, dialog, life,
                   displayVars, frameVars, historyVars, snackbarVars>>

(* displayRotationHelper.onResume(), and "Searching for surfaces...".      *)
Listen ==
    /\ uiPc = "listening" /\ ~crashed
    /\ listening' = TRUE
    /\ showMessage /\ UNCHANGED posts
    /\ uiPc' = "idle"
    /\ UNCHANGED <<session, sessions, running, installRequested, granted, dialog, life, viewVars,
                   rotation, displayPosted, frameVars, historyVars>>

(* onPause: the listener goes, and with it a callback on its way.          *)
onPause ==
    /\ UiIdle /\ life = "resumed" /\ life' = "paused"
    /\ IF session = 0
       THEN UNCHANGED <<uiPc, viewVars, displayVars>>
       ELSE /\ listening' = FALSE /\ displayPosted' = FALSE
            /\ pauseAsked' = TRUE /\ uiPc' = "pausing"
            /\ UNCHANGED <<viewPaused, sizeChanged, rotation>>
    /\ UNCHANGED <<session, sessions, running, installRequested, granted, dialog,
                   frameVars, historyVars, snackbarVars>>

(* A mutation of Stopped: nobody waits for the GL thread.                  *)
Stopped_NoWait == TRUE

(* surfaceView.onPause() returns when the GL thread has stopped.           *)
Stopped == viewPaused

(* Only then session.pause() follows.                                      *)
PauseSession ==
    /\ uiPc = "pausing" /\ ~crashed /\ Stopped
    /\ running' = running \ {session}
    /\ uiPc' = "idle"
    /\ UNCHANGED <<session, sessions, installRequested, granted, dialog, life, viewVars,
                   displayVars, frameVars, historyVars, snackbarVars>>

(* The dialog paused the activity.  A denial finishes it.                  *)
onRequestPermissionsResult(grants) ==
    /\ UiIdle /\ life = "paused" /\ dialog = "permission" /\ ~finishing
    /\ granted' = grants /\ finishing' = ~grants /\ dialog' = "none"
    /\ UNCHANGED <<session, sessions, running, installRequested, life, uiPc, viewVars,
                   displayVars, frameVars, historyVars, messageSnackbar, posts>>

(* A mutation of onDisplayChanged: the flag is not raised.                 *)
onDisplayChanged_Ignored ==
    /\ UiIdle /\ displayPosted /\ displayPosted' = FALSE
    /\ UNCHANGED <<viewportChanged, missed, rotation, listening, geometry, glPc, glSession,
                   displayRotation, crashed, wasPaused, activityVars, viewVars, snackbarVars>>

(* A frame that has read the rotation will lower the flag all the same.    *)
onDisplayChanged ==
    /\ UiIdle /\ displayPosted /\ displayPosted' = FALSE
    /\ viewportChanged' = TRUE
    /\ missed' = (missed \/ (glPc \in {"rotated", "told"} /\ displayRotation # rotation))
    /\ UNCHANGED <<rotation, listening, geometry, glPc, glSession, displayRotation,
                   crashed, wasPaused, activityVars, viewVars, snackbarVars>>

(* Posted runnables, and the user's tap on Dismiss.                        *)
Snackbar ==
    /\ UiIdle
    /\ RunPosted \/ Dismiss
    /\ UNCHANGED <<activityVars, viewVars, displayVars, frameVars, historyVars>>
-----------------------------------------------------------------------------
(* The GL thread.                                                          *)

(* It stops between two frames.                                            *)
GlPauses ==
    /\ glPc = "idle" /\ ~crashed /\ pauseAsked /\ ~viewPaused
    /\ viewPaused' = TRUE /\ wasPaused' = TRUE
    /\ UNCHANGED <<pauseAsked, sizeChanged, activityVars, displayVars, frameVars, missed,
                   snackbarVars>>

Drawing == ~viewPaused /\ ~crashed

onSurfaceChanged ==
    /\ Drawing /\ glPc = "idle" /\ ~pauseAsked /\ sizeChanged
    /\ sizeChanged' = FALSE /\ viewportChanged' = TRUE
    /\ UNCHANGED <<viewPaused, pauseAsked, activityVars, displayVars, geometry, glPc,
                   glSession, displayRotation, crashed, historyVars, snackbarVars>>

FrameUnchanged == UNCHANGED <<activityVars, viewVars, displayVars, historyVars>>

(* onDrawFrame goes on only if session is not null.                        *)
CheckSession ==
    /\ Drawing /\ glPc = "idle" /\ ~pauseAsked /\ ~sizeChanged /\ session # 0
    /\ glPc' = "checked"
    /\ UNCHANGED <<viewportChanged, geometry, glSession, displayRotation, crashed, snackbarVars>>
    /\ FrameUnchanged

(* The field is read again, as the argument of updateSessionIfNeeded.      *)
ReadSession ==
    /\ Drawing /\ glPc = "checked"
    /\ glSession' = session /\ glPc' = "called"
    /\ UNCHANGED <<viewportChanged, geometry, displayRotation, crashed, snackbarVars>>
    /\ FrameUnchanged

ReadRotation ==
    /\ Drawing /\ glPc = "called"
    /\ IF viewportChanged
       THEN glPc' = "rotated" /\ displayRotation' = rotation
       ELSE glPc' = "draw" /\ UNCHANGED displayRotation
    /\ UNCHANGED <<viewportChanged, geometry, glSession, crashed, snackbarVars>>
    /\ FrameUnchanged

(* session.setDisplayGeometry: outside the try block, a null is fatal.     *)
TellSession ==
    /\ Drawing /\ glPc = "rotated"
    /\ IF glSession = 0
       THEN crashed' = TRUE /\ UNCHANGED <<geometry, glPc>>
       ELSE /\ geometry' = [geometry EXCEPT ![glSession] = displayRotation]
            /\ glPc' = "told" /\ UNCHANGED crashed
    /\ UNCHANGED <<viewportChanged, glSession, displayRotation, snackbarVars>>
    /\ FrameUnchanged

LowerFlag ==
    /\ Drawing /\ glPc = "told"
    /\ viewportChanged' = FALSE /\ glPc' = "draw"
    /\ UNCHANGED <<geometry, glSession, displayRotation, crashed, snackbarVars>>
    /\ FrameUnchanged

(* session.update() throws on null, on a session that is not running, and  *)
(* on one whose camera has been taken away; the exception is caught.       *)
UpdateSession ==
    /\ Drawing /\ glPc = "draw"
    /\ \/ session \in running /\ glPc' = "updated"
       \/ glPc' = "idle"
    /\ UNCHANGED <<viewportChanged, geometry, glSession, displayRotation, crashed, snackbarVars>>
    /\ FrameUnchanged

(* The rest of the frame: a tracked plane hides the snackbar.              *)
FinishFrame ==
    /\ Drawing /\ glPc = "updated" /\ glPc' = "idle"
    /\ \/ UNCHANGED posts
       \/ isShowing /\ Post
    /\ UNCHANGED <<viewportChanged, geometry, glSession, displayRotation, crashed,
                   messageSnackbar, finishing>>
    /\ FrameUnchanged
-----------------------------------------------------------------------------
(* The display is turned upside down: the size stays, so that only a       *)
(* listener hears of it, and a view that makes its surface anew.           *)
Rotate ==
    /\ rotation' = 180 - rotation
    /\ displayPosted' = (displayPosted \/ listening)
    /\ missed' = (missed \/ ~(listening \/ ChangeDue({"idle", "checked", "called", "draw", "updated"})))
    /\ UNCHANGED <<listening, activityVars, viewVars, frameVars, wasPaused, snackbarVars>>

(* The activity is finished, or the process has crashed; the user starts   *)
(* it again.                                                               *)
Relaunch ==
    /\ crashed \/ (UiIdle /\ life = "paused" /\ finishing)
    /\ SnackbarReset
    /\ session' = 0 /\ sessions' = 0 /\ running' = {}
    /\ installRequested' = FALSE /\ dialog' = "none" /\ life' = "paused" /\ uiPc' = "idle"
    /\ viewPaused' = FALSE /\ pauseAsked' = FALSE /\ sizeChanged' = TRUE
    /\ displayPosted' = FALSE /\ listening' = FALSE
    /\ viewportChanged' = FALSE /\ geometry' = [s \in Sessions |-> Untold]
    /\ glPc' = "idle" /\ glSession' = 0 /\ displayRotation' = 0 /\ crashed' = FALSE
    /\ wasPaused' = FALSE /\ missed' = FALSE
    /\ UNCHANGED <<rotation, granted>>

UiStep == SessionResumes \/ CameraNotAvailable \/ ViewResumes \/ Listen \/ PauseSession

GlStep ==
    \/ GlPauses \/ onSurfaceChanged \/ CheckSession \/ ReadSession \/ ReadRotation
    \/ TellSession \/ LowerFlag \/ UpdateSession \/ FinishFrame

Next ==
    \/ RequestInstall \/ RequestPermission \/ Unavailable \/ CreateSession \/ ResumeAgain
    \/ UiStep \/ onPause \/ onDisplayChanged \/ Snackbar \/ GlStep
    \/ \E grants \in BOOLEAN : onRequestPermissionsResult(grants)
    \/ Rotate \/ Relaunch

(* The main thread goes on with the handler it is in and delivers the      *)
(* display's callback; the GL thread draws continuously.  Nothing is       *)
(* assumed of the user, the display or the camera.                         *)
Fairness == WF_vars(UiStep) /\ WF_vars(onDisplayChanged) /\ WF_vars(GlStep)

Spec     == Init /\ [][Next]_vars
FairSpec == Spec /\ Fairness
-----------------------------------------------------------------------------
(* The properties that hold.                                               *)

(* Once the view has been paused, no frame ever meets a session that is    *)
(* null, not yet resumed or paused: the order of the calls in onPause and  *)
(* onResume, and the wait in surfaceView.onPause, see to that.  Before the *)
(* first pause nothing does: the view draws while onResume makes the       *)
(* session, and a null there ends the process.                             *)
FramesFindRunningSession == (wasPaused /\ glPc # "idle") => session \in running

(* A resumed activity that has no session says why, or asks for what is    *)
(* missing, or is about to end: no hide of a frame long past and no second *)
(* onResume leaves the user in front of an empty screen.                   *)
EmptyScreenExplained ==
    (life = "resumed" /\ UiIdle /\ session = 0) =>
        messageSnackbar = "error" \/ dialog # "none" \/ finishing

(* The session is running, as far as onResume and onPause are concerned.   *)
Showing == life = "resumed" /\ UiIdle /\ session \in running

(* After every successful onResume the GL thread asks the running session  *)
(* for frames, again and again; whether the camera delivers one is not in  *)
(* the hands of the code.                                                  *)
FramesFollow == Showing ~> (glPc = "draw" \/ ~Showing)

(* The session learns how the display is turned, unless a turn came        *)
(* between a frame's reading of the rotation and its lowering of the flag, *)
(* or while nobody listened, or the session came too late for a change     *)
(* that an earlier one has used up.                                        *)
GeometryFollows ==
    (Showing /\ geometry[session] # rotation) ~>
        (~Showing \/ geometry[session] = rotation \/ missed)
-----------------------------------------------------------------------------
(* What the source says of itself and the code does not do.                *)

(* "showing a message and recreate the session at the next iteration": the *)
(* activity goes on with the session that it has made in place of the one  *)
(* that lost the camera.                                                   *)
RecreatedSessionStays == [][(Listen /\ session > 1) => (finishing' = finishing)]_vars
=============================================================================
