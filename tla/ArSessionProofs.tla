-------------------------- MODULE ArSessionProofs --------------------------
(***************************************************************************)
(* Proofs about ArSession, for every number of sessions and posted hides.  *)
(*                                                                         *)
(* That a frame finds a running session is a matter of where both threads  *)
(* are: onPause waits for the GL thread before it pauses the session, and  *)
(* onResume resumes the session before it lets the GL thread go.  OrderInv *)
(* says so place by place.                                                 *)
(***************************************************************************)
EXTENDS ArSession, TLAPS

USE SessionAssumption
USE DEF activityVars, viewVars, displayVars, frameVars, historyVars, snackbarVars, vars

(* Where the GL thread stands still, which session is running, and what    *)
(* onResume and onPause have done at each of their places.                 *)
OrderInv ==
    /\ viewPaused => glPc = "idle"
    /\ uiPc \in {"resuming", "starting", "listening"} => life = "resumed" /\ session # 0
    /\ uiPc = "pausing" => life = "paused"
    /\ uiPc = "starting" => session \in running
    /\ (wasPaused /\ ~viewPaused) => session \in running
    /\ (wasPaused /\ uiPc = "resuming") => viewPaused
    /\ (wasPaused /\ uiPc = "idle" /\ life = "paused") => viewPaused

IInv == TypeOK /\ OrderInv /\ EmptyScreenExplained
-----------------------------------------------------------------------------
(* The initial state.                                                      *)
LEMMA InitLemma == Init => IInv
  <1> SUFFICES ASSUME Init PROVE IInv
    OBVIOUS
  <1>1. TypeOK
    <2>1. /\ session \in 0..MaxSessions /\ sessions \in 0..MaxSessions /\ glSession \in 0..MaxSessions
          /\ running \subseteq Sessions /\ displayRotation \in Rotations /\ posts \in 0..MaxPosts
          /\ messageSnackbar \in Bars
      BY DEF Init, SnackbarInit, Rotations, Bars
    <2>2. geometry \in [Sessions -> Rotations \cup {Untold}]
      BY DEF Init
    <2>3. /\ installRequested \in BOOLEAN /\ viewPaused \in BOOLEAN /\ pauseAsked \in BOOLEAN
          /\ sizeChanged \in BOOLEAN /\ displayPosted \in BOOLEAN /\ listening \in BOOLEAN
          /\ viewportChanged \in BOOLEAN /\ crashed \in BOOLEAN /\ wasPaused \in BOOLEAN
          /\ missed \in BOOLEAN /\ finishing \in BOOLEAN
      BY Zenon DEF Init, SnackbarInit
    <2> QED
      BY <2>1, <2>2, <2>3, Zenon DEF Init, TypeOK, SnackbarTypeOK
  <1>2. OrderInv
    BY DEF Init, OrderInv
  <1>3. EmptyScreenExplained
    BY DEF Init, EmptyScreenExplained
  <1> QED
    BY <1>1, <1>2, <1>3 DEF IInv

(* Every step keeps the types.                                             *)
LEMMA TypeStep ==
    ASSUME IInv, Next
    PROVE  TypeOK'
  <1>0. TypeOK /\ OrderInv
    BY DEF IInv
  <1>1. CASE RequestInstall
    BY <1>0, <1>1 DEF TypeOK, SnackbarTypeOK, Bars, Sessions, Rotations, Untold,
       RequestInstall, Resuming, UiIdle
  <1>2. CASE RequestPermission
    BY <1>0, <1>2 DEF TypeOK, SnackbarTypeOK, Bars, Sessions, Rotations, Untold,
       RequestPermission, Resuming, UiIdle
  <1>3. CASE Unavailable
    BY <1>0, <1>3 DEF TypeOK, SnackbarTypeOK, Bars, Sessions, Rotations, Untold, Unavailable,
       Resuming, UiIdle, showError, Replaced
  <1>4. CASE CreateSession
    BY <1>0, <1>4 DEF TypeOK, SnackbarTypeOK, Bars, Sessions, Rotations, Untold,
       CreateSession, Resuming, UiIdle
  <1>5. CASE ResumeAgain
    BY <1>0, <1>5 DEF TypeOK, SnackbarTypeOK, Bars, Sessions, Rotations, Untold, ResumeAgain,
       Resuming, UiIdle
  <1>6. CASE SessionResumes
    <2>1. running' \subseteq Sessions
      BY <1>0, <1>6 DEF TypeOK, OrderInv, Sessions, SessionResumes
    <2> QED
      BY <1>0, <1>6, <2>1 DEF TypeOK, SnackbarTypeOK, SessionResumes
  <1>7. CASE CameraNotAvailable
    BY <1>0, <1>7 DEF TypeOK, SnackbarTypeOK, Bars, Sessions, Rotations, Untold,
       CameraNotAvailable, showError, Replaced
  <1>8. CASE ViewResumes
    <2>1. viewPaused' \in BOOLEAN /\ pauseAsked' \in BOOLEAN /\ sizeChanged' \in BOOLEAN
      BY <1>0, <1>8, Zenon DEF TypeOK, ViewResumes
    <2> QED
      BY <1>0, <1>8, <2>1 DEF TypeOK, SnackbarTypeOK, ViewResumes
  <1>9. CASE Listen
    BY <1>0, <1>9 DEF TypeOK, SnackbarTypeOK, Bars, Sessions, Rotations, Untold, Listen,
       showMessage, Replaced
  <1>10. CASE onPause
    <2>1. /\ uiPc' \in {"idle", "pausing"} /\ listening' \in BOOLEAN
          /\ displayPosted' \in BOOLEAN /\ pauseAsked' \in BOOLEAN /\ viewPaused' \in BOOLEAN
          /\ sizeChanged' \in BOOLEAN /\ rotation' = rotation
      BY <1>0, <1>10, Zenon DEF TypeOK, onPause, UiIdle
    <2>2. /\ life' = "paused"
          /\ UNCHANGED <<session, sessions, running, installRequested, granted, dialog,
                         frameVars, historyVars, snackbarVars>>
      BY <1>10 DEF onPause
    <2> QED
      BY <1>0, <2>1, <2>2 DEF TypeOK, SnackbarTypeOK
  <1>11. CASE PauseSession
    BY <1>0, <1>11 DEF TypeOK, SnackbarTypeOK, Bars, Sessions, Rotations, Untold,
       PauseSession, Stopped
  <1>12. ASSUME NEW b \in BOOLEAN, onRequestPermissionsResult(b) PROVE TypeOK'
    BY <1>0, <1>12 DEF TypeOK, SnackbarTypeOK, Bars, Sessions, Rotations, Untold,
       onRequestPermissionsResult, UiIdle
  <1>13. CASE onDisplayChanged
    <2>1. viewportChanged' \in BOOLEAN /\ missed' \in BOOLEAN /\ displayPosted' \in BOOLEAN
      BY <1>0, <1>13, Zenon DEF TypeOK, onDisplayChanged
    <2> QED
      BY <1>0, <1>13, <2>1 DEF TypeOK, SnackbarTypeOK, onDisplayChanged
  <1>14. CASE Snackbar
    <2>1. posts' \in 0..MaxPosts
      BY <1>0, <1>14 DEF TypeOK, SnackbarTypeOK, Snackbar, RunPosted, Dismiss
    <2>2. messageSnackbar' \in Bars /\ finishing' \in BOOLEAN
      BY <1>0, <1>14, Zenon DEF TypeOK, SnackbarTypeOK, Bars, Snackbar, RunPosted, Dismiss, hide,
         Replaced
    <2> QED
      BY <1>0, <1>14, <2>1, <2>2 DEF TypeOK, SnackbarTypeOK, Snackbar
  <1>15. CASE GlPauses
    BY <1>0, <1>15 DEF TypeOK, SnackbarTypeOK, Bars, Sessions, Rotations, Untold, GlPauses
  <1>16. CASE onSurfaceChanged
    <2>1. sizeChanged' \in BOOLEAN /\ viewportChanged' \in BOOLEAN
      BY <1>0, <1>16, Zenon DEF TypeOK, onSurfaceChanged
    <2> QED
      BY <1>0, <1>16, <2>1 DEF TypeOK, SnackbarTypeOK, onSurfaceChanged
  <1>17. CASE CheckSession
    BY <1>0, <1>17 DEF TypeOK, SnackbarTypeOK, Bars, Sessions, Rotations, Untold,
       CheckSession, Drawing, FrameUnchanged
  <1>18. CASE ReadSession
    BY <1>0, <1>18 DEF TypeOK, SnackbarTypeOK, Bars, Sessions, Rotations, Untold, ReadSession,
       Drawing, FrameUnchanged
  <1>19. CASE ReadRotation
    BY <1>0, <1>19 DEF TypeOK, SnackbarTypeOK, Bars, Sessions, Rotations, Untold,
       ReadRotation, Drawing, FrameUnchanged
  <1>20. CASE TellSession
    <2>1. geometry' \in [Sessions -> Rotations \cup {Untold}]
      BY <1>0, <1>20 DEF TypeOK, Sessions, TellSession
    <2>2. crashed' \in BOOLEAN /\ glPc' \in {"rotated", "told"}
      BY <1>0, <1>20, Zenon DEF TypeOK, TellSession
    <2> QED
      BY <1>0, <1>20, <2>1, <2>2 DEF TypeOK, SnackbarTypeOK, TellSession, FrameUnchanged
  <1>21. CASE LowerFlag
    <2>1. viewportChanged' \in BOOLEAN
      BY <1>0, <1>21, Zenon DEF LowerFlag
    <2> QED
      BY <1>0, <1>21, <2>1 DEF TypeOK, SnackbarTypeOK, LowerFlag, FrameUnchanged
  <1>22. CASE UpdateSession
    BY <1>0, <1>22 DEF TypeOK, SnackbarTypeOK, Bars, Sessions, Rotations, Untold,
       UpdateSession, Drawing, FrameUnchanged
  <1>23. CASE FinishFrame
    BY <1>0, <1>23 DEF TypeOK, SnackbarTypeOK, Bars, Sessions, Rotations, Untold, FinishFrame,
       Drawing, FrameUnchanged, Post
  <1>24. CASE Rotate
    BY <1>0, <1>24 DEF TypeOK, SnackbarTypeOK, Bars, Sessions, Rotations, Untold, Rotate
  <1>25. CASE Relaunch
    <2>1. /\ session' \in 0..MaxSessions /\ sessions' \in 0..MaxSessions /\ glSession' \in 0..MaxSessions
          /\ running' \subseteq Sessions /\ displayRotation' \in Rotations /\ posts' \in 0..MaxPosts
          /\ messageSnackbar' \in Bars
      BY <1>0, <1>25 DEF Relaunch, SnackbarReset, Rotations, Bars
    <2>2. geometry' \in [Sessions -> Rotations \cup {Untold}]
      BY <1>0, <1>25 DEF Relaunch
    <2>3. /\ installRequested' \in BOOLEAN /\ viewPaused' \in BOOLEAN /\ pauseAsked' \in BOOLEAN
          /\ sizeChanged' \in BOOLEAN /\ displayPosted' \in BOOLEAN /\ listening' \in BOOLEAN
          /\ viewportChanged' \in BOOLEAN /\ crashed' \in BOOLEAN /\ wasPaused' \in BOOLEAN
          /\ missed' \in BOOLEAN /\ finishing' \in BOOLEAN
      BY <1>0, <1>25, Zenon DEF Relaunch, SnackbarReset
    <2> QED
      BY <1>0, <1>25, <2>1, <2>2, <2>3, Zenon DEF TypeOK, SnackbarTypeOK, Relaunch
  <1> QED
    BY <1>1, <1>2, <1>3, <1>4, <1>5, <1>6, <1>7, <1>8, <1>9, <1>10, <1>11, <1>12,
       <1>13, <1>14, <1>15, <1>16, <1>17, <1>18, <1>19, <1>20, <1>21, <1>22, <1>23, <1>24, <1>25
    DEF Next, UiStep, GlStep

(* Every step keeps the order of the two threads.                          *)
LEMMA OrderStep ==
    ASSUME IInv, Next
    PROVE  OrderInv'
  <1>0. TypeOK /\ OrderInv
    BY DEF IInv
  <1>1. CASE RequestInstall
    BY <1>0, <1>1 DEF OrderInv, TypeOK, Sessions, RequestInstall, Resuming, UiIdle
  <1>2. CASE RequestPermission
    BY <1>0, <1>2 DEF OrderInv, TypeOK, Sessions, RequestPermission, Resuming, UiIdle
  <1>3. CASE Unavailable
    BY <1>0, <1>3 DEF OrderInv, TypeOK, Sessions, Unavailable, Resuming, UiIdle, showError,
       Replaced
  <1>4. CASE CreateSession
    BY <1>0, <1>4 DEF OrderInv, TypeOK, Sessions, CreateSession, Resuming, UiIdle
  <1>5. CASE ResumeAgain
    BY <1>0, <1>5 DEF OrderInv, TypeOK, Sessions, ResumeAgain, Resuming, UiIdle
  <1>6. CASE SessionResumes
    BY <1>0, <1>6 DEF OrderInv, TypeOK, Sessions, SessionResumes
  <1>7. CASE CameraNotAvailable
    BY <1>0, <1>7 DEF OrderInv, TypeOK, Sessions, CameraNotAvailable, showError, Replaced
  <1>8. CASE ViewResumes
    BY <1>0, <1>8 DEF OrderInv, TypeOK, Sessions, ViewResumes
  <1>9. CASE Listen
    BY <1>0, <1>9 DEF OrderInv, TypeOK, Sessions, Listen, showMessage, Replaced
  <1>10. CASE onPause
    BY <1>0, <1>10 DEF OrderInv, TypeOK, Sessions, onPause, UiIdle
  <1>11. CASE PauseSession
    BY <1>0, <1>11 DEF OrderInv, TypeOK, Sessions, PauseSession, Stopped
  <1>12. ASSUME NEW b \in BOOLEAN, onRequestPermissionsResult(b) PROVE OrderInv'
    BY <1>0, <1>12 DEF OrderInv, TypeOK, Sessions, onRequestPermissionsResult, UiIdle
  <1>13. CASE onDisplayChanged
    BY <1>0, <1>13 DEF OrderInv, TypeOK, Sessions, onDisplayChanged, UiIdle
  <1>14. CASE Snackbar
    BY <1>0, <1>14 DEF OrderInv, TypeOK, Sessions, Snackbar, UiIdle, RunPosted, Dismiss, hide,
       Replaced
  <1>15. CASE GlPauses
    BY <1>0, <1>15 DEF OrderInv, TypeOK, Sessions, GlPauses
  <1>16. CASE onSurfaceChanged
    BY <1>0, <1>16 DEF OrderInv, TypeOK, Sessions, onSurfaceChanged, Drawing
  <1>17. CASE CheckSession
    BY <1>0, <1>17 DEF OrderInv, TypeOK, Sessions, CheckSession, Drawing, FrameUnchanged
  <1>18. CASE ReadSession
    BY <1>0, <1>18 DEF OrderInv, TypeOK, Sessions, ReadSession, Drawing, FrameUnchanged
  <1>19. CASE ReadRotation
    BY <1>0, <1>19 DEF OrderInv, TypeOK, Sessions, ReadRotation, Drawing, FrameUnchanged
  <1>20. CASE TellSession
    BY <1>0, <1>20 DEF OrderInv, TypeOK, Sessions, TellSession, Drawing, FrameUnchanged
  <1>21. CASE LowerFlag
    BY <1>0, <1>21 DEF OrderInv, TypeOK, Sessions, LowerFlag, Drawing, FrameUnchanged
  <1>22. CASE UpdateSession
    BY <1>0, <1>22 DEF OrderInv, TypeOK, Sessions, UpdateSession, Drawing, FrameUnchanged
  <1>23. CASE FinishFrame
    BY <1>0, <1>23 DEF OrderInv, TypeOK, Sessions, FinishFrame, Drawing, FrameUnchanged, Post
  <1>24. CASE Rotate
    BY <1>0, <1>24 DEF OrderInv, TypeOK, Sessions, Rotate
  <1>25. CASE Relaunch
    BY <1>0, <1>25 DEF OrderInv, TypeOK, Sessions, Relaunch, SnackbarReset, UiIdle
  <1> QED
    BY <1>1, <1>2, <1>3, <1>4, <1>5, <1>6, <1>7, <1>8, <1>9, <1>10, <1>11, <1>12,
       <1>13, <1>14, <1>15, <1>16, <1>17, <1>18, <1>19, <1>20, <1>21, <1>22, <1>23, <1>24, <1>25
    DEF Next, UiStep, GlStep

(* Every step keeps an empty screen explained.                             *)
LEMMA ScreenStep ==
    ASSUME IInv, Next
    PROVE  EmptyScreenExplained'
  <1>0. TypeOK /\ OrderInv /\ EmptyScreenExplained
    BY DEF IInv
  <1>1. CASE RequestInstall
    BY <1>0, <1>1 DEF EmptyScreenExplained, UiIdle, OrderInv, TypeOK, RequestInstall,
       Resuming, UiIdle
  <1>2. CASE RequestPermission
    BY <1>0, <1>2 DEF EmptyScreenExplained, UiIdle, OrderInv, TypeOK, RequestPermission,
       Resuming, UiIdle
  <1>3. CASE Unavailable
    BY <1>0, <1>3 DEF EmptyScreenExplained, UiIdle, OrderInv, TypeOK, Unavailable, Resuming,
       UiIdle, showError, Replaced
  <1>4. CASE CreateSession
    BY <1>0, <1>4 DEF EmptyScreenExplained, UiIdle, OrderInv, TypeOK, CreateSession, Resuming,
       UiIdle
  <1>5. CASE ResumeAgain
    BY <1>0, <1>5 DEF EmptyScreenExplained, UiIdle, OrderInv, TypeOK, ResumeAgain, Resuming,
       UiIdle
  <1>6. CASE SessionResumes
    BY <1>0, <1>6 DEF EmptyScreenExplained, UiIdle, OrderInv, TypeOK, SessionResumes
  <1>7. CASE CameraNotAvailable
    BY <1>0, <1>7 DEF EmptyScreenExplained, UiIdle, OrderInv, TypeOK, CameraNotAvailable,
       showError, Replaced
  <1>8. CASE ViewResumes
    BY <1>0, <1>8 DEF EmptyScreenExplained, UiIdle, OrderInv, TypeOK, ViewResumes
  <1>9. CASE Listen
    BY <1>0, <1>9 DEF EmptyScreenExplained, UiIdle, OrderInv, TypeOK, Listen, showMessage,
       Replaced
  <1>10. CASE onPause
    BY <1>0, <1>10 DEF EmptyScreenExplained, UiIdle, OrderInv, TypeOK, onPause, UiIdle
  <1>11. CASE PauseSession
    BY <1>0, <1>11 DEF EmptyScreenExplained, UiIdle, OrderInv, TypeOK, PauseSession, Stopped
  <1>12. ASSUME NEW b \in BOOLEAN, onRequestPermissionsResult(b) PROVE EmptyScreenExplained'
    BY <1>0, <1>12 DEF EmptyScreenExplained, UiIdle, OrderInv, TypeOK,
       onRequestPermissionsResult, UiIdle
  <1>13. CASE onDisplayChanged
    BY <1>0, <1>13 DEF EmptyScreenExplained, UiIdle, OrderInv, TypeOK, onDisplayChanged, UiIdle
  <1>14. CASE Snackbar
    BY <1>0, <1>14 DEF EmptyScreenExplained, UiIdle, OrderInv, TypeOK, Snackbar, UiIdle,
       RunPosted, Dismiss, hide,
         Replaced
  <1>15. CASE GlPauses
    BY <1>0, <1>15 DEF EmptyScreenExplained, UiIdle, OrderInv, TypeOK, GlPauses
  <1>16. CASE onSurfaceChanged
    BY <1>0, <1>16 DEF EmptyScreenExplained, UiIdle, OrderInv, TypeOK, onSurfaceChanged, Drawing
  <1>17. CASE CheckSession
    BY <1>0, <1>17 DEF EmptyScreenExplained, UiIdle, OrderInv, TypeOK, CheckSession, Drawing,
       FrameUnchanged
  <1>18. CASE ReadSession
    BY <1>0, <1>18 DEF EmptyScreenExplained, UiIdle, OrderInv, TypeOK, ReadSession, Drawing,
       FrameUnchanged
  <1>19. CASE ReadRotation
    BY <1>0, <1>19 DEF EmptyScreenExplained, UiIdle, OrderInv, TypeOK, ReadRotation, Drawing,
       FrameUnchanged
  <1>20. CASE TellSession
    BY <1>0, <1>20 DEF EmptyScreenExplained, UiIdle, OrderInv, TypeOK, TellSession, Drawing,
       FrameUnchanged
  <1>21. CASE LowerFlag
    BY <1>0, <1>21 DEF EmptyScreenExplained, UiIdle, OrderInv, TypeOK, LowerFlag, Drawing,
       FrameUnchanged
  <1>22. CASE UpdateSession
    BY <1>0, <1>22 DEF EmptyScreenExplained, UiIdle, OrderInv, TypeOK, UpdateSession, Drawing,
       FrameUnchanged
  <1>23. CASE FinishFrame
    BY <1>0, <1>23 DEF EmptyScreenExplained, UiIdle, OrderInv, TypeOK, FinishFrame, Drawing,
       FrameUnchanged, Post
  <1>24. CASE Rotate
    BY <1>0, <1>24 DEF EmptyScreenExplained, UiIdle, OrderInv, TypeOK, Rotate
  <1>25. CASE Relaunch
    BY <1>0, <1>25 DEF EmptyScreenExplained, UiIdle, OrderInv, TypeOK, Relaunch,
       SnackbarReset, UiIdle
  <1> QED
    BY <1>1, <1>2, <1>3, <1>4, <1>5, <1>6, <1>7, <1>8, <1>9, <1>10, <1>11, <1>12,
       <1>13, <1>14, <1>15, <1>16, <1>17, <1>18, <1>19, <1>20, <1>21, <1>22, <1>23, <1>24, <1>25
    DEF Next, UiStep, GlStep
-----------------------------------------------------------------------------
(* IInv is inductive.                                                      *)
LEMMA InvStep == IInv /\ [Next]_vars => IInv'
  <1> SUFFICES ASSUME IInv, [Next]_vars PROVE IInv'
    OBVIOUS
  <1>1. CASE Next
    BY <1>1, TypeStep, OrderStep, ScreenStep DEF IInv
  <1>2. CASE UNCHANGED vars
    BY <1>2 DEF IInv, TypeOK, SnackbarTypeOK, OrderInv, EmptyScreenExplained, UiIdle
  <1> QED
    BY <1>1, <1>2

(* The order of the calls in onPause and onResume ties the GL thread to    *)
(* the session in every reachable state.                                   *)
THEOREM Invariance == Spec => []IInv
  BY InitLemma, InvStep, PTL DEF Spec

(* All fields keep their types; in particular session.resume() is never    *)
(* called on null, nor setDisplayGeometry recorded for it.                 *)
THEOREM TypeCorrect == Spec => []TypeOK
  <1>1. IInv => TypeOK
    BY DEF IInv
  <1> QED
    BY <1>1, Invariance, PTL

(* Once surfaceView.onPause has stopped the GL thread, no later frame of   *)
(* onDrawFrame meets a session that is null or not running.                *)
THEOREM FramesFindRunningSessionHolds == Spec => []FramesFindRunningSession
  <1>1. IInv => FramesFindRunningSession
    BY DEF IInv, OrderInv, FramesFindRunningSession
  <1> QED
    BY <1>1, Invariance, PTL

(* A resumed activity without a session shows an error, has a dialog on    *)
(* top, or is finishing, however hides and resumes interleave.             *)
THEOREM EmptyScreenExplainedHolds == Spec => []EmptyScreenExplained
  <1>1. IInv => EmptyScreenExplained
    BY DEF IInv
  <1> QED
    BY <1>1, Invariance, PTL
=============================================================================
