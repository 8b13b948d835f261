----------------------------- MODULE StillImage -----------------------------
(***************************************************************************)
(* StillImageActivity.java: an image is chosen or taken, scaled to the     *)
(* preview and sent to a detector in the cloud, again whenever the mode,   *)
(* the size or the image changes.  Everything runs on the main thread; the *)
(* answers of the detectors come later and in any order.                   *)
(*                                                                         *)
(* The system may destroy the activity and create it anew from the saved   *)
(* state at any time, as it does when the device is turned, also while the *)
(* camera or the chooser is on top: their result then comes before the new *)
(* activity is laid out.  The spinners keep what they show, and report it  *)
(* to their listeners after the layout of every new activity.              *)
(*                                                                         *)
(* The two fields imageMaxWidth and imageMaxHeight are set, saved and read *)
(* together, and are one variable here.  An image is known by its URI.  It *)
(* may be missing (an IOException), not decode (getBitmap returns null),   *)
(* or be so thin that the casts to int make its width or its height 0.     *)
(***************************************************************************)
EXTENDS Naturals

CONSTANTS
    MaxImages,      \* bound on the images chosen or taken
    MaxRequests     \* bound on the detections asked for

ASSUME StillAssumption == MaxImages \in Nat /\ MaxRequests \in Nat

VARIABLES
    imageUri,          \* 0: null
    imageMax,          \* imageMaxWidth and imageMaxHeight
    selectedMode, selectedSize,
    imageProcessor,    \* the mode it was created for
    preview,           \* the image shown; 0: none
    overlay,           \* the detection whose result is drawn; 0: none
    spinnerMode, spinnerSize,
    reports,           \* the spinners whose report to the listener is due
    child,             \* the activity on top, whose result is due
    laidOut,           \* the activity has had its layout pass
    images,            \* the images so far
    quality,           \* what reading the image of imageUri gives
    request,           \* the newest detection, and what it is of
    inFlight,          \* detections that have not been answered
    crashed,           \* what ended the process: a size of 0, or an image
    \* history: no action reads it
    overlapped         \* detections still in flight when another was asked for

fieldVars   == <<imageUri, imageMax, selectedMode, selectedSize, imageProcessor>>
spinnerVars == <<spinnerMode, spinnerSize>>
systemVars  == <<images, quality>>
vars == <<fieldVars, preview, overlay, spinnerVars, reports, child, laidOut, systemVars,
          request, inFlight, crashed, overlapped>>

Requests == 1..MaxRequests
Modes    == {"label", "text"}
Sizes    == {"w:max", "w:640"}
Qualities == {"missing", "undecodable", "thin", "good"}
Nothing  == [n |-> 0, uri |-> 0, mode |-> "label", size |-> "w:max"]

TypeOK ==
    /\ imageUri \in 0..MaxImages /\ preview \in 0..MaxImages
    /\ imageMax \in {"null", "zero", "unlaid", "screen"}
    /\ selectedMode \in Modes /\ imageProcessor \in Modes /\ spinnerMode \in Modes
    /\ selectedSize \in Sizes /\ spinnerSize \in Sizes
    /\ overlay \in 0..MaxRequests /\ inFlight \subseteq Requests
    /\ reports \subseteq {"mode", "size"}
    /\ child \in {"none", "camera", "chooser"}
    /\ images \in 0..MaxImages /\ quality \in Qualities
    /\ laidOut \in BOOLEAN
    /\ request \in [n : 0..MaxRequests, uri : 0..MaxImages, mode : Modes, size : Sizes]
    /\ crashed \in {"no", "size", "image"} /\ overlapped \subseteq Requests

Init ==
    /\ imageUri = 0 /\ imageMax = "null"
    /\ selectedMode = "label" /\ selectedSize = "w:max" /\ imageProcessor = "label"
    /\ preview = 0 /\ overlay = 0
    /\ spinnerMode = "label" /\ spinnerSize = "w:max" /\ reports = {"mode", "size"}
    /\ child = "none" /\ laidOut = FALSE
    /\ images = 0 /\ quality = "missing"
    /\ request = Nothing /\ inFlight = {} /\ crashed = "no" /\ overlapped = {}
-----------------------------------------------------------------------------
(* What imageMax becomes: it is measured when it is first needed.  Before  *)
(* the layout every view has the size 0.                                   *)
getTargetedWidthHeight(size, max, laid) ==
    IF size = "w:max" /\ max = "null" THEN IF laid THEN "screen" ELSE "unlaid" ELSE max

(* process(bitmap): another detection is on its way.                       *)
process(uri, mode, size, pending) ==
    /\ request.n < MaxRequests
    /\ request' = [n |-> request.n + 1, uri |-> uri, mode |-> mode, size |-> size]
    /\ inFlight' = pending \cup {request.n + 1}
    /\ overlapped' = overlapped \cup pending

NoRequest(pending) == inFlight' = pending /\ UNCHANGED <<request, overlapped>>

(* A mutation of Cleared: the overlay is left as it is.                    *)
Cleared_Not(drawn) == drawn

(* graphicOverlay.clear()                                                  *)
Cleared(drawn) == 0

(* getBitmap returns a bitmap of the image.                                *)
Bitmaps == {"thin", "good"}
Decodes == imageUri # 0 /\ quality \in Bitmaps

(* tryReloadAndDetectInImage, with the values it finds in the fields, in   *)
(* an activity that shows the given image and has the given detections     *)
(* pending.  A missing image is logged.  Nobody catches the                *)
(* NullPointerException of one that does not decode, nor the               *)
(* IllegalArgumentException of a bitmap scaled to nothing.                 *)
tryReload(uri, mode, size, max, image, drawn, pending) ==
    \/ /\ uri = 0
       /\ preview' = image /\ overlay' = drawn /\ imageMax' = max
       /\ NoRequest(pending) /\ UNCHANGED crashed
    \/ /\ uri # 0 /\ quality' = "missing"
       /\ preview' = image /\ overlay' = Cleared(drawn) /\ imageMax' = max
       /\ NoRequest(pending) /\ UNCHANGED crashed
    \/ /\ uri # 0 /\ quality' \in {"undecodable", "thin"}
       /\ overlay' = Cleared(drawn) /\ imageMax' = getTargetedWidthHeight(size, max, laidOut')
       /\ preview' = image /\ NoRequest(pending) /\ crashed' = "image"
    \/ /\ uri # 0 /\ quality' \in Bitmaps
       /\ overlay' = Cleared(drawn) /\ imageMax' = getTargetedWidthHeight(size, max, laidOut')
       /\ IF size = "w:max" /\ imageMax' \in {"zero", "unlaid"}
          THEN preview' = image /\ NoRequest(pending) /\ crashed' = "size"
          ELSE preview' = uri /\ process(uri, mode, size, pending) /\ UNCHANGED crashed

Reload(uri, mode, size) == tryReload(uri, mode, size, imageMax, preview, overlay, inFlight)

Alive == crashed = "no"

(* The user can do something, and the spinners report.                     *)
Idle == child = "none" /\ laidOut /\ Alive

(* The layout pass of a new activity.                                      *)
Layout ==
    /\ Alive /\ ~laidOut /\ laidOut' = TRUE
    /\ UNCHANGED <<fieldVars, preview, overlay, spinnerVars, reports, child, systemVars,
                   request, inFlight, crashed, overlapped>>
-----------------------------------------------------------------------------
(* The spinners: the user chooses, and the listener hears of it.           *)
PickMode(m) ==
    /\ Idle /\ m # spinnerMode
    /\ spinnerMode' = m /\ reports' = reports \cup {"mode"}
    /\ UNCHANGED <<fieldVars, preview, overlay, spinnerSize, child, laidOut, systemVars,
                   request, inFlight, crashed, overlapped>>

PickSize(s) ==
    /\ Idle /\ s # spinnerSize
    /\ spinnerSize' = s /\ reports' = reports \cup {"size"}
    /\ UNCHANGED <<fieldVars, preview, overlay, spinnerMode, child, laidOut, systemVars,
                   request, inFlight, crashed, overlapped>>

(* A mutation of ModeSelected: the processor is not created anew.          *)
ModeSelected_OldProcessor ==
    /\ Idle /\ "mode" \in reports /\ reports' = reports \ {"mode"}
    /\ selectedMode' = spinnerMode
    /\ UNCHANGED <<systemVars, laidOut>> /\ Reload(imageUri, imageProcessor, selectedSize)
    /\ UNCHANGED <<imageUri, selectedSize, imageProcessor, spinnerVars, child>>

(* onItemSelected of the feature selector.                                 *)
ModeSelected ==
    /\ Idle /\ "mode" \in reports /\ reports' = reports \ {"mode"}
    /\ selectedMode' = spinnerMode /\ imageProcessor' = spinnerMode
    /\ UNCHANGED <<systemVars, laidOut>> /\ Reload(imageUri, spinnerMode, selectedSize)
    /\ UNCHANGED <<imageUri, selectedSize, spinnerVars, child>>

(* A mutation of SizeSelected: it sets the field of the other listener.    *)
SizeSelected_OtherField ==
    /\ Idle /\ "size" \in reports /\ reports' = reports \ {"size"}
    /\ selectedMode' = spinnerSize
    /\ UNCHANGED <<systemVars, laidOut>> /\ Reload(imageUri, imageProcessor, selectedSize)
    /\ UNCHANGED <<imageUri, selectedSize, imageProcessor, spinnerVars, child>>

(* onItemSelected of the size selector.                                    *)
SizeSelected ==
    /\ Idle /\ "size" \in reports /\ reports' = reports \ {"size"}
    /\ selectedSize' = spinnerSize
    /\ UNCHANGED <<systemVars, laidOut>> /\ Reload(imageUri, imageProcessor, spinnerSize)
    /\ UNCHANGED <<imageUri, selectedMode, imageProcessor, spinnerVars, child>>

(* startCameraIntentForResult: the last image goes, and the camera gets a  *)
(* new entry to fill, if there is an application to do it.  The camera is  *)
(* started too when insert has returned null.                              *)
startCameraIntentForResult ==
    /\ Idle
    /\ preview' = 0
    /\ \/ imageUri' = 0 /\ child' \in {"none", "camera"} /\ UNCHANGED images
       \/ /\ images < MaxImages /\ images' = images + 1 /\ imageUri' = images + 1
          /\ child' = "camera"
    /\ quality' = "missing"
    /\ UNCHANGED <<imageMax, selectedMode, selectedSize, imageProcessor, overlay, laidOut,
                   spinnerVars, reports, request, inFlight, crashed, overlapped>>

startChooseImageIntentForResult ==
    /\ Idle /\ child' = "chooser"
    /\ UNCHANGED <<fieldVars, preview, overlay, spinnerVars, reports, laidOut, systemVars,
                   request, inFlight, crashed, overlapped>>

(* onActivityResult: the camera says that it has filled the entry.         *)
CameraResult(q) ==
    /\ child = "camera" /\ child' = "none" /\ Alive
    /\ quality' = q /\ UNCHANGED <<images, laidOut>> /\ Reload(imageUri, imageProcessor, selectedSize)
    /\ UNCHANGED <<imageUri, selectedMode, selectedSize, imageProcessor, spinnerVars, reports>>

(* A mutation of ChooserResult: the image is loaded before it is set.      *)
ChooserResult_Late(q) ==
    /\ child = "chooser" /\ child' = "none" /\ Alive
    /\ images < MaxImages /\ images' = images + 1 /\ imageUri' = images + 1
    /\ quality' = q /\ UNCHANGED laidOut /\ Reload(imageUri, imageProcessor, selectedSize)
    /\ UNCHANGED <<selectedMode, selectedSize, imageProcessor, spinnerVars, reports>>

(* The chooser returns an image of any quality.                            *)
ChooserResult(q) ==
    /\ child = "chooser" /\ child' = "none" /\ Alive
    /\ images < MaxImages /\ images' = images + 1 /\ imageUri' = images + 1
    /\ quality' = q /\ UNCHANGED laidOut /\ Reload(images + 1, imageProcessor, selectedSize)
    /\ UNCHANGED <<selectedMode, selectedSize, imageProcessor, spinnerVars, reports>>

(* A result other than RESULT_OK is ignored.                               *)
Cancelled ==
    /\ child # "none" /\ child' = "none" /\ Alive
    /\ UNCHANGED <<fieldVars, preview, overlay, spinnerVars, reports, laidOut, systemVars,
                   request, inFlight, crashed, overlapped>>

(* Somebody deletes the image from the store.                              *)
ImageDeleted ==
    /\ Alive /\ imageUri # 0 /\ quality # "missing"
    /\ quality' = "missing"
    /\ UNCHANGED <<fieldVars, preview, overlay, spinnerVars, reports, child, laidOut, images,
                   request, inFlight, crashed, overlapped>>

(* The listeners of a detection.                                           *)
DetectionSucceeds(n) ==
    /\ Alive /\ n \in inFlight /\ inFlight' = inFlight \ {n}
    /\ overlay' = n
    /\ UNCHANGED <<fieldVars, preview, spinnerVars, reports, child, laidOut, systemVars,
                   request, crashed, overlapped>>

DetectionFails(n) ==
    /\ Alive /\ n \in inFlight /\ inFlight' = inFlight \ {n}
    /\ UNCHANGED <<fieldVars, preview, overlay, spinnerVars, reports, child, laidOut,
                   systemVars, request, crashed, overlapped>>

(* A mutation of Restored: a size that was not saved is measured again.    *)
Restored_Unmeasured(max) == max

(* A value that was not put into the bundle is read from it as 0.          *)
Restored(max) == IF max = "null" THEN "zero" ELSE max

(* A mutation of SavedUri: the image is not put into the bundle.           *)
SavedUri_Forgotten == 0

SavedUri == imageUri

(* onSaveInstanceState and the onCreate of the next activity.  Detections  *)
(* in flight will draw on the overlay of an activity that is gone.         *)
Recreate ==
    /\ Alive /\ laidOut' = FALSE
    /\ imageUri' = SavedUri /\ UNCHANGED <<selectedSize, spinnerVars, systemVars, child>>
    /\ selectedMode' = "label" /\ imageProcessor' = "label"
    /\ tryReload(SavedUri, "label", selectedSize, Restored(imageMax), 0, 0, {})
    /\ reports' = {"mode", "size"}

(* The user starts the application again after a crash.                    *)
Relaunch ==
    /\ ~Alive /\ crashed' = "no"
    /\ imageUri' = 0 /\ imageMax' = "null"
    /\ selectedMode' = "label" /\ selectedSize' = "w:max" /\ imageProcessor' = "label"
    /\ preview' = 0 /\ overlay' = 0 /\ inFlight' = {}
    /\ spinnerMode' = "label" /\ spinnerSize' = "w:max" /\ reports' = {"mode", "size"}
    /\ child' = "none" /\ laidOut' = FALSE
    /\ quality' = "missing" /\ UNCHANGED <<images, request, overlapped>>

Next ==
    \/ Layout
    \/ \E m \in Modes : PickMode(m)
    \/ \E s \in Sizes : PickSize(s)
    \/ ModeSelected \/ SizeSelected
    \/ startCameraIntentForResult \/ startChooseImageIntentForResult
    \/ \E q \in Qualities : CameraResult(q) \/ ChooserResult(q)
    \/ Cancelled \/ ImageDeleted
    \/ \E n \in Requests : DetectionSucceeds(n) \/ DetectionFails(n)
    \/ Recreate \/ Relaunch

Spec == Init /\ [][Next]_vars
-----------------------------------------------------------------------------
(* The properties that hold.                                               *)

(* Once the spinners have reported, the newest detection is of the image,  *)
(* the mode and the size that the user sees selected: also when the        *)
(* activity has been created anew, with its own default for the mode,      *)
(* while the camera or the chooser was on top.                             *)
NewestIsSelected ==
    (reports = {} /\ Idle /\ Decodes) =>
        request = [n |-> request.n, uri |-> imageUri, mode |-> spinnerMode, size |-> spinnerSize]

(* The preview shows the image that is selected, or nothing, or the one    *)
(* before an image that could not be read.                                 *)
PreviewIsOfImage ==
    Alive => preview \in {0, imageUri} \/ ~Decodes

(* A result that is drawn is that of the newest detection, unless it was   *)
(* still awaited when a newer one was asked for.                           *)
StaleOnlyIfOverlapped == overlay \in {0, request.n} \cup overlapped

(* An image that has not been deleted meanwhile survives the recreation of *)
(* the activity, unless the user has turned to another one.                *)
RecreationKeepsImage ==
    [][(Recreate /\ preview = imageUri /\ Decodes /\ Alive') => preview' = preview]_vars

(* The size is not measured before the layout pass, although an image may  *)
(* have to be loaded before it: by the onCreate of a new activity, and by  *)
(* the result of the camera or the chooser under which it was made.        *)
MeasuredAfterLayout == imageMax # "unlaid"
-----------------------------------------------------------------------------
(* What the source says of itself and the code does not do.                *)

(* "done lazily since we need to wait for a UI layout pass to get the      *)
(* right values": no image is scaled to a size that was not measured.      *)
NeverScaledToNothing == crashed # "size"
=============================================================================
