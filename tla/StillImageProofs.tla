-------------------------- MODULE StillImageProofs --------------------------
(***************************************************************************)
(* Proofs about StillImage, for every number of images and detections.     *)
(*                                                                         *)
(* What the user sees is scattered over fields, spinners, the screen and   *)
(* answers that are on their way.  IInv says how they hang together        *)
(* between any two events, and so also when the activity is destroyed      *)
(* there and created anew.                                                 *)
(***************************************************************************)
EXTENDS StillImage, TLAPS

USE StillAssumption
USE DEF fieldVars, spinnerVars, systemVars, vars

(* An activity that has not been laid out has a size, or nothing to show   *)
(* in it yet.                                                              *)
LayoutInv == (Alive /\ ~laidOut /\ imageMax = "null") => imageUri = 0 /\ child = "none"

(* The newest detection is of the selected image with the processor and    *)
(* the size of the fields; the fields follow the spinners.                 *)
RequestInv ==
    /\ (Alive /\ Decodes) =>
           request.uri = imageUri /\ request.mode = imageProcessor /\ request.size = selectedSize
    /\ "mode" \notin reports => imageProcessor = spinnerMode
    /\ "size" \notin reports => selectedSize = spinnerSize

(* Detections still in flight are the newest one and overtaken ones.       *)
FlightInv == inFlight \subseteq {request.n} \cup overlapped

IInv ==
    /\ TypeOK /\ LayoutInv /\ RequestInv /\ FlightInv
    /\ PreviewIsOfImage /\ StaleOnlyIfOverlapped /\ MeasuredAfterLayout
-----------------------------------------------------------------------------
(* What a reload may do, whoever asks for it: the facts about              *)
(* tryReloadAndDetectInImage that all its callers rest on.                 *)
ReloadDoes(uri, mode, size, max, image, drawn, pending) ==
    /\ preview' \in {image, uri} /\ overlay' \in {0, drawn}
    /\ \/ imageMax' = max
       \/ uri # 0 /\ max = "null" /\ imageMax' = IF laidOut' THEN "screen" ELSE "unlaid"
    /\ crashed' \in {crashed, "size", "image"}
    /\ \/ /\ inFlight' = pending /\ UNCHANGED <<request, overlapped>>
          /\ preview' = image
          /\ uri # 0 => quality' \notin Bitmaps \/ crashed' # "no"
       \/ /\ request.n < MaxRequests
          /\ request' = [n |-> request.n + 1, uri |-> uri, mode |-> mode, size |-> size]
          /\ inFlight' = pending \cup {request.n + 1}
          /\ overlapped' = overlapped \cup pending
          /\ preview' = uri /\ overlay' = 0 /\ crashed' = crashed

(* A reload does no more than that.                                        *)
LEMMA ReloadLemma ==
    ASSUME NEW uri, NEW mode, NEW size, NEW max, NEW image, NEW drawn, NEW pending,
           tryReload(uri, mode, size, max, image, drawn, pending)
    PROVE  ReloadDoes(uri, mode, size, max, image, drawn, pending)
  BY DEF tryReload, ReloadDoes, NoRequest, process, Cleared,
         getTargetedWidthHeight, Bitmaps

(* The initial state.                                                      *)
LEMMA InitLemma == Init => IInv
  <1> SUFFICES ASSUME Init PROVE IInv
    OBVIOUS
  <1>1. TypeOK
    <2>1. request \in [n : 0..MaxRequests, uri : 0..MaxImages, mode : Modes, size : Sizes]
      BY DEF Init, Nothing, Modes, Sizes
    <2>2. inFlight \subseteq Requests /\ overlapped \subseteq Requests
      BY DEF Init
    <2>3. overlay \in 0..MaxRequests /\ imageUri \in 0..MaxImages /\ preview \in 0..MaxImages
          /\ images \in 0..MaxImages
      BY DEF Init
    <2>4. laidOut \in BOOLEAN
      BY Zenon DEF Init
    <2> QED
      BY <2>1, <2>2, <2>3, <2>4, Zenon DEF Init, TypeOK, Modes, Sizes, Qualities
  <1>2. LayoutInv /\ RequestInv /\ FlightInv
    BY DEF Init, LayoutInv, RequestInv, FlightInv, Decodes
  <1>3. PreviewIsOfImage /\ StaleOnlyIfOverlapped /\ MeasuredAfterLayout
    BY DEF Init, PreviewIsOfImage, StaleOnlyIfOverlapped, MeasuredAfterLayout
  <1> QED
    BY <1>1, <1>2, <1>3 DEF IInv

(* The types of what a reload changes.                                     *)
ReloadTyped ==
    /\ preview' \in 0..MaxImages /\ overlay' \in 0..MaxRequests
    /\ imageMax' \in {"null", "zero", "unlaid", "screen"}
    /\ request' \in [n : 0..MaxRequests, uri : 0..MaxImages, mode : Modes, size : Sizes]
    /\ inFlight' \subseteq Requests /\ overlapped' \subseteq Requests
    /\ crashed' \in {"no", "size", "image"}

(* A reload by one of the four callers in a living activity, or by the     *)
(* onCreate of a new one, keeps the types of what it changes.              *)
LEMMA ReloadTypes ==
    ASSUME TypeOK,
           NEW uri \in 0..MaxImages, NEW mode \in Modes, NEW size \in Sizes,
           NEW max \in {"null", "zero", "unlaid", "screen"}, NEW image \in 0..MaxImages,
           NEW drawn \in 0..MaxRequests, NEW pending \in SUBSET Requests,
           ReloadDoes(uri, mode, size, max, image, drawn, pending)
    PROVE  ReloadTyped
  <1>1. overlapped \subseteq Requests /\ crashed \in {"no", "size", "image"}
        /\ request \in [n : 0..MaxRequests, uri : 0..MaxImages, mode : Modes, size : Sizes]
    BY DEF TypeOK
  <1>2. request.n \in 0..MaxRequests
    BY <1>1
  <1>3. request.n < MaxRequests => request.n + 1 \in Requests /\ request.n + 1 \in 0..MaxRequests
    BY <1>2 DEF Requests
  <1>4. preview' \in 0..MaxImages /\ overlay' \in 0..MaxRequests
        /\ imageMax' \in {"null", "zero", "unlaid", "screen"}
    BY DEF ReloadDoes
  <1>7. crashed' \in {"no", "size", "image"}
    BY <1>1 DEF ReloadDoes
  <1>5. request' \in [n : 0..MaxRequests, uri : 0..MaxImages, mode : Modes, size : Sizes]
    BY <1>1, <1>3 DEF ReloadDoes
  <1>6. inFlight' \subseteq Requests /\ overlapped' \subseteq Requests
    BY <1>1, <1>3 DEF ReloadDoes
  <1> QED
    BY <1>4, <1>5, <1>6, <1>7 DEF ReloadTyped

(* The reloads of the five events that ask for one.                        *)
LEMMA Reloads ==
    /\ ModeSelected =>
           ReloadDoes(imageUri, spinnerMode, selectedSize, imageMax, preview, overlay, inFlight)
    /\ SizeSelected =>
           ReloadDoes(imageUri, imageProcessor, spinnerSize, imageMax, preview, overlay, inFlight)
    /\ \A q \in Qualities : CameraResult(q) =>
           ReloadDoes(imageUri, imageProcessor, selectedSize, imageMax, preview, overlay, inFlight)
    /\ \A q \in Qualities : ChooserResult(q) =>
           ReloadDoes(images + 1, imageProcessor, selectedSize, imageMax, preview, overlay, inFlight)
    /\ Recreate =>
           ReloadDoes(imageUri, "label", selectedSize, Restored(imageMax), 0, 0, {})
  BY ReloadLemma DEF ModeSelected, SizeSelected, CameraResult, ChooserResult, Recreate, Reload,
                     SavedUri

(* Every step keeps the types.                                             *)
LEMMA TypeStep ==
    ASSUME IInv, Next
    PROVE  TypeOK'
  <1> USE DEF Modes, Sizes
  <1>0. TypeOK
    BY DEF IInv
  <1>1. ASSUME NEW m \in Modes, PickMode(m) PROVE TypeOK'
    BY <1>0, <1>1 DEF TypeOK, PickMode
  <1>2. ASSUME NEW z \in Sizes, PickSize(z) PROVE TypeOK'
    BY <1>0, <1>2 DEF TypeOK, PickSize
  <1>3. CASE ModeSelected
    <2>1. ReloadTyped
      BY <1>0, <1>3, Reloads, ReloadTypes DEF TypeOK
    <2> QED
      BY <1>0, <1>3, <2>1 DEF TypeOK, ReloadTyped, ModeSelected
  <1>4. CASE SizeSelected
    <2>1. ReloadTyped
      BY <1>0, <1>4, Reloads, ReloadTypes DEF TypeOK
    <2> QED
      BY <1>0, <1>4, <2>1 DEF TypeOK, ReloadTyped, SizeSelected
  <1>5. CASE startCameraIntentForResult
    BY <1>0, <1>5 DEF TypeOK, Qualities, startCameraIntentForResult
  <1>6. ASSUME NEW q \in Qualities, ChooserResult(q) PROVE TypeOK'
    <2>1. images + 1 \in 0..MaxImages
      BY <1>0, <1>6 DEF TypeOK, ChooserResult
    <2>2. ReloadTyped
      BY <1>0, <1>6, <2>1, Reloads, ReloadTypes DEF TypeOK
    <2> QED
      BY <1>0, <1>6, <2>1, <2>2 DEF TypeOK, ReloadTyped, ChooserResult
  <1>7. CASE startChooseImageIntentForResult
    BY <1>0, <1>7 DEF TypeOK, startChooseImageIntentForResult
  <1>8. ASSUME NEW q \in Qualities, CameraResult(q) PROVE TypeOK'
    <2>1. ReloadTyped
      BY <1>0, <1>8, Reloads, ReloadTypes DEF TypeOK
    <2> QED
      BY <1>0, <1>8, <2>1 DEF TypeOK, ReloadTyped, CameraResult
  <1>9. CASE Cancelled
    BY <1>0, <1>9 DEF TypeOK, Cancelled
  <1>10. ASSUME NEW n \in Requests, DetectionSucceeds(n) \/ DetectionFails(n)
         PROVE  TypeOK'
    <2>1. overlay' \in 0..MaxRequests
      BY <1>0, <1>10 DEF TypeOK, DetectionSucceeds, DetectionFails, Requests
    <2>2. inFlight' \subseteq Requests
      BY <1>0, <1>10 DEF TypeOK, DetectionSucceeds, DetectionFails
    <2>3. UNCHANGED <<fieldVars, preview, spinnerVars, reports, child, laidOut, systemVars,
                      request, crashed, overlapped>>
      BY <1>10 DEF DetectionSucceeds, DetectionFails
    <2> QED
      BY <1>0, <2>1, <2>2, <2>3 DEF TypeOK
  <1>11. CASE Recreate
    <2>1. Restored(imageMax) \in {"null", "zero", "unlaid", "screen"}
      BY <1>0 DEF TypeOK, Restored
    <2>2. ReloadTyped
      BY <1>0, <1>11, <2>1, Reloads, ReloadTypes DEF TypeOK
    <2> QED
      BY <1>0, <1>11, <2>2 DEF TypeOK, ReloadTyped, Recreate, SavedUri
  <1>12. CASE Relaunch
    <2>1. imageUri' \in 0..MaxImages /\ preview' \in 0..MaxImages /\ overlay' \in 0..MaxRequests
      BY <1>12 DEF Relaunch
    <2>2. laidOut' \in BOOLEAN
      BY <1>12, Zenon DEF Relaunch
    <2>3. inFlight' \subseteq Requests /\ reports' \subseteq {"mode", "size"}
      BY <1>12 DEF Relaunch
    <2> QED
      BY <1>0, <1>12, <2>1, <2>2, <2>3, Zenon DEF TypeOK, Relaunch, Qualities
  <1>13. CASE Layout
    BY <1>0, <1>13 DEF TypeOK, Layout
  <1>14. CASE ImageDeleted
    BY <1>0, <1>14 DEF TypeOK, Qualities, ImageDeleted
  <1> QED
    BY <1>1, <1>2, <1>3, <1>4, <1>5, <1>6, <1>7, <1>8, <1>9, <1>10, <1>11, <1>12, <1>13,
       <1>14 DEF Next

(* Every step keeps the newest detection in line with the selection.       *)
LEMMA RequestStep ==
    ASSUME IInv, Next
    PROVE  RequestInv'
  <1>0. TypeOK /\ RequestInv
    BY DEF IInv
  <1>1. ASSUME NEW m \in Modes, PickMode(m) PROVE RequestInv'
    BY <1>0, <1>1 DEF RequestInv, Decodes, Alive, TypeOK, PickMode
  <1>2. ASSUME NEW z \in Sizes, PickSize(z) PROVE RequestInv'
    BY <1>0, <1>2 DEF RequestInv, Decodes, Alive, TypeOK, PickSize
  <1>3. CASE ModeSelected
    BY <1>0, <1>3, Reloads DEF RequestInv, Decodes, Alive, TypeOK, ModeSelected, ReloadDoes
  <1>4. CASE SizeSelected
    BY <1>0, <1>4, Reloads DEF RequestInv, Decodes, Alive, TypeOK, SizeSelected, ReloadDoes
  <1>5. CASE startCameraIntentForResult
    BY <1>0, <1>5 DEF RequestInv, Decodes, Bitmaps, Alive, TypeOK, startCameraIntentForResult
  <1>6. ASSUME NEW q \in Qualities, ChooserResult(q) PROVE RequestInv'
    BY <1>0, <1>6, Reloads DEF RequestInv, Decodes, Alive, TypeOK, ChooserResult, ReloadDoes
  <1>7. CASE startChooseImageIntentForResult
    BY <1>0, <1>7 DEF RequestInv, Decodes, Alive, TypeOK, startChooseImageIntentForResult
  <1>8. ASSUME NEW q \in Qualities, CameraResult(q) PROVE RequestInv'
    BY <1>0, <1>8, Reloads DEF RequestInv, Decodes, Alive, TypeOK, CameraResult, ReloadDoes
  <1>9. CASE Cancelled
    BY <1>0, <1>9 DEF RequestInv, Decodes, Alive, TypeOK, Cancelled
  <1>10. ASSUME NEW n \in Requests, DetectionSucceeds(n) \/ DetectionFails(n)
         PROVE  RequestInv'
    BY <1>0, <1>10 DEF RequestInv, Decodes, Alive, TypeOK, DetectionSucceeds, DetectionFails
  <1>11. CASE Recreate
    BY <1>0, <1>11, Reloads DEF RequestInv, Decodes, Alive, TypeOK, Recreate, SavedUri, ReloadDoes
  <1>12. CASE Relaunch
    BY <1>0, <1>12 DEF RequestInv, Decodes, Alive, TypeOK, Relaunch
  <1>13. CASE Layout
    BY <1>0, <1>13 DEF RequestInv, Decodes, Bitmaps, Alive, TypeOK, Layout
  <1>14. CASE ImageDeleted
    BY <1>0, <1>14 DEF RequestInv, Decodes, Bitmaps, Alive, TypeOK, ImageDeleted
  <1> QED
    BY <1>1, <1>2, <1>3, <1>4, <1>5, <1>6, <1>7, <1>8, <1>9, <1>10, <1>11, <1>12, <1>13,
       <1>14 DEF Next

(* A reload turns detections in flight into overtaken ones, or leaves them.*)
LEMMA ReloadFlight ==
    ASSUME FlightInv, StaleOnlyIfOverlapped, TypeOK,
           NEW uri, NEW mode, NEW size, NEW max, NEW image,
           NEW drawn \in {0, overlay}, NEW pending \in {{}, inFlight},
           ReloadDoes(uri, mode, size, max, image, drawn, pending)
    PROVE  FlightInv' /\ StaleOnlyIfOverlapped'
  <1>1. CASE request' = request /\ overlapped' = overlapped /\ inFlight' = pending
    BY <1>1 DEF FlightInv, StaleOnlyIfOverlapped, ReloadDoes
  <1>2. CASE /\ request' = [n |-> request.n + 1, uri |-> uri, mode |-> mode, size |-> size]
             /\ inFlight' = pending \cup {request.n + 1}
             /\ overlapped' = overlapped \cup pending
             /\ overlay' = 0
    <2>1. request'.n = request.n + 1
      BY <1>2
    <2> QED
      BY <1>2, <2>1 DEF FlightInv, StaleOnlyIfOverlapped
  <1> QED
    BY <1>1, <1>2 DEF ReloadDoes

(* Every step keeps account of the detections in flight and drawn.         *)
LEMMA FlightStep ==
    ASSUME IInv, Next
    PROVE  FlightInv' /\ StaleOnlyIfOverlapped'
  <1>0. TypeOK /\ FlightInv /\ StaleOnlyIfOverlapped
    BY DEF IInv
  <1>1. ASSUME NEW m \in Modes, PickMode(m) PROVE FlightInv' /\ StaleOnlyIfOverlapped'
    BY <1>0, <1>1 DEF FlightInv, StaleOnlyIfOverlapped, TypeOK, PickMode
  <1>2. ASSUME NEW z \in Sizes, PickSize(z) PROVE FlightInv' /\ StaleOnlyIfOverlapped'
    BY <1>0, <1>2 DEF FlightInv, StaleOnlyIfOverlapped, TypeOK, PickSize
  <1>3. CASE ModeSelected
    BY <1>0, <1>3, Reloads, ReloadFlight
  <1>4. CASE SizeSelected
    BY <1>0, <1>4, Reloads, ReloadFlight
  <1>5. CASE startCameraIntentForResult
    BY <1>0, <1>5 DEF FlightInv, StaleOnlyIfOverlapped, TypeOK, startCameraIntentForResult
  <1>6. ASSUME NEW q \in Qualities, ChooserResult(q) PROVE FlightInv' /\ StaleOnlyIfOverlapped'
    BY <1>0, <1>6, Reloads, ReloadFlight
  <1>7. CASE startChooseImageIntentForResult
    BY <1>0, <1>7 DEF FlightInv, StaleOnlyIfOverlapped, TypeOK, startChooseImageIntentForResult
  <1>8. ASSUME NEW q \in Qualities, CameraResult(q) PROVE FlightInv' /\ StaleOnlyIfOverlapped'
    BY <1>0, <1>8, Reloads, ReloadFlight
  <1>9. CASE Cancelled
    BY <1>0, <1>9 DEF FlightInv, StaleOnlyIfOverlapped, TypeOK, Cancelled
  <1>10. ASSUME NEW n \in Requests, DetectionSucceeds(n) \/ DetectionFails(n)
         PROVE  FlightInv' /\ StaleOnlyIfOverlapped'
    BY <1>0, <1>10 DEF FlightInv, StaleOnlyIfOverlapped, TypeOK, DetectionSucceeds, DetectionFails
  <1>11. CASE Recreate
    BY <1>0, <1>11, Reloads, ReloadFlight
  <1>12. CASE Relaunch
    BY <1>0, <1>12 DEF FlightInv, StaleOnlyIfOverlapped, TypeOK, Relaunch
  <1>13. CASE Layout
    BY <1>0, <1>13 DEF FlightInv, StaleOnlyIfOverlapped, TypeOK, Layout
  <1>14. CASE ImageDeleted
    BY <1>0, <1>14 DEF FlightInv, StaleOnlyIfOverlapped, TypeOK, ImageDeleted
  <1> QED
    BY <1>1, <1>2, <1>3, <1>4, <1>5, <1>6, <1>7, <1>8, <1>9, <1>10, <1>11, <1>12, <1>13,
       <1>14 DEF Next

(* Every step keeps the preview in line with the image.                    *)
LEMMA PreviewStep ==
    ASSUME IInv, Next
    PROVE  PreviewIsOfImage'
  <1>0. TypeOK /\ PreviewIsOfImage
    BY DEF IInv
  <1>1. ASSUME NEW m \in Modes, PickMode(m) PROVE PreviewIsOfImage'
    BY <1>0, <1>1 DEF PreviewIsOfImage, Decodes, Alive, TypeOK, PickMode
  <1>2. ASSUME NEW z \in Sizes, PickSize(z) PROVE PreviewIsOfImage'
    BY <1>0, <1>2 DEF PreviewIsOfImage, Decodes, Alive, TypeOK, PickSize
  <1>3. CASE ModeSelected
    BY <1>0, <1>3, Reloads DEF PreviewIsOfImage, Decodes, Alive, TypeOK, ModeSelected, ReloadDoes
  <1>4. CASE SizeSelected
    BY <1>0, <1>4, Reloads DEF PreviewIsOfImage, Decodes, Alive, TypeOK, SizeSelected, ReloadDoes
  <1>5. CASE startCameraIntentForResult
    BY <1>0, <1>5 DEF PreviewIsOfImage, Decodes, Alive, TypeOK, startCameraIntentForResult
  <1>6. ASSUME NEW q \in Qualities, ChooserResult(q) PROVE PreviewIsOfImage'
    BY <1>0, <1>6, Reloads DEF PreviewIsOfImage, Decodes, Alive, TypeOK, ChooserResult, ReloadDoes
  <1>7. CASE startChooseImageIntentForResult
    BY <1>0, <1>7 DEF PreviewIsOfImage, Decodes, Alive, TypeOK, startChooseImageIntentForResult
  <1>8. ASSUME NEW q \in Qualities, CameraResult(q) PROVE PreviewIsOfImage'
    BY <1>0, <1>8, Reloads DEF PreviewIsOfImage, Decodes, Alive, TypeOK, CameraResult, ReloadDoes
  <1>9. CASE Cancelled
    BY <1>0, <1>9 DEF PreviewIsOfImage, Decodes, Alive, TypeOK, Cancelled
  <1>10. ASSUME NEW n \in Requests, DetectionSucceeds(n) \/ DetectionFails(n)
         PROVE  PreviewIsOfImage'
    BY <1>0, <1>10 DEF PreviewIsOfImage, Decodes, Alive, TypeOK, DetectionSucceeds, DetectionFails
  <1>11. CASE Recreate
    BY <1>0, <1>11, Reloads DEF PreviewIsOfImage, Decodes, Alive, TypeOK, Recreate, SavedUri,
                                      ReloadDoes
  <1>12. CASE Relaunch
    BY <1>0, <1>12 DEF PreviewIsOfImage, Decodes, Alive, TypeOK, Relaunch
  <1>13. CASE Layout
    BY <1>0, <1>13 DEF PreviewIsOfImage, Decodes, Bitmaps, Alive, TypeOK, Layout
  <1>14. CASE ImageDeleted
    BY <1>0, <1>14 DEF PreviewIsOfImage, Decodes, Bitmaps, Alive, TypeOK, ImageDeleted
  <1> QED
    BY <1>1, <1>2, <1>3, <1>4, <1>5, <1>6, <1>7, <1>8, <1>9, <1>10, <1>11, <1>12, <1>13,
       <1>14 DEF Next

(* Every step keeps the size unknown until the layout, or until the size   *)
(* that an earlier activity had is restored.                               *)
LEMMA LayoutStep ==
    ASSUME IInv, Next
    PROVE  LayoutInv' /\ MeasuredAfterLayout'
  <1> USE DEF LayoutInv, MeasuredAfterLayout, Alive, Idle
  <1>0. TypeOK /\ LayoutInv /\ MeasuredAfterLayout
    BY DEF IInv
  <1>1. ASSUME NEW m \in Modes, PickMode(m) PROVE LayoutInv' /\ MeasuredAfterLayout'
    BY <1>0, <1>1 DEF TypeOK, PickMode
  <1>2. ASSUME NEW z \in Sizes, PickSize(z) PROVE LayoutInv' /\ MeasuredAfterLayout'
    BY <1>0, <1>2 DEF TypeOK, PickSize
  <1>3. CASE ModeSelected
    BY <1>0, <1>3, Reloads DEF TypeOK, ModeSelected, ReloadDoes
  <1>4. CASE SizeSelected
    BY <1>0, <1>4, Reloads DEF TypeOK, SizeSelected, ReloadDoes
  <1>5. CASE startCameraIntentForResult
    BY <1>0, <1>5 DEF TypeOK, Qualities, startCameraIntentForResult
  <1>6. ASSUME NEW q \in Qualities, ChooserResult(q) PROVE LayoutInv' /\ MeasuredAfterLayout'
    BY <1>0, <1>6, Reloads DEF TypeOK, ChooserResult, ReloadDoes
  <1>7. CASE startChooseImageIntentForResult
    BY <1>0, <1>7 DEF TypeOK, startChooseImageIntentForResult
  <1>8. ASSUME NEW q \in Qualities, CameraResult(q) PROVE LayoutInv' /\ MeasuredAfterLayout'
    BY <1>0, <1>8, Reloads DEF TypeOK, CameraResult, ReloadDoes
  <1>9. CASE Cancelled
    BY <1>0, <1>9 DEF TypeOK, Cancelled
  <1>10. ASSUME NEW n \in Requests, DetectionSucceeds(n) \/ DetectionFails(n)
         PROVE  LayoutInv' /\ MeasuredAfterLayout'
    BY <1>0, <1>10 DEF TypeOK, DetectionSucceeds, DetectionFails
  <1>11. CASE Recreate
    BY <1>0, <1>11, Reloads DEF TypeOK, Recreate, Restored, SavedUri, ReloadDoes
  <1>12. CASE Relaunch
    BY <1>0, <1>12 DEF TypeOK, Relaunch
  <1>13. CASE Layout
    BY <1>0, <1>13 DEF TypeOK, Layout
  <1>14. CASE ImageDeleted
    BY <1>0, <1>14 DEF TypeOK, Qualities, ImageDeleted
  <1> QED
    BY <1>1, <1>2, <1>3, <1>4, <1>5, <1>6, <1>7, <1>8, <1>9, <1>10, <1>11, <1>12, <1>13,
       <1>14 DEF Next
-----------------------------------------------------------------------------
(* IInv is inductive: it holds at first, and no event breaks it.           *)
LEMMA InvStep == IInv /\ [Next]_vars => IInv'
  <1> SUFFICES ASSUME IInv, [Next]_vars PROVE IInv'
    OBVIOUS
  <1>1. CASE Next
    BY <1>1, TypeStep, RequestStep, FlightStep, PreviewStep, LayoutStep DEF IInv
  <1>2. CASE UNCHANGED vars
    BY <1>2 DEF IInv, TypeOK, LayoutInv, RequestInv, FlightInv, PreviewIsOfImage,
                StaleOnlyIfOverlapped, MeasuredAfterLayout, Alive, Decodes
  <1> QED
    BY <1>1, <1>2

(* Fields, spinners, screen and detections hang together in every state    *)
(* the activity can be in, also right after it was created anew.           *)
THEOREM Invariance == Spec => []IInv
  BY InitLemma, InvStep, PTL DEF Spec

(* All fields of StillImageActivity and its screen keep their types.       *)
THEOREM TypeCorrect == Spec => []TypeOK
  <1>1. IInv => TypeOK
    BY DEF IInv
  <1> QED
    BY <1>1, Invariance, PTL

(* Once the spinners have reported, tryReloadAndDetectInImage has been run *)
(* for the image, the mode and the size that the user sees selected.       *)
THEOREM NewestIsSelectedHolds == Spec => []NewestIsSelected
  <1>1. ASSUME IInv PROVE NewestIsSelected
    <2> SUFFICES ASSUME reports = {}, Idle, Decodes
                 PROVE  request = [n |-> request.n, uri |-> imageUri, mode |-> spinnerMode,
                                   size |-> spinnerSize]
      BY DEF NewestIsSelected
    <2>1. request \in [n : 0..MaxRequests, uri : 0..MaxImages, mode : Modes, size : Sizes]
      BY <1>1 DEF IInv, TypeOK
    <2>2. request.uri = imageUri /\ request.mode = spinnerMode /\ request.size = spinnerSize
      BY <1>1 DEF IInv, RequestInv, Idle
    <2> QED
      BY <2>1, <2>2
  <1> QED
    BY <1>1, Invariance, PTL

(* The preview of the activity is of the selected image, or empty, or the  *)
(* selected image could not be read.                                       *)
THEOREM PreviewIsOfImageHolds == Spec => []PreviewIsOfImage
  <1>1. IInv => PreviewIsOfImage
    BY DEF IInv
  <1> QED
    BY <1>1, Invariance, PTL

(* An outdated result is drawn only if its detection was overtaken: the    *)
(* overlay is cleared before every detection.                              *)
THEOREM StaleOnlyIfOverlappedHolds == Spec => []StaleOnlyIfOverlapped
  <1>1. IInv => StaleOnlyIfOverlapped
    BY DEF IInv
  <1> QED
    BY <1>1, Invariance, PTL

(* getImageMaxWidth and getImageMaxHeight never measure views that have    *)
(* not been laid out, also not for a result that comes before the layout.  *)
THEOREM MeasuredAfterLayoutHolds == Spec => []MeasuredAfterLayout
  <1>1. IInv => MeasuredAfterLayout
    BY DEF IInv
  <1> QED
    BY <1>1, Invariance, PTL

(* An image on the screen that can still be read survives                  *)
(* onSaveInstanceState and onCreate.                                       *)
THEOREM RecreationKeepsImageHolds == Spec => RecreationKeepsImage
  <1>1. ASSUME IInv, [Next]_vars
        PROVE  [(Recreate /\ preview = imageUri /\ Decodes /\ Alive') => preview' = preview]_vars
    <2> SUFFICES ASSUME Recreate, preview = imageUri, Decodes, Alive'
                 PROVE  preview' = preview
      OBVIOUS
    <2>1. ReloadDoes(imageUri, "label", selectedSize, Restored(imageMax), 0, 0, {})
      BY Reloads
    <2>2. imageUri # 0 /\ quality' \in Bitmaps /\ crashed' = "no"
      BY DEF Recreate, Decodes, Alive
    <2> QED
      BY <2>1, <2>2 DEF ReloadDoes
  <1> QED
    BY <1>1, Invariance, PTL DEF Spec, RecreationKeepsImage
=============================================================================
