-------------------------- MODULE VisionProcessor --------------------------
(***************************************************************************)
(* The processors: VisionProcessorBase.java, and the classifiers with a    *)
(* custom model, CustomImageClassifierProcessor.java.  A processor is made *)
(* for every model that is selected; one that was replaced keeps the       *)
(* images it holds and still gets the callbacks of its detections.         *)
(*                                                                         *)
(* process runs on the camera's processing thread and the callbacks on the *)
(* main thread; a VisionProcessorBase holds its monitor while it touches   *)
(* its images, and a classifier keeps none, so each is one step.  An image *)
(* is a camera buffer with the number of the frame that was handed in; the *)
(* camera may have filled the buffer again when the image is used.         *)
(***************************************************************************)
EXTENDS Integers

CONSTANTS
    MaxOpens,        \* bound on how often a camera is opened
    NumBuffers,      \* the preview buffers createCamera makes (4)
    MaxFrames,       \* bound on the frames captured
    MaxProcessors    \* bound on the processors made

ASSUME PipelineAssumption ==
    /\ MaxOpens \in Nat /\ NumBuffers \in Nat
    /\ MaxFrames \in Nat /\ MaxProcessors \in Nat

VARIABLES
    contents,          \* the frame each camera buffer holds
    custom,            \* the processors that are custom classifiers
    latestImage,       \* the newest image handed in, for each processor
    processingImage,   \* the image in detection, or whose detection failed
    detections,        \* the detections begun that have not yet called back
    shown,             \* GraphicOverlay: a processor, and the frames of its
                       \* results and of the image they are drawn over
    \* history: no action reads it
    begun              \* the latest frame handed in whose detection has begun

processorVars == <<latestImage, processingImage, detections, shown, begun>>

Processors == 1..MaxProcessors
(* The k-th buffer of the g-th camera that was opened.                     *)
Buffers    == (1..MaxOpens) \X (1..NumBuffers)
NoBuffer   == <<0, 0>>
Images     == [buf : Buffers, frame : 0..MaxFrames]
NoImage    == [buf |-> NoBuffer, frame |-> 0]
(* seen: the frame in the buffer when the detection begins.                *)
Detections == [buf : Buffers, frame : 0..MaxFrames, seen : 0..MaxFrames]
Nothing    == <<0, 0, 0>>

ProcessorTypeOK ==
    /\ custom \subseteq Processors
    /\ latestImage \in [Processors -> Images \cup {NoImage}]
    /\ processingImage \in [Processors -> Images \cup {NoImage}]
    /\ detections \in [Processors -> SUBSET Detections]
    /\ begun \in [Processors -> 0..MaxFrames]
    /\ shown \in (0..MaxProcessors) \X (0..MaxFrames) \X (0..MaxFrames)

ProcessorInit ==
    /\ custom = {}
    /\ latestImage = [p \in Processors |-> NoImage]
    /\ processingImage = [p \in Processors |-> NoImage]
    /\ detections = [p \in Processors |-> {}]
    /\ begun = [p \in Processors |-> 0]
    /\ shown = Nothing

Detection(image) == [buf |-> image.buf, frame |-> image.frame, seen |-> contents[image.buf]]

(* processLatestImage, when latestImage is image: it moves on, and its     *)
(* detection begins if there is one.                                       *)
ProcessLatest(p, image) ==
    /\ processingImage' = [processingImage EXCEPT ![p] = image]
    /\ latestImage' = [latestImage EXCEPT ![p] = NoImage]
    /\ IF image = NoImage
       THEN /\ detections' = [detections EXCEPT ![p] = {}]
            /\ UNCHANGED begun
       ELSE /\ detections' = [detections EXCEPT ![p] = {Detection(image)}]
            /\ begun' = [begun EXCEPT ![p] = image.frame]

Keep(p, image) ==
    /\ latestImage' = [latestImage EXCEPT ![p] = image]
    /\ UNCHANGED <<processingImage, detections, begun>>

(* A mutation of process: it does not look whether a detection is running. *)
process_Unchecked(p, image) == ProcessLatest(p, image) /\ UNCHANGED shown

(* The image replaces the latest one; it is processed at once if none is.  *)
process(p, image) ==
    /\ IF processingImage[p] = NoImage THEN ProcessLatest(p, image) ELSE Keep(p, image)
    /\ UNCHANGED shown

(* The overlay is cleared and the results are drawn over the bitmap made   *)
(* when the detection began; then the latest image follows.  The detector  *)
(* has the buffer itself, and has read it at any time until now.           *)
onSuccess(p, d) ==
    /\ p \notin custom /\ d \in detections[p]
    /\ \E results \in d.seen .. contents[d.buf] : shown' = <<p, results, d.seen>>
    /\ ProcessLatest(p, latestImage[p])

(* Only the subclass hears of a failure, and it writes a log line.         *)
onFailure(p, d) ==
    /\ d \in detections[p]
    /\ detections' = [detections EXCEPT ![p] = @ \ {d}]
    /\ UNCHANGED <<latestImage, processingImage, begun, shown>>

(* process of a custom classifier: every frame goes into the interpreter,  *)
(* which is given a copy, whatever else is under way.                      *)
classifyFrame(p, image) ==
    /\ detections' = [detections EXCEPT ![p] = @ \cup {Detection(image)}]
    /\ begun' = [begun EXCEPT ![p] = image.frame]
    /\ UNCHANGED <<latestImage, processingImage, shown>>

(* The labels are drawn over what the buffer holds by now.  A failure, and *)
(* an answer after the activity has stopped, draw nothing: onFailure.      *)
onClassified(p, d) ==
    /\ p \in custom /\ d \in detections[p]
    /\ shown' = <<p, d.seen, contents[d.buf]>>
    /\ detections' = [detections EXCEPT ![p] = @ \ {d}]
    /\ UNCHANGED <<latestImage, processingImage, begun>>

(* The detection of p failed: its image stays where it is, for ever.       *)
Stalled(p) == processingImage[p] # NoImage /\ detections[p] = {}
=============================================================================
