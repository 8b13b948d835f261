------------------------ MODULE CameraPipelineProofs ------------------------
(***************************************************************************)
(* Proofs about CameraPipeline, for every number of buffers, cameras,      *)
(* frames and processors.                                                  *)
(*                                                                         *)
(* The main thread, the processing thread, the camera and the detectors    *)
(* pass buffers and frames around under three different locks, and some    *)
(* fields under none.  IInv says where everything is between two steps:    *)
(* ControlInv relates the threads to the camera, BufferInv says that every *)
(* buffer is in one place, ProcessorInv and OrderInv that a frame in a     *)
(* later place of the line is the older one, and MadeInv that a processor  *)
(* does nothing before it is made.  The last part of the module shows from *)
(* it that the pipeline implements FrameFeed.                              *)
(***************************************************************************)
EXTENDS CameraPipeline, TLAPS

USE PipelineAssumption
USE DEF cameraVars, frameVars, threadVars, choice, previewVars, activityVars, images,
        processorVars, vars

(* The parts of TypeOK, for provers that like numbers, truth values or     *)
(* names.                                                                  *)
DataOK ==
    /\ camera \in 0..MaxOpens /\ opens \in 0..MaxOpens
    /\ queued \in SUBSET Buffers /\ posted \in SUBSET Buffers
    /\ contents \in [Buffers -> 0..MaxFrames] /\ captured \in 0..MaxFrames
    /\ pendingFrameData \in Buffers \cup {NoBuffer} /\ data \in Buffers \cup {NoBuffer}
    /\ frameProcessor \in 0..MaxProcessors /\ made \in 0..MaxProcessors

FlagsOK ==
    /\ previewing \in BOOLEAN /\ active \in BOOLEAN
    /\ inPreview \in BOOLEAN /\ startRequested \in BOOLEAN /\ surfaceAvailable \in BOOLEAN
    /\ held \in BOOLEAN /\ granted \in BOOLEAN /\ lateStart \in BOOLEAN

PlacesOK ==
    /\ procPc \in {"none", "loop", "wait", "want", "return"}
    /\ life \in {"created", "resumed", "paused", "stopped", "destroyed"}
    /\ uiPc \in Waiting \cup {"idle", "crashed"}

(* The parts make up the whole.                                            *)
LEMMA TypeParts == TypeOK <=> ProcessorTypeOK /\ DataOK /\ FlagsOK /\ PlacesOK
  BY Zenon DEF TypeOK, DataOK, FlagsOK, PlacesOK

(* Where buffers come from.                                                *)
LEMMA BufferFacts ==
    /\ NoBuffer \notin Buffers
    /\ \A g \in 1..MaxOpens : Own(g) \subseteq Buffers
    /\ \A g \in 0..MaxOpens : \A b \in Own(g) : b[1] = g /\ b # NoBuffer
    /\ \A b \in Buffers : b[1] \in 1..MaxOpens
    /\ NoBuffer[1] = 0
  BY DEF Buffers, NoBuffer, Own

(* What setActive and setNextFrame tell the thread.                        *)
LEMMA NotifiedFacts ==
    /\ (Notified = "none") <=> (procPc = "none")
    /\ (Notified = "want") <=> (procPc = "want")
    /\ (Notified = "return") <=> (procPc = "return")
    /\ procPc \in {"none", "loop", "wait", "want", "return"} =>
           Notified \in {"none", "loop", "wait", "want", "return"}
  BY DEF Notified

(* What the activity's start of the camera may do.                         *)
StartDoes(has, overlay) ==
    /\ posted' = {}
    /\ shown' \in {Nothing, overlay}
    /\ \/ /\ camera' = 0 /\ previewing' = FALSE /\ queued' = {} /\ procPc' = procPc
          /\ opens' = opens \/ (opens < MaxOpens /\ opens' = opens + 1)
       \/ /\ opens < MaxOpens /\ opens' = opens + 1 /\ camera' = opens + 1
          /\ previewing' = TRUE /\ queued' = Own(opens + 1)
          /\ procPc' = "loop" /\ active' = TRUE /\ has
    /\ ~has => held' = held /\ startRequested' = startRequested /\ camera' = 0

(* startCameraSource does that.                                            *)
LEMMA StartLemma ==
    ASSUME DataOK, NEW has, NEW overlay, NEW o \in Outcomes, startCameraSource(has, overlay, o)
    PROVE  StartDoes(has, overlay)
  <1>1. CASE o = "noSource"
    BY <1>1 DEF startCameraSource, StartDoes, Closed, Failures
  <1>2. CASE o \in {"notReady", "throws"}
    BY <1>2 DEF startCameraSource, StartDoes, Closed, Failures
  <1>3. CASE o = "ok"
    BY <1>3 DEF startCameraSource, StartDoes, Started, Opened, Failures
  <1>4. CASE o \in Failures
    <2>1. OpensBy(o) \in {0, 1}
      BY DEF OpensBy
    <2> QED
      BY <1>4, <2>1 DEF startCameraSource, StartDoes, Closed, Failures, DataOK
  <1> QED
    BY <1>1, <1>2, <1>3, <1>4 DEF Outcomes

(* What a callback of the view may do.                                     *)
ViewDoes ==
    \/ /\ UNCHANGED <<camera, previewing, queued, posted, active, procPc, lateStart>>
       /\ opens' = opens \/ (opens < MaxOpens /\ opens' = opens + 1)
       /\ shown' \in {Nothing, shown}
       /\ (startRequested' => startRequested)
    \/ /\ startRequested /\ camera = 0
       /\ opens < MaxOpens /\ opens' = opens + 1 /\ camera' = opens + 1
       /\ queued' = Own(opens + 1) /\ posted' = {}
       /\ shown' \in {Nothing, shown}
       /\ (startRequested' => startRequested)
       /\ \/ /\ previewing' = TRUE /\ procPc' = "loop" /\ active' = TRUE
             /\ (lateStart \/ life # "resumed") => lateStart'
          \/ previewing' = FALSE /\ UNCHANGED <<active, procPc, lateStart>>

(* startIfReady does that.                                                 *)
LEMMA ViewLemma ==
    ASSUME DataOK, NEW o \in ViewOutcomes, startIfReady(o)
    PROVE  ViewDoes
  <1>1. CASE o \in {"notReady", "running"}
    BY <1>1 DEF startIfReady, ViewDoes
  <1>2. CASE o = "ok"
    BY <1>2 DEF startIfReady, ViewDoes, Started, Opened
  <1>3. CASE o = "noTexture"
    BY <1>3 DEF startIfReady, ViewDoes, Opened
  <1>4. CASE o \in {"noCamera", "noSize", "throws"}
    <2>1. OpensBy(o) \in {0, 1}
      BY DEF OpensBy
    <2>2. /\ UNCHANGED <<camera, previewing, queued, posted, active, procPc, lateStart>>
          /\ UNCHANGED <<startRequested, shown>>
          /\ opens + OpensBy(o) <= MaxOpens /\ opens' = opens + OpensBy(o)
      BY <1>4 DEF startIfReady
    <2>3. opens \in Nat /\ MaxOpens \in Nat
      BY PipelineAssumption DEF DataOK
    <2>4. opens' = opens \/ (opens < MaxOpens /\ opens' = opens + 1)
      BY <2>1, <2>2, <2>3
    <2> QED
      BY <2>2, <2>4 DEF ViewDoes
  <1> QED
    BY <1>1, <1>2, <1>3, <1>4 DEF Failures, ViewOutcomes

(* Starting the camera keeps truth values what they are.                   *)
LEMMA StartFlags ==
    ASSUME FlagsOK, NEW has, NEW overlay, NEW o \in Outcomes, startCameraSource(has, overlay, o)
    PROVE  /\ previewing' \in BOOLEAN /\ active' \in BOOLEAN
           /\ held' \in BOOLEAN /\ inPreview' \in BOOLEAN /\ startRequested' \in BOOLEAN
  <1> USE DEF FlagsOK
  <1>1. CASE o = "noSource"
    BY <1>1 DEF startCameraSource, Closed, Failures
  <1>2. CASE o \in {"notReady", "throws"}
    BY <1>2 DEF startCameraSource, Closed, Failures
  <1>3. CASE o = "ok"
    BY <1>3 DEF startCameraSource, Started, Opened, Failures
  <1>4. CASE o \in Failures
    BY <1>4 DEF startCameraSource, Closed, Failures
  <1> QED
    BY <1>1, <1>2, <1>3, <1>4 DEF Outcomes

(* So does a callback of the view.                                         *)
LEMMA ViewFlags ==
    ASSUME FlagsOK, NEW o \in ViewOutcomes, startIfReady(o)
    PROVE  /\ previewing' \in BOOLEAN /\ active' \in BOOLEAN
           /\ startRequested' \in BOOLEAN /\ lateStart' \in BOOLEAN
  <1> USE DEF FlagsOK
  <1>1. CASE o = "notReady" \/ o = "running"
    BY <1>1, Zenon DEF startIfReady, Failures
  <1>2. CASE o = "ok"
    BY <1>2, Zenon DEF startIfReady, Started, Opened, Failures
  <1>3. CASE o = "noTexture"
    BY <1>3, Zenon DEF startIfReady, Opened
  <1>4. CASE o \in {"noCamera", "noSize", "throws"}
    BY <1>4, Zenon DEF startIfReady
  <1> QED
    BY <1>1, <1>2, <1>3, <1>4 DEF ViewOutcomes, Failures

(* What a new processor, or a model that cannot be loaded, changes.        *)
CreateDoes ==
    /\ pendingFrameData' \in {pendingFrameData, NoBuffer}
    /\ frameProcessor' \in 0..MaxProcessors /\ made' \in 0..MaxProcessors
    /\ made <= made'
    /\ frameProcessor <= made => frameProcessor' <= made'
    /\ custom' = custom \/ (made + 1 \in Processors /\ custom' = custom \cup {made + 1})

(* createCameraSource does that.                                           *)
LEMMA CreateLemma ==
    ASSUME DataOK, NEW model, createCameraSource(model)
    PROVE  CreateDoes
  <1>1. CASE model = "unloadable"
    BY <1>1 DEF DataOK, createCameraSource, CreateDoes
  <1>2. CASE model # "unloadable"
    BY <1>2 DEF DataOK, createCameraSource, CreateDoes, Processors
  <1> QED
    BY <1>1, <1>2

(* An exception of the camera is the end of the process.                   *)
LEMMA LeftFacts == \A o : Left(o) \in {"idle", "crashed"}
  BY DEF Left

(* An empty overlay is one.                                                *)
LEMMA NothingFact == Nothing \in (0..MaxProcessors) \X (0..MaxFrames) \X (0..MaxFrames)
  BY DEF Nothing

(* No image is none of the images, and of frame 0.                         *)
LEMMA NoImageFact == NoImage \notin Images /\ NoImage.frame = 0
  BY BufferFacts DEF NoImage, Images

(* What is in an image and in the detection that it begins.                *)
LEMMA DetectionFacts ==
    ASSUME DataOK, NEW image \in Images
    PROVE  /\ image.buf \in Buffers /\ image.frame \in 0..MaxFrames
           /\ contents[image.buf] \in 0..MaxFrames
           /\ Detection(image) \in Detections
           /\ Detection(image).buf = image.buf
           /\ Detection(image).frame = image.frame
           /\ Detection(image).seen = contents[image.buf]
  <1>1. image.buf \in Buffers /\ image.frame \in 0..MaxFrames
    BY DEF Images
  <1>2. contents[image.buf] \in 0..MaxFrames
    BY <1>1 DEF DataOK
  <1> QED
    BY <1>1, <1>2 DEF Detection, Detections

(* Frames are numbers, also that of no image.                              *)
LEMMA FrameNumbers ==
    ASSUME ProcessorTypeOK
    PROVE  \A p \in Processors : begun[p] \in Nat /\ latestImage[p].frame \in Nat
  <1>1. \A p \in Processors : latestImage[p] \in Images \/ latestImage[p] = NoImage
    BY DEF ProcessorTypeOK
  <1> QED
    BY <1>1, NoImageFact DEF ProcessorTypeOK, Images

(* processLatestImage moves images of the right type.                      *)
LEMMA LatestTypes ==
    ASSUME ProcessorTypeOK, DataOK, NEW p \in Processors, NEW image \in Images \cup {NoImage},
           ProcessLatest(p, image)
    PROVE  /\ latestImage' \in [Processors -> Images \cup {NoImage}]
           /\ processingImage' \in [Processors -> Images \cup {NoImage}]
           /\ detections' \in [Processors -> SUBSET Detections]
           /\ begun' \in [Processors -> 0..MaxFrames]
  <1>1. latestImage' \in [Processors -> Images \cup {NoImage}]
        /\ processingImage' \in [Processors -> Images \cup {NoImage}]
    BY DEF ProcessorTypeOK, ProcessLatest
  <1>2. CASE image = NoImage
    BY <1>1, <1>2 DEF ProcessorTypeOK, ProcessLatest
  <1>3. CASE image # NoImage
    <2>1. image.frame \in 0..MaxFrames /\ Detection(image) \in Detections
      BY <1>3, DetectionFacts
    <2> QED
      BY <1>1, <1>3, <2>1 DEF ProcessorTypeOK, ProcessLatest
  <1> QED
    BY <1>2, <1>3
-----------------------------------------------------------------------------
(* Where the threads are, and what that says of the camera: the processing *)
(* thread holds a buffer between taking and returning it, lives only as    *)
(* long as a camera is open, is told to stop only by a handler that then   *)
(* waits, and outlives onPause only after a late start.                    *)
ControlInv ==
    /\ data # NoBuffer <=> procPc \in {"want", "return"}
    /\ ThreadServesCamera
    /\ (uiPc = "idle" /\ procPc # "none") => active
    /\ camera <= opens
    /\ ~granted => ~held /\ ~startRequested /\ camera = 0
    /\ uiPc \in {"select", "toggle"} => life = "resumed"
    /\ uiPc = "destroy" => life = "destroyed"
    /\ (procPc # "none" /\ life # "resumed" /\ uiPc # "pause") => lateStart

Around == queued \cup posted \cup {pendingFrameData, data}

BufferInv ==
    /\ BuffersKept /\ OneForeignBuffer
    /\ \A b \in Around : b[1] <= opens

(* Newer than every frame a processor has begun or keeps.                  *)
Fresh(f) == \A p \in Processors : begun[p] < f /\ latestImage[p].frame < f

(* Frames are handed on in the order of capture: begun, latest, in the     *)
(* thread's hands, pending, on their way, each older than the next.  A     *)
(* buffer that is in detection or kept may only hold a newer frame by now. *)
ProcessorInv ==
    \A p \in Processors :
        /\ begun[p] <= captured /\ latestImage[p].frame <= captured
        /\ latestImage[p] # NoImage =>
               /\ begun[p] < latestImage[p].frame
               /\ latestImage[p].frame <= contents[latestImage[p].buf]
        /\ \A d \in detections[p] :
               /\ 0 < d.frame /\ d.frame <= begun[p]
               /\ d.frame <= d.seen /\ d.seen <= contents[d.buf]
        /\ p \in custom => latestImage[p] = NoImage
        /\ p \notin custom =>
               /\ \A d, e \in detections[p] : d = e
               /\ processingImage[p] = NoImage => detections[p] = {}

(* A processor that is not yet made has begun nothing.                     *)
MadeInv ==
    /\ frameProcessor <= made
    /\ \A p \in Processors : made < p => begun[p] = 0 /\ latestImage[p] = NoImage

OrderInv ==
    /\ \A b \in Buffers : contents[b] <= captured
    /\ procPc = "want" => Fresh(contents[data])
    /\ pendingFrameData # NoBuffer => Fresh(contents[pendingFrameData])
    /\ \A b \in posted : Fresh(contents[b])
    /\ (procPc = "want" /\ pendingFrameData # NoBuffer) =>
           contents[data] < contents[pendingFrameData]
    /\ \A b \in posted :
           /\ procPc = "want" => contents[data] < contents[b]
           /\ pendingFrameData # NoBuffer => contents[pendingFrameData] < contents[b]
           /\ \A c \in posted : b # c => contents[b] # contents[c]

IInv == TypeOK /\ ControlInv /\ BufferInv /\ ProcessorInv /\ OrderInv /\ MadeInv
-----------------------------------------------------------------------------
(* An image that is newer than the last keeps a processor in order.        *)
LEMMA LatestInv ==
    ASSUME ProcessorTypeOK, DataOK, ProcessorInv, UNCHANGED <<captured, contents, custom>>,
           NEW p \in Processors, NEW image \in Images \cup {NoImage}, ProcessLatest(p, image),
           image # NoImage => /\ begun[p] < image.frame /\ image.frame <= captured
                              /\ image.frame <= contents[image.buf]
    PROVE  ProcessorInv'
  <1> SUFFICES ASSUME NEW q \in Processors
               PROVE  /\ begun'[q] <= captured' /\ latestImage'[q].frame <= captured'
                      /\ latestImage'[q] # NoImage =>
                             /\ begun'[q] < latestImage'[q].frame
                             /\ latestImage'[q].frame <= contents'[latestImage'[q].buf]
                      /\ \A d \in detections'[q] :
                             /\ 0 < d.frame /\ d.frame <= begun'[q]
                             /\ d.frame <= d.seen /\ d.seen <= contents'[d.buf]
                      /\ q \in custom' => latestImage'[q] = NoImage
                      /\ q \notin custom' =>
                             /\ \A d, e \in detections'[q] : d = e
                             /\ processingImage'[q] = NoImage => detections'[q] = {}
    BY DEF ProcessorInv
  <1>1. begun[p] \in Nat /\ captured \in Nat
    BY DEF ProcessorTypeOK, DataOK
  <1>2. CASE q # p
    <2>1. /\ begun'[q] = begun[q] /\ latestImage'[q] = latestImage[q]
          /\ processingImage'[q] = processingImage[q] /\ detections'[q] = detections[q]
      BY <1>2 DEF ProcessLatest, ProcessorTypeOK
    <2> QED
      BY <2>1 DEF ProcessorInv
  <1>3. CASE q = p
    <2>1. latestImage'[p] = NoImage /\ processingImage'[p] = image
      BY DEF ProcessLatest, ProcessorTypeOK
    <2>2. CASE image = NoImage
      <3>1. detections'[p] = {} /\ begun'[p] = begun[p]
        BY <2>2 DEF ProcessLatest, ProcessorTypeOK
      <3> QED
        BY <1>1, <1>3, <2>1, <3>1, NoImageFact DEF ProcessorInv
    <2>3. CASE image # NoImage
      <3>1. detections'[p] = {Detection(image)} /\ begun'[p] = image.frame
        BY <2>3 DEF ProcessLatest, ProcessorTypeOK
      <3>2. /\ Detection(image).frame = image.frame
            /\ Detection(image).buf = image.buf
            /\ Detection(image).seen = contents[image.buf]
            /\ image.frame \in Nat /\ contents[image.buf] \in Nat
        BY <2>3, DetectionFacts
      <3>3. \A d \in detections'[p] : d = Detection(image)
        BY <3>1
      <3>4. \A d \in detections'[p] :
               /\ 0 < d.frame /\ d.frame <= begun'[p]
               /\ d.frame <= d.seen /\ d.seen <= contents[d.buf]
        BY <1>1, <2>3, <3>1, <3>2, <3>3
      <3> QED
        BY <1>1, <1>3, <2>1, <2>3, <3>1, <3>2, <3>3, <3>4, NoImageFact
    <2> QED
      BY <2>2, <2>3
  <1> QED
    BY <1>2, <1>3

(* So does a frame that a custom classifier takes.                         *)
LEMMA ClassifyInv ==
    ASSUME ProcessorTypeOK, DataOK, ProcessorInv, UNCHANGED <<captured, contents, custom>>,
           NEW p \in custom, NEW image \in Images, classifyFrame(p, image),
           begun[p] < image.frame, image.frame <= captured,
           image.frame <= contents[image.buf]
    PROVE  ProcessorInv'
  <1>0. p \in Processors
    BY DEF ProcessorTypeOK
  <1>1. /\ Detection(image).frame = image.frame
        /\ Detection(image).buf = image.buf
        /\ Detection(image).seen = contents[image.buf]
        /\ image.frame \in Nat /\ contents[image.buf] \in Nat
    BY DetectionFacts
  <1>2. begun[p] \in Nat /\ \A d \in detections[p] : d.frame \in Nat /\ d.seen \in Nat
    BY <1>0 DEF ProcessorTypeOK, Detections
  <1>3. /\ begun'[p] = image.frame
        /\ detections'[p] = detections[p] \cup {Detection(image)}
        /\ \A q \in Processors : q # p => begun'[q] = begun[q] /\ detections'[q] = detections[q]
        /\ latestImage' = latestImage /\ processingImage' = processingImage
    BY <1>0 DEF classifyFrame, ProcessorTypeOK
  <1>4. \A d \in detections'[p] :
           /\ 0 < d.frame /\ d.frame <= begun'[p]
           /\ d.frame <= d.seen /\ d.seen <= contents[d.buf]
    <2>1. 0 < image.frame
      BY <1>1, <1>2
    <2>2. \A d \in detections[p] :
             /\ 0 < d.frame /\ d.frame <= image.frame
             /\ d.frame <= d.seen /\ d.seen <= contents[d.buf]
      BY <1>0, <1>1, <1>2 DEF ProcessorInv
    <2> QED
      BY <1>1, <1>3, <2>1, <2>2
  <1>5. latestImage[p] = NoImage
    BY <1>0 DEF ProcessorInv
  <1> QED
    BY <1>0, <1>1, <1>3, <1>4, <1>5 DEF ProcessorInv

(* And a detection that is over and done with.                             *)
LEMMA OverInv ==
    ASSUME ProcessorTypeOK, ProcessorInv, NEW p \in Processors, NEW d \in detections[p],
           UNCHANGED <<captured, contents, custom, latestImage, processingImage, begun>>,
           detections' = [detections EXCEPT ![p] = @ \ {d}]
    PROVE  ProcessorInv'
  <1>1. \A q \in Processors : detections'[q] \subseteq detections[q]
    BY DEF ProcessorTypeOK
  <1> QED
    BY <1>1 DEF ProcessorInv

(* And a processor that is new.                                            *)
LEMMA MakeInv ==
    ASSUME ProcessorTypeOK, DataOK, ProcessorInv, MadeInv, CreateDoes,
           UNCHANGED <<contents, captured, latestImage, processingImage, detections, begun>>
    PROVE  ProcessorInv'
  <1>1. made \in Nat /\ custom \subseteq custom'
    BY DEF DataOK, CreateDoes
  <1>2. \A p \in Processors : p \in custom' => p \in custom \/ p = made + 1
    BY DEF CreateDoes
  <1>3. \A p \in Processors : p \in custom' => latestImage[p] = NoImage
    BY <1>1, <1>2 DEF MadeInv, ProcessorInv, Processors
  <1> QED
    BY <1>1, <1>3 DEF ProcessorInv

(* What becomes of the frames begun and kept when a processor moves on.    *)
LEMMA LatestMoves ==
    ASSUME ProcessorTypeOK, NEW p \in Processors, NEW image \in Images \cup {NoImage},
           ProcessLatest(p, image)
    PROVE  \A q \in Processors :
              /\ begun'[q] \in {begun[q], IF q = p THEN image.frame ELSE begun[q]}
              /\ latestImage'[q].frame \in {latestImage[q].frame, 0}
  BY NoImageFact DEF ProcessLatest, ProcessorTypeOK

(* What the processing thread hands in, and what becomes of it.            *)
HandsIn(p, image) ==
    /\ p = frameProcessor /\ image.buf = data /\ image.frame = contents[data]
    /\ \A q \in Processors : begun[q] < image.frame /\ latestImage[q].frame < image.frame
    /\ image.frame <= captured
    /\ shown' = shown
    /\ \/ p \in custom /\ classifyFrame(p, image)
       \/ p \notin custom /\ processingImage[p] = NoImage /\ ProcessLatest(p, image)
       \/ p \notin custom /\ Keep(p, image)

(* It is a newer frame than any before, and goes to the processor set.     *)
LEMMA FrameCases ==
    ASSUME IInv, ProcessFrame
    PROVE  \/ UNCHANGED processorVars
           \/ \E p \in Processors, image \in Images : HandsIn(p, image)
  <1>0. DataOK /\ ControlInv /\ OrderInv
    BY TypeParts DEF IInv
  <1>1. procPc = "want" /\ data \in Buffers /\ contents[data] \in 0..MaxFrames
    BY <1>0 DEF DataOK, ControlInv, ProcessFrame
  <1>2. CASE frameProcessor = 0
    BY <1>2 DEF ProcessFrame
  <1>3. CASE frameProcessor # 0
    <2> DEFINE image == [buf |-> data, frame |-> contents[data]]
    <2>1. frameProcessor \in Processors
      BY <1>0, <1>3 DEF DataOK, Processors
    <2>2. image \in Images /\ image.buf = data /\ image.frame = contents[data]
      BY <1>1 DEF Images
    <2>3. IF frameProcessor \in custom
          THEN classifyFrame(frameProcessor, image)
          ELSE process(frameProcessor, image)
      BY <1>3 DEF ProcessFrame
    <2>4. /\ \A q \in Processors : begun[q] < image.frame /\ latestImage[q].frame < image.frame
          /\ image.frame <= captured
      BY <1>0, <1>1, <2>2 DEF OrderInv, Fresh
    <2> HIDE DEF image
    <2>5. HandsIn(frameProcessor, image)
      <3>1. CASE frameProcessor \in custom
        BY <2>2, <2>3, <2>4, <3>1 DEF HandsIn, classifyFrame
      <3>2. CASE frameProcessor \notin custom
        BY <2>2, <2>3, <2>4, <3>2 DEF HandsIn, process
      <3> QED
        BY <3>1, <3>2
    <2> QED
      BY <2>1, <2>2, <2>5
  <1> QED
    BY <1>2, <1>3

(* What the selection of a model changes.                                  *)
LEMMA SelectLemma ==
    ASSUME DataOK, NEW o \in Outcomes, SelectStopped(o)
    PROVE  /\ CreateDoes
           /\ \E has \in BOOLEAN, overlay \in {Nothing, shown} :
                 StartDoes(has, overlay) /\ (has <=> granted)
  <1>1. CASE granted
    <2>1. PICK model \in Models :
             createCameraSource(model) /\ startCameraSource(TRUE, Cleaned(model), o)
      BY <1>1 DEF SelectStopped
    <2>2. CreateDoes /\ StartDoes(TRUE, Cleaned(model))
      BY <2>1, CreateLemma, StartLemma
    <2>3. Cleaned(model) \in {Nothing, shown}
      BY DEF Cleaned
    <2> QED
      BY <1>1, <2>2, <2>3
  <1>2. CASE ~granted
    <2>1. UNCHANGED <<choice, pendingFrameData>> /\ startCameraSource(FALSE, shown, o)
      BY <1>2 DEF SelectStopped
    <2>2. CreateDoes
      BY <2>1 DEF CreateDoes, DataOK
    <2> QED
      BY <1>2, <2>1, <2>2, StartLemma
  <1> QED
    BY <1>1, <1>2

(* What the creation of the activity and the permissions change.           *)
LEMMA NewSourceLemma ==
    ASSUME DataOK, onCreate \/ \E m \in Models : onRequestPermissionsResult(m)
    PROVE  CreateDoes /\ shown' \in {Nothing, shown}
  <1>1. CASE onCreate
    <2>1. CASE granted
      BY <1>1, <2>1, CreateLemma DEF onCreate
    <2>2. CASE ~granted
      BY <1>1, <2>2 DEF onCreate, CreateDoes, DataOK
    <2> QED
      BY <1>1, <2>1, <2>2 DEF onCreate
  <1>2. ASSUME NEW m \in Models, onRequestPermissionsResult(m)
        PROVE  CreateDoes /\ shown' \in {Nothing, shown}
    BY <1>2, CreateLemma DEF onRequestPermissionsResult, Cleaned
  <1> QED
    BY <1>1, <1>2

(* Every step keeps the threads at places of their code.                   *)
LEMMA PlacesStep ==
    ASSUME IInv, Next
    PROVE  PlacesOK'
  <1>0. PlacesOK /\ DataOK
    BY TypeParts DEF IInv
  <1>1. CASE ThreadLoop
    BY <1>0, <1>1 DEF PlacesOK, Waiting, ThreadLoop
  <1>2. CASE ProcessFrame
    BY <1>0, <1>2 DEF PlacesOK, Waiting, ProcessFrame
  <1>3. CASE ReturnBuffer
    BY <1>0, <1>3 DEF PlacesOK, Waiting, ReturnBuffer
  <1>4. CASE PauseStopped
    BY <1>0, <1>4 DEF PlacesOK, Waiting, PauseStopped, Joined, Closed
  <1>5. CASE DestroyStopped
    BY <1>0, <1>5 DEF PlacesOK, Waiting, DestroyStopped, Joined, Closed
  <1>6. ASSUME NEW o \in Outcomes, SelectStopped(o) PROVE PlacesOK'
    BY <1>0, <1>6, SelectLemma, LeftFacts DEF PlacesOK, Waiting, SelectStopped, StartDoes
  <1>7. ASSUME NEW o \in Outcomes, ToggleStopped(o) PROVE PlacesOK'
    BY <1>0, <1>7, StartLemma, LeftFacts DEF PlacesOK, Waiting, ToggleStopped, Joined, StartDoes
  <1>8. ASSUME NEW b \in Buffers, CameraFills(b) PROVE PlacesOK'
    BY <1>0, <1>8 DEF PlacesOK, Waiting, CameraFills
  <1>9. ASSUME NEW b \in Buffers, onPreviewFrame(b) PROVE PlacesOK'
    BY <1>0, <1>9, NotifiedFacts DEF PlacesOK, Waiting, onPreviewFrame, setNextFrame,
       bytesToByteBuffer
  <1>10. ASSUME NEW p \in Processors, DetectionEnds(p) PROVE PlacesOK'
    BY <1>0, <1>10 DEF PlacesOK, Waiting, DetectionEnds
  <1>11. CASE onCreate
    BY <1>0, <1>11, NewSourceLemma DEF PlacesOK, Waiting, onCreate, CreateDoes
  <1>12. CASE onResumeOpen
    BY <1>0, <1>12 DEF PlacesOK, Waiting, onResumeOpen
  <1>13. CASE onPause
    BY <1>0, <1>13, NotifiedFacts DEF PlacesOK, Waiting, onPause, StopIn
  <1>14. CASE onItemSelected
    BY <1>0, <1>14, NotifiedFacts DEF PlacesOK, Waiting, onItemSelected, StopIn
  <1>15. CASE onCheckedChanged
    BY <1>0, <1>15, NotifiedFacts DEF PlacesOK, Waiting, onCheckedChanged, StopIn
  <1>16. CASE onDestroy
    BY <1>0, <1>16, NotifiedFacts DEF PlacesOK, Waiting, onDestroy, StopIn
  <1>17. CASE onDestroyWithoutSource
    BY <1>0, <1>17 DEF PlacesOK, Waiting, onDestroyWithoutSource
  <1>18. ASSUME NEW m \in Models, onRequestPermissionsResult(m) PROVE PlacesOK'
    BY <1>0, <1>18, NewSourceLemma DEF PlacesOK, Waiting, onRequestPermissionsResult, CreateDoes
  <1>19. ASSUME NEW o \in Outcomes, onResume(o) PROVE PlacesOK'
    BY <1>0, <1>19, StartLemma, LeftFacts DEF PlacesOK, Waiting, onResume, StartDoes
  <1>20. ASSUME NEW o \in ViewOutcomes, surfaceCreated(o) PROVE PlacesOK'
    BY <1>0, <1>20, ViewLemma, LeftFacts DEF PlacesOK, Waiting, surfaceCreated, ViewDoes
  <1>21. ASSUME NEW o \in ViewOutcomes, onLayout(o) PROVE PlacesOK'
    BY <1>0, <1>21, ViewLemma, LeftFacts DEF PlacesOK, Waiting, onLayout, ViewDoes
  <1>22. CASE surfaceDestroyed
    BY <1>0, <1>22 DEF PlacesOK, Waiting, surfaceDestroyed
  <1> QED
    BY <1>1, <1>2, <1>3, <1>4, <1>5, <1>6, <1>7, <1>8, <1>9, <1>10, <1>11,
       <1>12, <1>13, <1>14, <1>15, <1>16, <1>17, <1>18, <1>19, <1>20, <1>21, <1>22
    DEF Next, ThreadStep, HandlerStopped

(* Every step keeps the control of the threads.                            *)
LEMMA ControlStep ==
    ASSUME IInv, Next
    PROVE  ControlInv'
  <1>0. TypeOK /\ DataOK /\ PlacesOK /\ ControlInv
    BY TypeParts DEF IInv
  <1>1. CASE ThreadLoop
    BY <1>0, <1>1 DEF ControlInv, ThreadServesCamera, DataOK, ThreadLoop
  <1>2. CASE ProcessFrame
    BY <1>0, <1>2 DEF ControlInv, ThreadServesCamera, DataOK, ProcessFrame
  <1>3. CASE ReturnBuffer
    BY <1>0, <1>3 DEF ControlInv, ThreadServesCamera, DataOK, ReturnBuffer
  <1>4. CASE PauseStopped
    BY <1>0, <1>4 DEF ControlInv, ThreadServesCamera, DataOK, PauseStopped, Joined, Closed
  <1>5. CASE DestroyStopped
    BY <1>0, <1>5 DEF ControlInv, ThreadServesCamera, DataOK, DestroyStopped, Joined, Closed
  <1>6. ASSUME NEW o \in Outcomes, SelectStopped(o) PROVE ControlInv'
    <2>1. PICK has \in BOOLEAN, overlay \in {Nothing, shown} :
                StartDoes(has, overlay) /\ (has <=> granted)
      BY <1>0, <1>6, SelectLemma
    <2> QED
      <3>1. /\ procPc = "none" /\ uiPc = "select" /\ uiPc' = Left(o)
            /\ UNCHANGED <<data, life, granted>>
        BY <1>6 DEF SelectStopped, Joined
      <3> QED
        BY <1>0, <2>1, <3>1, LeftFacts DEF ControlInv, ThreadServesCamera, DataOK, StartDoes
  <1>7. ASSUME NEW o \in Outcomes, ToggleStopped(o) PROVE ControlInv'
    <2>1. StartDoes(held, shown)
      BY <1>0, <1>7, StartLemma DEF ToggleStopped
    <2> QED
      <3>1. /\ procPc = "none" /\ uiPc = "toggle" /\ uiPc' = Left(o)
            /\ UNCHANGED <<data, life, granted>>
        BY <1>7 DEF ToggleStopped, Joined
      <3> QED
        BY <1>0, <2>1, <3>1, LeftFacts DEF ControlInv, ThreadServesCamera, DataOK, StartDoes
  <1>8. ASSUME NEW b \in Buffers, CameraFills(b) PROVE ControlInv'
    BY <1>0, <1>8 DEF ControlInv, ThreadServesCamera, DataOK, CameraFills
  <1>9. ASSUME NEW b \in Buffers, onPreviewFrame(b) PROVE ControlInv'
    BY <1>0, <1>9, NotifiedFacts DEF ControlInv, ThreadServesCamera, DataOK, onPreviewFrame,
       setNextFrame, bytesToByteBuffer
  <1>10. ASSUME NEW p \in Processors, DetectionEnds(p) PROVE ControlInv'
    BY <1>0, <1>10 DEF ControlInv, ThreadServesCamera, DataOK, DetectionEnds
  <1>11. CASE onCreate
    BY <1>0, <1>11, NewSourceLemma DEF ControlInv, ThreadServesCamera, DataOK,
       onCreate, CreateDoes
  <1>12. CASE onResumeOpen
    BY <1>0, <1>12 DEF ControlInv, ThreadServesCamera, DataOK, onResumeOpen
  <1>13. CASE onPause
    BY <1>0, <1>13, NotifiedFacts DEF ControlInv, ThreadServesCamera, DataOK, onPause, StopIn
  <1>14. CASE onItemSelected
    BY <1>0, <1>14, NotifiedFacts DEF ControlInv, ThreadServesCamera, DataOK, onItemSelected,
       StopIn
  <1>15. CASE onCheckedChanged
    BY <1>0, <1>15, NotifiedFacts DEF ControlInv, ThreadServesCamera, DataOK,
       onCheckedChanged, StopIn
  <1>16. CASE onDestroy
    BY <1>0, <1>16, NotifiedFacts DEF ControlInv, ThreadServesCamera, DataOK, onDestroy, StopIn
  <1>17. CASE onDestroyWithoutSource
    BY <1>0, <1>17 DEF ControlInv, ThreadServesCamera, DataOK, onDestroyWithoutSource
  <1>18. ASSUME NEW m \in Models, onRequestPermissionsResult(m) PROVE ControlInv'
    BY <1>0, <1>18, NewSourceLemma DEF ControlInv, ThreadServesCamera, DataOK,
       onRequestPermissionsResult, CreateDoes
  <1>19. ASSUME NEW o \in Outcomes, onResume(o) PROVE ControlInv'
    <2>1. StartDoes(held, shown)
      BY <1>0, <1>19, StartLemma DEF onResume
    <2> QED
      <3>1. /\ uiPc = "idle" /\ camera = 0 /\ life' = "resumed" /\ uiPc' = Left(o)
            /\ UNCHANGED <<data, granted>>
        BY <1>19 DEF onResume
      <3> QED
        BY <1>0, <2>1, <3>1, LeftFacts DEF ControlInv, ThreadServesCamera, DataOK, StartDoes
  <1>20. ASSUME NEW o \in ViewOutcomes, surfaceCreated(o) PROVE ControlInv'
    <2>1. ViewDoes
      BY <1>0, <1>20, ViewLemma DEF surfaceCreated
    <2> QED
      <3>1. /\ uiPc = "idle" /\ uiPc' = Left(o)
            /\ UNCHANGED <<data, life, granted, held>>
        BY <1>20 DEF surfaceCreated
      <3> QED
        BY <1>0, <2>1, <3>1, LeftFacts DEF ControlInv, ThreadServesCamera, DataOK, ViewDoes
  <1>21. ASSUME NEW o \in ViewOutcomes, onLayout(o) PROVE ControlInv'
    <2>1. ViewDoes
      BY <1>0, <1>21, ViewLemma DEF onLayout
    <2> QED
      <3>1. /\ uiPc = "idle" /\ uiPc' = Left(o)
            /\ UNCHANGED <<data, life, granted, held>>
        BY <1>21 DEF onLayout
      <3> QED
        BY <1>0, <2>1, <3>1, LeftFacts DEF ControlInv, ThreadServesCamera, DataOK, ViewDoes
  <1>22. CASE surfaceDestroyed
    BY <1>0, <1>22 DEF ControlInv, ThreadServesCamera, DataOK, surfaceDestroyed
  <1> QED
    BY <1>1, <1>2, <1>3, <1>4, <1>5, <1>6, <1>7, <1>8, <1>9, <1>10, <1>11,
       <1>12, <1>13, <1>14, <1>15, <1>16, <1>17, <1>18, <1>19, <1>20, <1>21, <1>22
    DEF Next, ThreadStep, HandlerStopped

(* Every step keeps the types of buffers and numbers.                      *)
LEMMA DataStep ==
    ASSUME IInv, Next
    PROVE  DataOK'
  <1>0. DataOK /\ ControlInv
    BY TypeParts DEF IInv
  <1>1. CASE ThreadLoop
    BY <1>0, <1>1, BufferFacts DEF DataOK, ControlInv, ThreadLoop
  <1>2. CASE ProcessFrame
    BY <1>0, <1>2, BufferFacts DEF DataOK, ControlInv, ProcessFrame
  <1>3. CASE ReturnBuffer
    BY <1>0, <1>3, BufferFacts DEF DataOK, ControlInv, ReturnBuffer
  <1>4. CASE PauseStopped
    BY <1>0, <1>4, BufferFacts DEF DataOK, ControlInv, PauseStopped, Joined, Closed
  <1>5. CASE DestroyStopped
    BY <1>0, <1>5, BufferFacts DEF DataOK, ControlInv, DestroyStopped, Joined, Closed
  <1>6. ASSUME NEW o \in Outcomes, SelectStopped(o) PROVE DataOK'
    <2>1. PICK has \in BOOLEAN, overlay \in {Nothing, shown} :
                StartDoes(has, overlay) /\ (has <=> granted)
      BY <1>0, <1>6, SelectLemma
    <2>2. /\ pendingFrameData' \in {pendingFrameData, NoBuffer}
          /\ frameProcessor' \in 0..MaxProcessors /\ made' \in 0..MaxProcessors
      BY <1>0, <1>6, SelectLemma DEF CreateDoes
    <2>3. /\ camera' \in 0..MaxOpens /\ opens' \in 0..MaxOpens
          /\ queued' \subseteq Buffers /\ posted' \subseteq Buffers
      BY <1>0, <2>1, BufferFacts DEF DataOK, StartDoes
    <2> QED
      BY <1>0, <1>6, <2>2, <2>3 DEF DataOK, SelectStopped
  <1>7. ASSUME NEW o \in Outcomes, ToggleStopped(o) PROVE DataOK'
    <2>1. StartDoes(held, shown)
      BY <1>0, <1>7, StartLemma DEF ToggleStopped
    <2> QED
      BY <1>0, <1>7, <2>1, BufferFacts DEF DataOK, ControlInv, ToggleStopped, Joined, StartDoes
  <1>8. ASSUME NEW b \in Buffers, CameraFills(b) PROVE DataOK'
    BY <1>0, <1>8, BufferFacts DEF DataOK, ControlInv, CameraFills
  <1>9. ASSUME NEW b \in Buffers, onPreviewFrame(b) PROVE DataOK'
    BY <1>0, <1>9, NotifiedFacts, BufferFacts DEF DataOK, ControlInv, onPreviewFrame,
       setNextFrame, bytesToByteBuffer
  <1>10. ASSUME NEW p \in Processors, DetectionEnds(p) PROVE DataOK'
    BY <1>0, <1>10, BufferFacts DEF DataOK, ControlInv, DetectionEnds
  <1>11. CASE onCreate
    BY <1>0, <1>11, NewSourceLemma, BufferFacts DEF DataOK, ControlInv, onCreate, CreateDoes
  <1>12. CASE onResumeOpen
    BY <1>0, <1>12, BufferFacts DEF DataOK, ControlInv, onResumeOpen
  <1>13. CASE onPause
    BY <1>0, <1>13, NotifiedFacts, BufferFacts DEF DataOK, ControlInv, onPause, StopIn
  <1>14. CASE onItemSelected
    BY <1>0, <1>14, NotifiedFacts, BufferFacts DEF DataOK, ControlInv, onItemSelected, StopIn
  <1>15. CASE onCheckedChanged
    BY <1>0, <1>15, NotifiedFacts, BufferFacts DEF DataOK, ControlInv, onCheckedChanged, StopIn
  <1>16. CASE onDestroy
    BY <1>0, <1>16, NotifiedFacts, BufferFacts DEF DataOK, ControlInv, onDestroy, StopIn
  <1>17. CASE onDestroyWithoutSource
    BY <1>0, <1>17, BufferFacts DEF DataOK, ControlInv, onDestroyWithoutSource
  <1>18. ASSUME NEW m \in Models, onRequestPermissionsResult(m) PROVE DataOK'
    BY <1>0, <1>18, NewSourceLemma, BufferFacts DEF DataOK, ControlInv,
       onRequestPermissionsResult, CreateDoes
  <1>19. ASSUME NEW o \in Outcomes, onResume(o) PROVE DataOK'
    <2>1. StartDoes(held, shown)
      BY <1>0, <1>19, StartLemma DEF onResume
    <2> QED
      BY <1>0, <1>19, <2>1, BufferFacts DEF DataOK, ControlInv, onResume, StartDoes
  <1>20. ASSUME NEW o \in ViewOutcomes, surfaceCreated(o) PROVE DataOK'
    <2>1. ViewDoes
      BY <1>0, <1>20, ViewLemma DEF surfaceCreated
    <2> QED
      BY <1>0, <1>20, <2>1, BufferFacts DEF DataOK, ControlInv, surfaceCreated, ViewDoes
  <1>21. ASSUME NEW o \in ViewOutcomes, onLayout(o) PROVE DataOK'
    <2>1. ViewDoes
      BY <1>0, <1>21, ViewLemma DEF onLayout
    <2> QED
      BY <1>0, <1>21, <2>1, BufferFacts DEF DataOK, ControlInv, onLayout, ViewDoes
  <1>22. CASE surfaceDestroyed
    BY <1>0, <1>22, BufferFacts DEF DataOK, ControlInv, surfaceDestroyed
  <1> QED
    BY <1>1, <1>2, <1>3, <1>4, <1>5, <1>6, <1>7, <1>8, <1>9, <1>10, <1>11,
       <1>12, <1>13, <1>14, <1>15, <1>16, <1>17, <1>18, <1>19, <1>20, <1>21, <1>22
    DEF Next, ThreadStep, HandlerStopped

(* Every step keeps the truth values.                                      *)
LEMMA FlagsStep ==
    ASSUME IInv, Next
    PROVE  FlagsOK'
  <1>0. FlagsOK
    BY TypeParts DEF IInv
  <1>1. CASE ThreadLoop
    BY <1>0, <1>1, Zenon DEF FlagsOK, ThreadLoop
  <1>2. CASE ProcessFrame
    BY <1>0, <1>2, Zenon DEF FlagsOK, ProcessFrame
  <1>3. CASE ReturnBuffer
    BY <1>0, <1>3, Zenon DEF FlagsOK, ReturnBuffer
  <1>4. CASE PauseStopped
    BY <1>0, <1>4, Zenon DEF FlagsOK, PauseStopped, Joined, Closed
  <1>5. CASE DestroyStopped
    BY <1>0, <1>5, Zenon DEF FlagsOK, DestroyStopped, Joined, Closed
  <1>6. ASSUME NEW o \in Outcomes, SelectStopped(o) PROVE FlagsOK'
    BY <1>0, <1>6, StartFlags DEF FlagsOK, SelectStopped
  <1>7. ASSUME NEW o \in Outcomes, ToggleStopped(o) PROVE FlagsOK'
    BY <1>0, <1>7, StartFlags DEF FlagsOK, ToggleStopped
  <1>8. ASSUME NEW b \in Buffers, CameraFills(b) PROVE FlagsOK'
    BY <1>0, <1>8, Zenon DEF FlagsOK, CameraFills
  <1>9. ASSUME NEW b \in Buffers, onPreviewFrame(b) PROVE FlagsOK'
    BY <1>0, <1>9, NotifiedFacts, Zenon DEF FlagsOK, onPreviewFrame, setNextFrame,
       bytesToByteBuffer
  <1>10. ASSUME NEW p \in Processors, DetectionEnds(p) PROVE FlagsOK'
    BY <1>0, <1>10, Zenon DEF FlagsOK, DetectionEnds
  <1>11. CASE onCreate
    BY <1>0, <1>11, NewSourceLemma, Zenon DEF FlagsOK, onCreate, CreateDoes
  <1>12. CASE onResumeOpen
    BY <1>0, <1>12, Zenon DEF FlagsOK, onResumeOpen
  <1>13. CASE onPause
    BY <1>0, <1>13, NotifiedFacts, Zenon DEF FlagsOK, onPause, StopIn
  <1>14. CASE onItemSelected
    BY <1>0, <1>14, NotifiedFacts, Zenon DEF FlagsOK, onItemSelected, StopIn
  <1>15. CASE onCheckedChanged
    BY <1>0, <1>15, NotifiedFacts, Zenon DEF FlagsOK, onCheckedChanged, StopIn
  <1>16. CASE onDestroy
    BY <1>0, <1>16, NotifiedFacts, Zenon DEF FlagsOK, onDestroy, StopIn
  <1>17. CASE onDestroyWithoutSource
    BY <1>0, <1>17, Zenon DEF FlagsOK, onDestroyWithoutSource
  <1>18. ASSUME NEW m \in Models, onRequestPermissionsResult(m) PROVE FlagsOK'
    BY <1>0, <1>18, NewSourceLemma, Zenon DEF FlagsOK, onRequestPermissionsResult, CreateDoes
  <1>19. ASSUME NEW o \in Outcomes, onResume(o) PROVE FlagsOK'
    BY <1>0, <1>19, StartFlags DEF FlagsOK, onResume
  <1>20. ASSUME NEW o \in ViewOutcomes, surfaceCreated(o) PROVE FlagsOK'
    BY <1>0, <1>20, ViewFlags DEF FlagsOK, surfaceCreated
  <1>21. ASSUME NEW o \in ViewOutcomes, onLayout(o) PROVE FlagsOK'
    BY <1>0, <1>21, ViewFlags DEF FlagsOK, onLayout
  <1>22. CASE surfaceDestroyed
    BY <1>0, <1>22, Zenon DEF FlagsOK, surfaceDestroyed
  <1> QED
    BY <1>1, <1>2, <1>3, <1>4, <1>5, <1>6, <1>7, <1>8, <1>9, <1>10, <1>11,
       <1>12, <1>13, <1>14, <1>15, <1>16, <1>17, <1>18, <1>19, <1>20, <1>21, <1>22
    DEF Next, ThreadStep, HandlerStopped

(* Every step keeps the types of the processors.                           *)
LEMMA ProcessorTypeStep ==
    ASSUME IInv, Next
    PROVE  ProcessorTypeOK'
  <1>0. ProcessorTypeOK /\ DataOK /\ ControlInv
    BY TypeParts DEF IInv
  <1>1. CASE ThreadLoop
    BY <1>0, <1>1, NothingFact DEF ProcessorTypeOK, ThreadLoop
  <1>2. CASE ProcessFrame
    <2>0. custom' = custom
      BY <1>2 DEF ProcessFrame
    <2>1. CASE UNCHANGED processorVars
      BY <1>0, <2>0, <2>1 DEF ProcessorTypeOK
    <2>2. ASSUME NEW p \in Processors, NEW image \in Images, HandsIn(p, image)
          PROVE  ProcessorTypeOK'
      <3>1. shown' = shown
        BY <2>2 DEF HandsIn
      <3>2. CASE ProcessLatest(p, image)
        BY <1>0, <2>0, <3>1, <3>2, LatestTypes DEF ProcessorTypeOK
      <3>3. CASE Keep(p, image)
        BY <1>0, <2>0, <3>1, <3>3 DEF Keep, ProcessorTypeOK
      <3>4. CASE classifyFrame(p, image)
        <4>1. Detection(image) \in Detections /\ image.frame \in 0..MaxFrames
          BY <1>0, DetectionFacts
        <4> QED
          BY <1>0, <2>0, <3>1, <3>4, <4>1 DEF classifyFrame, ProcessorTypeOK
      <3> QED
        BY <2>2, <3>2, <3>3, <3>4 DEF HandsIn
    <2> QED
      BY <1>2, <2>1, <2>2, FrameCases
  <1>3. CASE ReturnBuffer
    BY <1>0, <1>3, NothingFact DEF ProcessorTypeOK, ReturnBuffer
  <1>4. CASE PauseStopped
    BY <1>0, <1>4, NothingFact DEF ProcessorTypeOK, PauseStopped, Joined, Closed
  <1>5. CASE DestroyStopped
    BY <1>0, <1>5, NothingFact DEF ProcessorTypeOK, DestroyStopped, Joined, Closed
  <1>6. ASSUME NEW o \in Outcomes, SelectStopped(o) PROVE ProcessorTypeOK'
    <2>1. PICK has \in BOOLEAN, overlay \in {Nothing, shown} :
                StartDoes(has, overlay) /\ (has <=> granted)
      BY <1>0, <1>6, SelectLemma
    <2>2. custom' \subseteq Processors
      BY <1>0, <1>6, SelectLemma DEF CreateDoes, ProcessorTypeOK
    <2> QED
      BY <1>0, <1>6, <2>1, <2>2, NothingFact DEF ProcessorTypeOK, SelectStopped, StartDoes
  <1>7. ASSUME NEW o \in Outcomes, ToggleStopped(o) PROVE ProcessorTypeOK'
    <2>1. StartDoes(held, shown)
      BY <1>0, <1>7, StartLemma DEF ToggleStopped
    <2> QED
      BY <1>0, <1>7, <2>1, NothingFact DEF ProcessorTypeOK, ToggleStopped, Joined, StartDoes
  <1>8. ASSUME NEW b \in Buffers, CameraFills(b) PROVE ProcessorTypeOK'
    BY <1>0, <1>8, NothingFact DEF ProcessorTypeOK, CameraFills
  <1>9. ASSUME NEW b \in Buffers, onPreviewFrame(b) PROVE ProcessorTypeOK'
    BY <1>0, <1>9, NotifiedFacts, NothingFact DEF ProcessorTypeOK, onPreviewFrame,
       setNextFrame, bytesToByteBuffer
  <1>10. ASSUME NEW p \in Processors, DetectionEnds(p) PROVE ProcessorTypeOK'
    <2>0. custom' = custom
      BY <1>10 DEF DetectionEnds
    <2>1. PICK d \in detections[p] : onSuccess(p, d) \/ onFailure(p, d) \/ onClassified(p, d)
      BY <1>10 DEF DetectionEnds
    <2>2. /\ d \in Detections /\ d.seen \in 0..MaxFrames /\ contents[d.buf] \in 0..MaxFrames
          /\ p \in 0..MaxProcessors
      BY <1>0 DEF ProcessorTypeOK, DataOK, Detections, Processors
    <2>3. CASE onSuccess(p, d)
      <3>1. latestImage[p] \in Images \cup {NoImage} /\ ProcessLatest(p, latestImage[p])
        BY <1>0, <2>3 DEF ProcessorTypeOK, onSuccess
      <3>2. PICK results \in d.seen .. contents[d.buf] : shown' = <<p, results, d.seen>>
        BY <2>3 DEF onSuccess
      <3>3. results \in 0..MaxFrames
        BY <2>2
      <3> QED
        BY <1>0, <2>0, <2>2, <3>1, <3>2, <3>3, LatestTypes DEF ProcessorTypeOK
    <2>4. CASE onFailure(p, d)
      BY <1>0, <2>0, <2>4 DEF onFailure, ProcessorTypeOK
    <2>5. CASE onClassified(p, d)
      BY <1>0, <2>0, <2>2, <2>5 DEF onClassified, ProcessorTypeOK
    <2> QED
      BY <2>1, <2>3, <2>4, <2>5
  <1>11. CASE onCreate
    BY <1>0, <1>11, NewSourceLemma, NothingFact DEF ProcessorTypeOK, onCreate, CreateDoes
  <1>12. CASE onResumeOpen
    BY <1>0, <1>12, NothingFact DEF ProcessorTypeOK, onResumeOpen
  <1>13. CASE onPause
    BY <1>0, <1>13, NotifiedFacts, NothingFact DEF ProcessorTypeOK, onPause, StopIn
  <1>14. CASE onItemSelected
    BY <1>0, <1>14, NotifiedFacts, NothingFact DEF ProcessorTypeOK, onItemSelected, StopIn
  <1>15. CASE onCheckedChanged
    BY <1>0, <1>15, NotifiedFacts, NothingFact DEF ProcessorTypeOK, onCheckedChanged, StopIn
  <1>16. CASE onDestroy
    BY <1>0, <1>16, NotifiedFacts, NothingFact DEF ProcessorTypeOK, onDestroy, StopIn
  <1>17. CASE onDestroyWithoutSource
    BY <1>0, <1>17, NothingFact DEF ProcessorTypeOK, onDestroyWithoutSource
  <1>18. ASSUME NEW m \in Models, onRequestPermissionsResult(m) PROVE ProcessorTypeOK'
    BY <1>0, <1>18, NewSourceLemma, NothingFact DEF ProcessorTypeOK,
       onRequestPermissionsResult, CreateDoes
  <1>19. ASSUME NEW o \in Outcomes, onResume(o) PROVE ProcessorTypeOK'
    <2>1. StartDoes(held, shown)
      BY <1>0, <1>19, StartLemma DEF onResume
    <2> QED
      BY <1>0, <1>19, <2>1, NothingFact DEF ProcessorTypeOK, onResume, StartDoes
  <1>20. ASSUME NEW o \in ViewOutcomes, surfaceCreated(o) PROVE ProcessorTypeOK'
    <2>1. ViewDoes
      BY <1>0, <1>20, ViewLemma DEF surfaceCreated
    <2> QED
      BY <1>0, <1>20, <2>1, NothingFact DEF ProcessorTypeOK, surfaceCreated, ViewDoes
  <1>21. ASSUME NEW o \in ViewOutcomes, onLayout(o) PROVE ProcessorTypeOK'
    <2>1. ViewDoes
      BY <1>0, <1>21, ViewLemma DEF onLayout
    <2> QED
      BY <1>0, <1>21, <2>1, NothingFact DEF ProcessorTypeOK, onLayout, ViewDoes
  <1>22. CASE surfaceDestroyed
    BY <1>0, <1>22, NothingFact DEF ProcessorTypeOK, surfaceDestroyed
  <1> QED
    BY <1>1, <1>2, <1>3, <1>4, <1>5, <1>6, <1>7, <1>8, <1>9, <1>10, <1>11,
       <1>12, <1>13, <1>14, <1>15, <1>16, <1>17, <1>18, <1>19, <1>20, <1>21, <1>22
    DEF Next, ThreadStep, HandlerStopped

(* Every step keeps account of the buffers.                                *)
LEMMA BufferStep ==
    ASSUME IInv, Next
    PROVE  BufferInv'
  <1>0. DataOK /\ ControlInv /\ BufferInv /\ DataOK' /\ ThreadServesCamera
    BY TypeParts, DataStep DEF IInv, ControlInv
  <1>1. CASE ThreadLoop
    BY <1>0, <1>1, BufferFacts DEF BufferInv, BuffersKept, OneForeignBuffer, Around, DataOK,
       ControlInv, ThreadLoop
  <1>2. CASE ProcessFrame
    BY <1>0, <1>2, BufferFacts DEF BufferInv, BuffersKept, OneForeignBuffer, Around, DataOK,
       ControlInv, ProcessFrame
  <1>3. CASE ReturnBuffer
    BY <1>0, <1>3, BufferFacts DEF BufferInv, BuffersKept, OneForeignBuffer, Around, DataOK,
       ControlInv, ReturnBuffer
  <1>4. CASE PauseStopped
    BY <1>0, <1>4, BufferFacts DEF BufferInv, BuffersKept, OneForeignBuffer, Around, DataOK,
       ControlInv, PauseStopped, Joined, Closed
  <1>5. CASE DestroyStopped
    BY <1>0, <1>5, BufferFacts DEF BufferInv, BuffersKept, OneForeignBuffer, Around, DataOK,
       ControlInv, DestroyStopped, Joined, Closed
  <1>6. ASSUME NEW o \in Outcomes, SelectStopped(o) PROVE BufferInv'
    <2>1. PICK has \in BOOLEAN, overlay \in {Nothing, shown} :
                StartDoes(has, overlay) /\ (has <=> granted)
      BY <1>0, <1>6, SelectLemma
    <2>2. pendingFrameData' \in {pendingFrameData, NoBuffer}
      BY <1>0, <1>6, SelectLemma DEF CreateDoes
    <2>3. procPc = "none" /\ data' = data /\ data = NoBuffer
      BY <1>0, <1>6 DEF ControlInv, SelectStopped, Joined
    <2> QED
      BY <1>0, <2>1, <2>2, <2>3, BufferFacts
      DEF BufferInv, BuffersKept, OneForeignBuffer, Around, DataOK, StartDoes
  <1>7. ASSUME NEW o \in Outcomes, ToggleStopped(o) PROVE BufferInv'
    <2>1. StartDoes(held, shown)
      BY <1>0, <1>7, StartLemma DEF ToggleStopped
    <2> QED
      BY <1>0, <1>7, <2>1, BufferFacts DEF BufferInv, BuffersKept, OneForeignBuffer, Around,
         DataOK, ControlInv, ToggleStopped, Joined, StartDoes
  <1>8. ASSUME NEW b \in Buffers, CameraFills(b) PROVE BufferInv'
    BY <1>0, <1>8, BufferFacts DEF BufferInv, BuffersKept, OneForeignBuffer, Around, DataOK,
       ControlInv, CameraFills
  <1>9. ASSUME NEW b \in Buffers, onPreviewFrame(b) PROVE BufferInv'
    BY <1>0, <1>9, NotifiedFacts, BufferFacts DEF BufferInv, BuffersKept, OneForeignBuffer,
       Around, DataOK, ControlInv, onPreviewFrame, setNextFrame, bytesToByteBuffer
  <1>10. ASSUME NEW p \in Processors, DetectionEnds(p) PROVE BufferInv'
    BY <1>0, <1>10, BufferFacts DEF BufferInv, BuffersKept, OneForeignBuffer, Around, DataOK,
       ControlInv, DetectionEnds
  <1>11. CASE onCreate
    <2>1. pendingFrameData' \in {pendingFrameData, NoBuffer}
      BY <1>0, <1>11, NewSourceLemma DEF CreateDoes
    <2>2. UNCHANGED <<camera, opens, queued, posted, data>> /\ camera = 0
      BY <1>11 DEF onCreate, cameraVars
    <2> QED
      BY <1>0, <2>1, <2>2, BufferFacts DEF BufferInv, BuffersKept, OneForeignBuffer, Around,
         DataOK
  <1>12. CASE onResumeOpen
    BY <1>0, <1>12, BufferFacts DEF BufferInv, BuffersKept, OneForeignBuffer, Around, DataOK,
       ControlInv, onResumeOpen
  <1>13. CASE onPause
    BY <1>0, <1>13, NotifiedFacts, BufferFacts DEF BufferInv, BuffersKept, OneForeignBuffer,
       Around, DataOK, ControlInv, onPause, StopIn
  <1>14. CASE onItemSelected
    BY <1>0, <1>14, NotifiedFacts, BufferFacts DEF BufferInv, BuffersKept, OneForeignBuffer,
       Around, DataOK, ControlInv, onItemSelected, StopIn
  <1>15. CASE onCheckedChanged
    BY <1>0, <1>15, NotifiedFacts, BufferFacts DEF BufferInv, BuffersKept, OneForeignBuffer,
       Around, DataOK, ControlInv, onCheckedChanged, StopIn
  <1>16. CASE onDestroy
    BY <1>0, <1>16, NotifiedFacts, BufferFacts DEF BufferInv, BuffersKept, OneForeignBuffer,
       Around, DataOK, ControlInv, onDestroy, StopIn
  <1>17. CASE onDestroyWithoutSource
    BY <1>0, <1>17, BufferFacts DEF BufferInv, BuffersKept, OneForeignBuffer, Around, DataOK,
       ControlInv, onDestroyWithoutSource
  <1>18. ASSUME NEW m \in Models, onRequestPermissionsResult(m) PROVE BufferInv'
    BY <1>0, <1>18, NewSourceLemma, BufferFacts DEF BufferInv, BuffersKept,
       OneForeignBuffer, Around, DataOK,
       ControlInv, onRequestPermissionsResult, CreateDoes
  <1>19. ASSUME NEW o \in Outcomes, onResume(o) PROVE BufferInv'
    <2>1. StartDoes(held, shown)
      BY <1>0, <1>19, StartLemma DEF onResume
    <2> QED
      BY <1>0, <1>19, <2>1, BufferFacts DEF BufferInv, BuffersKept, OneForeignBuffer, Around,
         DataOK, ControlInv, onResume, StartDoes
  <1>20. ASSUME NEW o \in ViewOutcomes, surfaceCreated(o) PROVE BufferInv'
    <2>1. ViewDoes
      BY <1>0, <1>20, ViewLemma DEF surfaceCreated
    <2> QED
      BY <1>0, <1>20, <2>1, BufferFacts DEF BufferInv, BuffersKept, OneForeignBuffer, Around,
         DataOK, ControlInv, surfaceCreated, ViewDoes
  <1>21. ASSUME NEW o \in ViewOutcomes, onLayout(o) PROVE BufferInv'
    <2>1. ViewDoes
      BY <1>0, <1>21, ViewLemma DEF onLayout
    <2> QED
      BY <1>0, <1>21, <2>1, BufferFacts DEF BufferInv, BuffersKept, OneForeignBuffer, Around,
         DataOK, ControlInv, onLayout, ViewDoes
  <1>22. CASE surfaceDestroyed
    BY <1>0, <1>22, BufferFacts DEF BufferInv, BuffersKept, OneForeignBuffer, Around, DataOK,
       ControlInv, surfaceDestroyed
  <1> QED
    BY <1>1, <1>2, <1>3, <1>4, <1>5, <1>6, <1>7, <1>8, <1>9, <1>10, <1>11,
       <1>12, <1>13, <1>14, <1>15, <1>16, <1>17, <1>18, <1>19, <1>20, <1>21, <1>22
    DEF Next, ThreadStep, HandlerStopped

(* Every step keeps the images of a processor in order.                    *)
LEMMA ProcessorStep ==
    ASSUME IInv, Next
    PROVE  ProcessorInv'
  <1>0. TypeOK /\ ProcessorTypeOK /\ DataOK /\ PlacesOK /\ ControlInv
        /\ BufferInv /\ ProcessorInv /\ OrderInv /\ MadeInv
    BY TypeParts DEF IInv
  <1>1. CASE ThreadLoop
    BY <1>0, <1>1 DEF ProcessorInv, DataOK, ProcessorTypeOK, ThreadLoop
  <1>2. CASE ProcessFrame
    <2>0. UNCHANGED <<captured, contents, custom>>
      BY <1>2 DEF ProcessFrame
    <2>1. CASE UNCHANGED processorVars
      BY <1>0, <2>0, <2>1 DEF ProcessorInv
    <2>2. ASSUME NEW p \in Processors, NEW image \in Images, HandsIn(p, image)
          PROVE  ProcessorInv'
      <3>1. /\ begun[p] < image.frame /\ image.frame <= captured
            /\ image.frame = contents[image.buf] /\ image.frame \in Nat
            /\ image # NoImage
        BY <1>0, <2>2, DetectionFacts, NoImageFact DEF HandsIn
      <3>2. CASE ProcessLatest(p, image)
        BY <1>0, <2>0, <3>1, <3>2, LatestInv
      <3>3. CASE p \notin custom /\ Keep(p, image)
        <4>1. /\ latestImage'[p] = image
              /\ \A q \in Processors : q # p => latestImage'[q] = latestImage[q]
              /\ UNCHANGED <<processingImage, detections, begun>>
          BY <1>0, <3>3 DEF Keep, ProcessorTypeOK
        <4> QED
          BY <1>0, <2>0, <3>1, <3>3, <4>1 DEF ProcessorInv
      <3>4. CASE p \in custom /\ classifyFrame(p, image)
        BY <1>0, <2>0, <3>1, <3>4, ClassifyInv
      <3> QED
        BY <2>2, <3>2, <3>3, <3>4 DEF HandsIn
    <2> QED
      BY <1>2, <2>1, <2>2, FrameCases
  <1>3. CASE ReturnBuffer
    BY <1>0, <1>3 DEF ProcessorInv, DataOK, ProcessorTypeOK, ReturnBuffer
  <1>4. CASE PauseStopped
    BY <1>0, <1>4 DEF ProcessorInv, DataOK, ProcessorTypeOK, PauseStopped, Joined, Closed
  <1>5. CASE DestroyStopped
    BY <1>0, <1>5 DEF ProcessorInv, DataOK, ProcessorTypeOK, DestroyStopped, Joined, Closed
  <1>6. ASSUME NEW o \in Outcomes, SelectStopped(o) PROVE ProcessorInv'
    <2>1. CreateDoes /\ UNCHANGED <<contents, captured, latestImage, processingImage, detections,
                                   begun>>
      BY <1>0, <1>6, SelectLemma DEF SelectStopped
    <2> QED
      BY <1>0, <2>1, MakeInv
  <1>7. ASSUME NEW o \in Outcomes, ToggleStopped(o) PROVE ProcessorInv'
    BY <1>0, <1>7 DEF ProcessorInv, DataOK, ProcessorTypeOK, ToggleStopped
  <1>8. ASSUME NEW b \in Buffers, CameraFills(b) PROVE ProcessorInv'
    <2>1. captured \in Nat /\ captured' = captured + 1
          /\ contents' = [contents EXCEPT ![b] = captured + 1]
          /\ UNCHANGED <<custom, latestImage, processingImage, detections, begun>>
      BY <1>0, <1>8 DEF DataOK, CameraFills
    <2>2. \A c \in Buffers : contents[c] \in Nat /\ contents[c] <= contents'[c]
      BY <1>0, <2>1 DEF DataOK, OrderInv
    <2>3. \A p \in Processors : begun[p] \in Nat /\ latestImage[p].frame \in Nat
      BY <1>0, FrameNumbers
    <2>4. \A p \in Processors :
             latestImage[p] # NoImage =>
                latestImage[p].buf \in Buffers /\ contents[latestImage[p].buf] \in Nat
      BY <1>0, <2>2 DEF ProcessorTypeOK, Images
    <2>5. \A p \in Processors : \A d \in detections[p] : d.buf \in Buffers /\ d.seen \in Nat
      BY <1>0 DEF ProcessorTypeOK, Detections
    <2>6. \A p \in Processors : begun[p] <= captured' /\ latestImage[p].frame <= captured'
      <3>1. \A p \in Processors : begun[p] <= captured /\ latestImage[p].frame <= captured
        BY <1>0 DEF ProcessorInv
      <3> QED
        BY <2>1, <2>3, <3>1
    <2>7. \A c \in Buffers : contents'[c] \in Nat
      BY <1>0, <2>1 DEF DataOK
    <2>8. \A p \in Processors :
             latestImage[p] # NoImage =>
                latestImage[p].frame <= contents'[latestImage[p].buf]
      <3>1. \A p \in Processors :
               latestImage[p] # NoImage =>
                  latestImage[p].frame <= contents[latestImage[p].buf]
        BY <1>0 DEF ProcessorInv
      <3> QED
        BY <2>2, <2>3, <2>4, <2>7, <3>1
    <2>9. \A p \in Processors : \A d \in detections[p] : d.seen <= contents'[d.buf]
      <3>1. \A p \in Processors : \A d \in detections[p] : d.seen <= contents[d.buf]
        BY <1>0 DEF ProcessorInv
      <3> QED
        BY <2>2, <2>5, <2>7, <3>1
    <2> QED
      BY <1>0, <2>1, <2>6, <2>8, <2>9 DEF ProcessorInv
  <1>9. ASSUME NEW b \in Buffers, onPreviewFrame(b) PROVE ProcessorInv'
    BY <1>0, <1>9, NotifiedFacts DEF ProcessorInv, DataOK, ProcessorTypeOK, onPreviewFrame,
       setNextFrame, bytesToByteBuffer
  <1>10. ASSUME NEW p \in Processors, DetectionEnds(p) PROVE ProcessorInv'
    <2>0. UNCHANGED <<captured, contents, custom>>
      BY <1>10 DEF DetectionEnds
    <2>1. PICK d \in detections[p] : onSuccess(p, d) \/ onFailure(p, d) \/ onClassified(p, d)
      BY <1>10 DEF DetectionEnds
    <2>2. CASE onSuccess(p, d)
      <3>1. latestImage[p] \in Images \cup {NoImage} /\ ProcessLatest(p, latestImage[p])
        BY <1>0, <2>2 DEF ProcessorTypeOK, onSuccess
      <3>2. latestImage[p] # NoImage =>
                /\ begun[p] < latestImage[p].frame /\ latestImage[p].frame <= captured
                /\ latestImage[p].frame <= contents[latestImage[p].buf]
        BY <1>0 DEF ProcessorInv
      <3> QED
        BY <1>0, <2>0, <3>1, <3>2, LatestInv
    <2>3. CASE onFailure(p, d)
      BY <1>0, <2>0, <2>3, OverInv DEF onFailure
    <2>4. CASE onClassified(p, d)
      BY <1>0, <2>0, <2>4, OverInv DEF onClassified
    <2> QED
      BY <2>1, <2>2, <2>3, <2>4
  <1>11. CASE onCreate
    <2>1. CreateDoes /\ UNCHANGED <<contents, captured, latestImage, processingImage, detections,
                                   begun>>
      BY <1>0, <1>11, NewSourceLemma DEF onCreate
    <2> QED
      BY <1>0, <2>1, MakeInv
  <1>12. CASE onResumeOpen
    BY <1>0, <1>12 DEF ProcessorInv, DataOK, ProcessorTypeOK, onResumeOpen
  <1>13. CASE onPause
    BY <1>0, <1>13, NotifiedFacts DEF ProcessorInv, DataOK, ProcessorTypeOK, onPause, StopIn
  <1>14. CASE onItemSelected
    BY <1>0, <1>14, NotifiedFacts DEF ProcessorInv, DataOK, ProcessorTypeOK, onItemSelected,
       StopIn
  <1>15. CASE onCheckedChanged
    BY <1>0, <1>15, NotifiedFacts DEF ProcessorInv, DataOK, ProcessorTypeOK, onCheckedChanged,
       StopIn
  <1>16. CASE onDestroy
    BY <1>0, <1>16, NotifiedFacts DEF ProcessorInv, DataOK, ProcessorTypeOK, onDestroy, StopIn
  <1>17. CASE onDestroyWithoutSource
    BY <1>0, <1>17 DEF ProcessorInv, DataOK, ProcessorTypeOK, onDestroyWithoutSource
  <1>18. ASSUME NEW m \in Models, onRequestPermissionsResult(m) PROVE ProcessorInv'
    <2>1. CreateDoes /\ UNCHANGED <<contents, captured, latestImage, processingImage, detections,
                                   begun>>
      BY <1>0, <1>18, NewSourceLemma DEF onRequestPermissionsResult
    <2> QED
      BY <1>0, <2>1, MakeInv
  <1>19. ASSUME NEW o \in Outcomes, onResume(o) PROVE ProcessorInv'
    BY <1>0, <1>19 DEF ProcessorInv, DataOK, ProcessorTypeOK, onResume
  <1>20. ASSUME NEW o \in ViewOutcomes, surfaceCreated(o) PROVE ProcessorInv'
    BY <1>0, <1>20 DEF ProcessorInv, DataOK, ProcessorTypeOK, surfaceCreated
  <1>21. ASSUME NEW o \in ViewOutcomes, onLayout(o) PROVE ProcessorInv'
    BY <1>0, <1>21 DEF ProcessorInv, DataOK, ProcessorTypeOK, onLayout
  <1>22. CASE surfaceDestroyed
    BY <1>0, <1>22 DEF ProcessorInv, DataOK, ProcessorTypeOK, surfaceDestroyed
  <1> QED
    BY <1>1, <1>2, <1>3, <1>4, <1>5, <1>6, <1>7, <1>8, <1>9, <1>10, <1>11,
       <1>12, <1>13, <1>14, <1>15, <1>16, <1>17, <1>18, <1>19, <1>20, <1>21, <1>22
    DEF Next, ThreadStep, HandlerStopped

(* Every step hands frames on in the order of capture.                     *)
LEMMA OrderStep ==
    ASSUME IInv, Next
    PROVE  OrderInv'
  <1>0. TypeOK /\ ProcessorTypeOK /\ DataOK /\ PlacesOK /\ ControlInv
        /\ BufferInv /\ ProcessorInv /\ OrderInv /\ MadeInv
    BY TypeParts DEF IInv
  <1>1. CASE ThreadLoop
    BY <1>0, <1>1, BufferFacts DEF OrderInv, Fresh, DataOK, ControlInv, ProcessorTypeOK,
       ThreadLoop
  <1>2. CASE ProcessFrame
    <2>1. procPc = "want" /\ data \in Buffers /\ contents[data] \in 0..MaxFrames
          /\ captured' = captured
      BY <1>0, <1>2 DEF DataOK, ControlInv, ProcessFrame
    <2>2. CASE UNCHANGED processorVars
      BY <1>0, <1>2, <2>2 DEF ProcessFrame, OrderInv, Fresh
    <2>3. ASSUME NEW p \in Processors, NEW image \in Images, HandsIn(p, image)
          PROVE  OrderInv'
      <3>1. image.frame = contents[data]
        BY <2>3 DEF HandsIn
      <3>2. \A q \in Processors :
               /\ begun'[q] \in {begun[q], contents[data]}
               /\ latestImage'[q].frame \in {latestImage[q].frame, contents[data], 0}
        <4>1. CASE ProcessLatest(p, image)
          BY <1>0, <3>1, <4>1, LatestMoves
        <4>2. CASE Keep(p, image)
          BY <1>0, <3>1, <4>2 DEF Keep, ProcessorTypeOK
        <4>3. CASE classifyFrame(p, image)
          BY <1>0, <3>1, <4>3 DEF classifyFrame, ProcessorTypeOK
        <4> QED
          BY <2>3, <4>1, <4>2, <4>3 DEF HandsIn
      <3>3. \A q \in Processors : begun[q] \in Nat /\ latestImage[q].frame \in Nat
        BY <1>0, FrameNumbers
      <3>4. ASSUME NEW f \in Nat, Fresh(f), contents[data] < f
            PROVE  \A q \in Processors : begun'[q] < f /\ latestImage'[q].frame < f
        BY <2>1, <3>2, <3>3, <3>4 DEF Fresh
      <3>5. /\ pendingFrameData # NoBuffer => contents[pendingFrameData] \in Nat
            /\ \A b \in posted : contents[b] \in Nat
        BY <1>0 DEF DataOK
      <3>6. /\ contents' = contents /\ posted' = posted /\ procPc' = "return"
            /\ pendingFrameData' = pendingFrameData
        BY <1>2 DEF ProcessFrame
      <3>7. pendingFrameData # NoBuffer =>
               \A q \in Processors : /\ begun'[q] < contents[pendingFrameData]
                                     /\ latestImage'[q].frame < contents[pendingFrameData]
        BY <1>0, <2>1, <3>4, <3>5 DEF OrderInv
      <3>8. \A b \in posted : \A q \in Processors :
               /\ begun'[q] < contents[b] /\ latestImage'[q].frame < contents[b]
        BY <1>0, <2>1, <3>4, <3>5 DEF OrderInv
      <3> QED
        BY <1>0, <2>1, <3>6, <3>7, <3>8 DEF OrderInv, Fresh
    <2> QED
      BY <1>2, <2>2, <2>3, FrameCases
  <1>3. CASE ReturnBuffer
    BY <1>0, <1>3, BufferFacts DEF OrderInv, Fresh, DataOK, ControlInv, ProcessorTypeOK,
       ReturnBuffer
  <1>4. CASE PauseStopped
    BY <1>0, <1>4, BufferFacts DEF OrderInv, Fresh, DataOK, ControlInv, ProcessorTypeOK,
       PauseStopped, Joined, Closed
  <1>5. CASE DestroyStopped
    BY <1>0, <1>5, BufferFacts DEF OrderInv, Fresh, DataOK, ControlInv, ProcessorTypeOK,
       DestroyStopped, Joined, Closed
  <1>6. ASSUME NEW o \in Outcomes, SelectStopped(o) PROVE OrderInv'
    <2>1. PICK has \in BOOLEAN, overlay \in {Nothing, shown} :
                StartDoes(has, overlay) /\ (has <=> granted)
      BY <1>0, <1>6, SelectLemma
    <2>2. pendingFrameData' \in {pendingFrameData, NoBuffer}
      BY <1>0, <1>6, SelectLemma DEF CreateDoes
    <2>3. procPc = "none" /\ data' = data /\ data = NoBuffer
      BY <1>0, <1>6 DEF ControlInv, SelectStopped, Joined
    <2> QED
      BY <1>0, <1>6, <2>1, <2>2, <2>3, BufferFacts DEF OrderInv, Fresh, SelectStopped, StartDoes
  <1>7. ASSUME NEW o \in Outcomes, ToggleStopped(o) PROVE OrderInv'
    <2>1. StartDoes(held, shown)
      BY <1>0, <1>7, StartLemma DEF ToggleStopped
    <2> QED
      BY <1>0, <1>7, <2>1, BufferFacts DEF OrderInv, Fresh, DataOK, ControlInv, ProcessorTypeOK,
         ToggleStopped, Joined, StartDoes
  <1>8. ASSUME NEW b \in Buffers, CameraFills(b) PROVE OrderInv'
    <2>1. captured \in Nat /\ captured' = captured + 1 /\ b \in queued /\ b \in Buffers
          /\ posted' = posted \cup {b} /\ contents' = [contents EXCEPT ![b] = captured + 1]
          /\ UNCHANGED <<procPc, data, pendingFrameData, begun, latestImage>>
      BY <1>0, <1>8 DEF DataOK, CameraFills
    <2>2. b \notin posted /\ b # data /\ b # pendingFrameData
      BY <1>0, <2>1 DEF BufferInv, BuffersKept
    <2>3. /\ contents'[b] = captured + 1
          /\ \A c \in Buffers : c # b => contents'[c] = contents[c]
          /\ \A c \in Buffers : contents[c] \in Nat /\ contents[c] <= captured
      BY <1>0, <2>1 DEF DataOK, OrderInv
    <2>4. \A p \in Processors : /\ begun[p] < captured + 1 /\ latestImage[p].frame < captured + 1
                                /\ begun[p] \in Nat /\ latestImage[p].frame \in Nat
      BY <1>0, <2>1, FrameNumbers DEF ProcessorInv
    <2>5. /\ posted \subseteq Buffers
          /\ procPc = "want" => data \in Buffers
          /\ pendingFrameData # NoBuffer => pendingFrameData \in Buffers
      BY <1>0 DEF DataOK, ControlInv
    <2>6. \A c \in Buffers : contents'[c] <= captured'
      BY <2>1, <2>3
    <2>7. /\ procPc' = "want" => Fresh(contents[data])'
          /\ pendingFrameData' # NoBuffer => Fresh(contents[pendingFrameData])'
      BY <1>0, <2>1, <2>2, <2>3, <2>5 DEF OrderInv, Fresh
    <2>8. \A c \in posted' : \A p \in Processors :
             begun[p] < contents'[c] /\ latestImage[p].frame < contents'[c]
      BY <1>0, <2>1, <2>2, <2>3, <2>4, <2>5 DEF OrderInv, Fresh
    <2>9. (procPc' = "want" /\ pendingFrameData' # NoBuffer) =>
             contents'[data'] < contents'[pendingFrameData']
      BY <1>0, <2>1, <2>2, <2>3, <2>5 DEF OrderInv
    <2>10. \A c \in posted' :
             /\ procPc' = "want" => contents'[data'] < contents'[c]
             /\ pendingFrameData' # NoBuffer => contents'[pendingFrameData'] < contents'[c]
      BY <1>0, <2>1, <2>2, <2>3, <2>5 DEF OrderInv
    <2>11. \A c, d \in posted' : c # d => contents'[c] # contents'[d]
      BY <1>0, <2>1, <2>2, <2>3, <2>5 DEF OrderInv
    <2> QED
      BY <2>1, <2>6, <2>7, <2>8, <2>9, <2>10, <2>11 DEF OrderInv, Fresh
  <1>9. ASSUME NEW b \in Buffers, onPreviewFrame(b) PROVE OrderInv'
    <2>1. /\ b \in posted /\ posted' = posted \ {b}
          /\ pendingFrameData' \in {b, NoBuffer}
          /\ procPc' = "want" => procPc = "want"
          /\ UNCHANGED <<contents, captured, data, begun, latestImage>>
      BY <1>9, NotifiedFacts DEF onPreviewFrame, setNextFrame
    <2>2. \A c \in posted : contents[b] <= contents[c] /\ contents[c] \in Nat
      BY <1>0, <1>9 DEF onPreviewFrame, DataOK
    <2>3. \A c \in posted' : contents[b] < contents[c]
      BY <1>0, <2>1, <2>2 DEF OrderInv
    <2> QED
      BY <1>0, <2>1, <2>3 DEF OrderInv, Fresh
  <1>10. ASSUME NEW p \in Processors, DetectionEnds(p) PROVE OrderInv'
    <2>0. PICK d \in detections[p] : onSuccess(p, d) \/ onFailure(p, d) \/ onClassified(p, d)
      BY <1>10 DEF DetectionEnds
    <2>1. \A q \in Processors : begun[q] \in Nat /\ latestImage[q].frame \in Nat
      BY <1>0, FrameNumbers
    <2>2. \A q \in Processors :
             /\ begun'[q] \in {begun[q], latestImage[q].frame}
             /\ latestImage'[q].frame \in {latestImage[q].frame, 0}
      <3>1. CASE onSuccess(p, d)
        <4>1. latestImage[p] \in Images \cup {NoImage} /\ ProcessLatest(p, latestImage[p])
          BY <1>0, <3>1 DEF ProcessorTypeOK, onSuccess
        <4> QED
          BY <1>0, <4>1, LatestMoves
      <3>2. CASE onFailure(p, d) \/ onClassified(p, d)
        BY <3>2 DEF onFailure, onClassified
      <3> QED
        BY <2>0, <3>1, <3>2
    <2>3. ASSUME NEW f \in Nat, Fresh(f)
          PROVE  \A q \in Processors : begun'[q] < f /\ latestImage'[q].frame < f
      BY <2>1, <2>2, <2>3 DEF Fresh
    <2>4. /\ pendingFrameData # NoBuffer => contents[pendingFrameData] \in Nat
          /\ procPc = "want" => contents[data] \in Nat
          /\ \A b \in posted : contents[b] \in Nat
      BY <1>0 DEF DataOK, ControlInv
    <2>5. /\ contents' = contents /\ posted' = posted /\ procPc' = procPc /\ data' = data
          /\ pendingFrameData' = pendingFrameData /\ captured' = captured
      BY <1>10 DEF DetectionEnds
    <2> QED
      BY <1>0, <2>3, <2>4, <2>5 DEF OrderInv, Fresh
  <1>11. CASE onCreate
    BY <1>0, <1>11, NewSourceLemma, BufferFacts DEF OrderInv, Fresh, DataOK,
       ControlInv, ProcessorTypeOK,
       onCreate, CreateDoes
  <1>12. CASE onResumeOpen
    BY <1>0, <1>12, BufferFacts DEF OrderInv, Fresh, DataOK, ControlInv, ProcessorTypeOK,
       onResumeOpen
  <1>13. CASE onPause
    BY <1>0, <1>13, NotifiedFacts, BufferFacts DEF OrderInv, Fresh, DataOK, ControlInv,
       ProcessorTypeOK, onPause, StopIn
  <1>14. CASE onItemSelected
    BY <1>0, <1>14, NotifiedFacts, BufferFacts DEF OrderInv, Fresh, DataOK, ControlInv,
       ProcessorTypeOK, onItemSelected, StopIn
  <1>15. CASE onCheckedChanged
    BY <1>0, <1>15, NotifiedFacts, BufferFacts DEF OrderInv, Fresh, DataOK, ControlInv,
       ProcessorTypeOK, onCheckedChanged, StopIn
  <1>16. CASE onDestroy
    BY <1>0, <1>16, NotifiedFacts, BufferFacts DEF OrderInv, Fresh, DataOK, ControlInv,
       ProcessorTypeOK, onDestroy, StopIn
  <1>17. CASE onDestroyWithoutSource
    BY <1>0, <1>17, BufferFacts DEF OrderInv, Fresh, DataOK, ControlInv, ProcessorTypeOK,
       onDestroyWithoutSource
  <1>18. ASSUME NEW m \in Models, onRequestPermissionsResult(m) PROVE OrderInv'
    BY <1>0, <1>18, NewSourceLemma, BufferFacts DEF OrderInv, Fresh, DataOK,
       ControlInv, ProcessorTypeOK,
       onRequestPermissionsResult, CreateDoes
  <1>19. ASSUME NEW o \in Outcomes, onResume(o) PROVE OrderInv'
    <2>1. StartDoes(held, shown)
      BY <1>0, <1>19, StartLemma DEF onResume
    <2> QED
      BY <1>0, <1>19, <2>1, BufferFacts DEF OrderInv, Fresh, DataOK, ControlInv, ProcessorTypeOK,
         onResume, StartDoes
  <1>20. ASSUME NEW o \in ViewOutcomes, surfaceCreated(o) PROVE OrderInv'
    <2>1. ViewDoes
      BY <1>0, <1>20, ViewLemma DEF surfaceCreated
    <2> QED
      BY <1>0, <1>20, <2>1, BufferFacts DEF OrderInv, Fresh, DataOK, ControlInv, ProcessorTypeOK,
         surfaceCreated, ViewDoes
  <1>21. ASSUME NEW o \in ViewOutcomes, onLayout(o) PROVE OrderInv'
    <2>1. ViewDoes
      BY <1>0, <1>21, ViewLemma DEF onLayout
    <2> QED
      BY <1>0, <1>21, <2>1, BufferFacts DEF OrderInv, Fresh, DataOK, ControlInv, ProcessorTypeOK,
         onLayout, ViewDoes
  <1>22. CASE surfaceDestroyed
    BY <1>0, <1>22, BufferFacts DEF OrderInv, Fresh, DataOK, ControlInv, ProcessorTypeOK,
       surfaceDestroyed
  <1> QED
    BY <1>1, <1>2, <1>3, <1>4, <1>5, <1>6, <1>7, <1>8, <1>9, <1>10, <1>11,
       <1>12, <1>13, <1>14, <1>15, <1>16, <1>17, <1>18, <1>19, <1>20, <1>21, <1>22
    DEF Next, ThreadStep, HandlerStopped

(* Every step leaves the processors alone that are not yet made.           *)
LEMMA MadeStep ==
    ASSUME IInv, Next
    PROVE  MadeInv'
  <1>0. TypeOK /\ ProcessorTypeOK /\ DataOK /\ ProcessorInv /\ MadeInv
    BY TypeParts DEF IInv
  <1>1. CASE UNCHANGED <<frameProcessor, made, begun, latestImage>>
    BY <1>0, <1>1 DEF MadeInv
  <1>2. CASE CreateDoes /\ UNCHANGED <<begun, latestImage>>
    BY <1>0, <1>2 DEF MadeInv, CreateDoes, DataOK, Processors
  <1>3. CASE ProcessFrame
    <2>1. UNCHANGED <<frameProcessor, made>>
      BY <1>3 DEF ProcessFrame
    <2>2. ASSUME NEW p \in Processors, NEW image \in Images, HandsIn(p, image)
          PROVE  MadeInv'
      <3>1. \A q \in Processors :
               q # p => begun'[q] = begun[q] /\ latestImage'[q] = latestImage[q]
        BY <1>0, <2>2 DEF HandsIn, ProcessLatest, Keep, classifyFrame, ProcessorTypeOK
      <3>2. p <= made
        BY <1>0, <2>2 DEF MadeInv, HandsIn
      <3> QED
        BY <1>0, <2>1, <3>1, <3>2 DEF MadeInv, DataOK, Processors
    <2> QED
      BY <1>1, <1>3, <2>1, <2>2, FrameCases
  <1>4. ASSUME NEW p \in Processors, DetectionEnds(p) PROVE MadeInv'
    <2>1. PICK d \in detections[p] : onSuccess(p, d) \/ onFailure(p, d) \/ onClassified(p, d)
      BY <1>4 DEF DetectionEnds
    <2>2. UNCHANGED <<frameProcessor, made>>
      BY <1>4 DEF DetectionEnds
    <2>3. \A q \in Processors : q # p => begun'[q] = begun[q] /\ latestImage'[q] = latestImage[q]
      BY <1>0, <2>1 DEF onSuccess, onFailure, onClassified, ProcessLatest, ProcessorTypeOK
    <2>4. begun[p] # 0
      BY <1>0, <2>1 DEF ProcessorInv, ProcessorTypeOK, Detections
    <2> QED
      BY <1>0, <2>2, <2>3, <2>4 DEF MadeInv, DataOK, Processors
  <1>5. ASSUME NEW o \in Outcomes, SelectStopped(o) PROVE MadeInv'
    BY <1>0, <1>2, <1>5, SelectLemma DEF SelectStopped
  <1>6. CASE onCreate \/ \E m \in Models : onRequestPermissionsResult(m)
    BY <1>0, <1>2, <1>6, NewSourceLemma DEF onCreate, onRequestPermissionsResult
  <1>7. CASE ThreadLoop \/ ReturnBuffer \/ PauseStopped \/ DestroyStopped
    BY <1>1, <1>7 DEF ThreadLoop, ReturnBuffer, PauseStopped, DestroyStopped
  <1>8. ASSUME NEW o \in Outcomes, ToggleStopped(o) \/ onResume(o) PROVE MadeInv'
    BY <1>1, <1>8 DEF ToggleStopped, onResume
  <1>9. ASSUME NEW b \in Buffers, CameraFills(b) \/ onPreviewFrame(b) PROVE MadeInv'
    BY <1>1, <1>9 DEF CameraFills, onPreviewFrame
  <1>10. CASE onResumeOpen \/ onPause \/ onItemSelected \/ onCheckedChanged \/ onDestroy
              \/ onDestroyWithoutSource \/ surfaceDestroyed
    BY <1>1, <1>10 DEF onResumeOpen, onPause, onItemSelected, onCheckedChanged, onDestroy,
       onDestroyWithoutSource, surfaceDestroyed, StopIn
  <1>11. ASSUME NEW o \in ViewOutcomes, surfaceCreated(o) \/ onLayout(o) PROVE MadeInv'
    BY <1>1, <1>11 DEF surfaceCreated, onLayout
  <1> QED
    BY <1>3, <1>4, <1>5, <1>6, <1>7, <1>8, <1>9, <1>10, <1>11
    DEF Next, ThreadStep, HandlerStopped

(* The invariant holds before the activity is created.                     *)
LEMMA InitLemma == Init => IInv
  <1> SUFFICES ASSUME Init PROVE IInv
    OBVIOUS
  <1>1. ProcessorTypeOK
    BY NoImageFact, NothingFact DEF Init, ProcessorInit, ProcessorTypeOK
  <1>2. DataOK
    BY DEF Init, DataOK
  <1>3. FlagsOK
    BY Zenon DEF Init, FlagsOK
  <1>4. PlacesOK
    BY DEF Init, PlacesOK, Waiting
  <1>5. ControlInv
    BY DEF Init, ControlInv, ThreadServesCamera
  <1>6. BufferInv
    BY BufferFacts DEF Init, BufferInv, BuffersKept, OneForeignBuffer, Around
  <1>7. ProcessorInv
    BY NoImageFact DEF Init, ProcessorInit, ProcessorInv
  <1>8. OrderInv
    BY DEF Init, OrderInv
  <1>9. MadeInv
    BY DEF Init, ProcessorInit, MadeInv
  <1> QED
    BY <1>1, <1>2, <1>3, <1>4, <1>5, <1>6, <1>7, <1>8, <1>9, TypeParts DEF IInv

(* And every step keeps it.                                                *)
LEMMA InvStep == IInv /\ [Next]_vars => IInv'
  <1> SUFFICES ASSUME IInv, [Next]_vars PROVE IInv'
    OBVIOUS
  <1>1. CASE Next
    <2>1. TypeOK'
      <3>1. ProcessorTypeOK' /\ DataOK' /\ FlagsOK' /\ PlacesOK'
        BY <1>1, ProcessorTypeStep, DataStep, FlagsStep, PlacesStep
      <3> QED
        BY <3>1, Zenon DEF TypeOK, DataOK, FlagsOK, PlacesOK
    <2> QED
      BY <1>1, <2>1, ControlStep, BufferStep, ProcessorStep, OrderStep, MadeStep DEF IInv
  <1>2. CASE UNCHANGED vars
    <2>1. TypeOK'
      <3>1. ProcessorTypeOK' /\ DataOK' /\ PlacesOK'
        BY <1>2, TypeParts DEF IInv, ProcessorTypeOK, DataOK, PlacesOK
      <3>2. FlagsOK'
        BY <1>2, TypeParts, Zenon DEF IInv, FlagsOK
      <3> QED
        BY <3>1, <3>2, Zenon DEF TypeOK, DataOK, FlagsOK, PlacesOK
    <2>2. ControlInv'
      BY <1>2 DEF IInv, ControlInv, ThreadServesCamera
    <2>3. BufferInv'
      BY <1>2 DEF IInv, BufferInv, BuffersKept, OneForeignBuffer, Around
    <2>4. ProcessorInv' /\ OrderInv' /\ MadeInv'
      BY <1>2 DEF IInv, ProcessorInv, OrderInv, Fresh, MadeInv
    <2> QED
      BY <2>1, <2>2, <2>3, <2>4 DEF IInv
  <1> QED
    BY <1>1, <1>2
-----------------------------------------------------------------------------
(* The invariant holds throughout.                                         *)
THEOREM Invariance == Spec => []IInv
  BY InitLemma, InvStep, PTL DEF Spec

(* All fields keep their types; in particular the processing thread and    *)
(* setNextFrame never hand the camera a buffer that does not exist.        *)
THEOREM TypeCorrect == Spec => []TypeOK
  <1>1. IInv => TypeOK
    BY DEF IInv
  <1> QED
    BY <1>1, Invariance, PTL

(* Every buffer has one owner, and an open camera loses none of the        *)
(* buffers createCamera gave it.                                           *)
THEOREM BuffersKeptHolds == Spec => []BuffersKept
  <1>1. IInv => BuffersKept
    BY DEF IInv, BufferInv
  <1> QED
    BY <1>1, Invariance, PTL

(* Stopping and restarting, however often, leaves the camera with at most  *)
(* one buffer that createCamera did not make for it.                       *)
THEOREM OneForeignBufferHolds == Spec => []OneForeignBuffer
  <1>1. IInv => OneForeignBuffer
    BY DEF IInv, BufferInv
  <1> QED
    BY <1>1, Invariance, PTL

(* The processing thread, which reads the field camera without a lock,     *)
(* never finds it null, and a previewing camera has its thread.            *)
THEOREM ThreadServesCameraHolds == Spec => []ThreadServesCamera
  <1>1. IInv => ThreadServesCamera
    BY DEF IInv, ControlInv
  <1> QED
    BY <1>1, Invariance, PTL

(* release meets a living processing thread, the one it may deadlock with, *)
(* only after a start while the activity was not resumed.                  *)
THEOREM ReleaseFindsThreadHolds == Spec => []ReleaseFindsThreadOnlyAfterLateStart
  <1>1. IInv => ReleaseFindsThreadOnlyAfterLateStart
    BY DEF IInv, ControlInv, ReleaseFindsThreadOnlyAfterLateStart
  <1> QED
    BY <1>1, Invariance, PTL
-----------------------------------------------------------------------------
(* Nothing goes in or out of a processor; the overlay may be cleared.      *)
Quiet == /\ UNCHANGED <<captured, custom, begun, detections>>
         /\ shown' \in {Nothing, shown}

(* FrameFeed clears the screen, or does nothing.                           *)
LEMMA QuietStep == ASSUME Quiet PROVE [Feed!Next]_(Feed!vars)
  <1>1. CASE shown' = Nothing
    BY <1>1 DEF Quiet, Nothing, Feed!Next, Feed!Clear, Feed!Nothing
  <1>2. CASE shown' = shown
    BY <1>2 DEF Quiet, Feed!vars
  <1> QED
    BY <1>1, <1>2 DEF Quiet

(* A new processor is a streaming one for FrameFeed, or nothing.           *)
LEMMA CreateFeeds ==
    ASSUME DataOK, MadeInv, CreateDoes, UNCHANGED <<captured, begun, detections>>,
           shown' \in {Nothing, shown}
    PROVE  [Feed!Next]_(Feed!vars)
  <1>1. CASE custom' = custom
    BY <1>1, QuietStep DEF Quiet
  <1>2. CASE made + 1 \in Processors /\ custom' = custom \cup {made + 1}
    <2>1. begun[made + 1] = 0
      BY <1>2 DEF MadeInv, DataOK
    <2>2. Feed!Stream(made + 1)
      BY <1>2, <2>1 DEF Feed!Stream, Feed!Nothing, Nothing
    <2> QED
      BY <1>2, <2>2 DEF Feed!Next
  <1> QED
    BY <1>1, <1>2 DEF CreateDoes

(* A frame that the processing thread hands in begins its detection, or is *)
(* kept for later, which FrameFeed does not see.                           *)
LEMMA ProcessFeeds ==
    ASSUME IInv, ProcessFrame
    PROVE  [Feed!Next]_(Feed!vars)
  <1>0. ProcessorTypeOK /\ DataOK /\ ProcessorInv
    BY TypeParts DEF IInv
  <1>1. UNCHANGED <<captured, custom>>
    BY DEF ProcessFrame
  <1>2. CASE UNCHANGED processorVars
    BY <1>1, <1>2, QuietStep DEF Quiet
  <1>3. ASSUME NEW p \in Processors, NEW image \in Images, HandsIn(p, image)
        PROVE  [Feed!Next]_(Feed!vars)
    <2>1. /\ begun[p] < image.frame /\ image.frame <= captured /\ shown' = shown
          /\ image.frame = contents[image.buf] /\ image.frame \in Nat /\ image # NoImage
      BY <1>0, <1>3, DetectionFacts, NoImageFact DEF HandsIn
    <2>2. PICK d \in Detections :
             d = Detection(image) /\ d.frame = image.frame /\ d.seen = image.frame
      BY <1>0, <2>1, DetectionFacts
    <2>3. CASE \/ p \in custom /\ classifyFrame(p, image)
               \/ p \notin custom /\ processingImage[p] = NoImage /\ ProcessLatest(p, image)
      <3>1. begun' = [begun EXCEPT ![p] = d.frame]
        BY <2>1, <2>2, <2>3 DEF classifyFrame, ProcessLatest
      <3>2. p \notin custom => detections[p] = {}
        BY <1>0, <2>3 DEF ProcessorInv
      <3>3. detections' = [detections EXCEPT ![p] = detections[p] \cup {d}]
        BY <2>1, <2>2, <2>3, <3>2 DEF classifyFrame, ProcessLatest
      <3>4. Feed!Enter(p, detections[p], d)
        BY <2>1, <2>2, <3>1, <3>2, <3>3 DEF Feed!Enter
      <3>5. Feed!Begin(p, d)
        BY <1>1, <2>1, <3>4 DEF Feed!Begin
      <3>6. d \in detections'[p]
        BY <1>0, <3>3 DEF ProcessorTypeOK
      <3> QED
        BY <3>5, <3>6 DEF Feed!Next
    <2>4. CASE Keep(p, image)
      BY <1>1, <2>1, <2>4, QuietStep DEF Keep, Quiet
    <2> QED
      BY <1>3, <2>3, <2>4 DEF HandsIn
  <1> QED
    BY <1>2, <1>3, FrameCases

(* A detection that succeeds is shown over an image, and the latest image  *)
(* follows if there is one; a detection that fails leaves nothing.         *)
LEMMA DetectionFeeds ==
    ASSUME IInv, NEW p \in Processors, DetectionEnds(p)
    PROVE  [Feed!Next]_(Feed!vars)
  <1>0. ProcessorTypeOK /\ DataOK /\ ProcessorInv /\ OrderInv
    BY TypeParts DEF IInv
  <1>1. UNCHANGED <<captured, custom>>
    BY DEF DetectionEnds
  <1>2. PICK d \in detections[p] : onSuccess(p, d) \/ onFailure(p, d) \/ onClassified(p, d)
    BY DEF DetectionEnds
  <1>3. /\ d.frame \in Nat /\ d.seen \in Nat /\ d.buf \in Buffers
        /\ contents[d.buf] \in Nat /\ captured \in Nat
    BY <1>0 DEF ProcessorTypeOK, DataOK, Detections
  <1>4. /\ 0 < d.frame /\ d.frame <= d.seen
        /\ d.seen <= contents[d.buf] /\ contents[d.buf] <= captured
    BY <1>0, <1>3 DEF ProcessorInv, OrderInv
  <1>5. d.seen \in 1..captured /\ contents[d.buf] \in 1..captured
    BY <1>3, <1>4
  <1>6. CASE onSuccess(p, d)
    <2> DEFINE image == latestImage[p]
    <2>1. p \notin custom /\ ProcessLatest(p, image)
      BY <1>6 DEF onSuccess
    <2>2. PICK results \in d.seen .. contents[d.buf] : shown' = <<p, results, d.seen>>
      BY <1>6 DEF onSuccess
    <2>3. results \in 1..captured /\ d.frame <= results
      BY <1>3, <1>4
    <2>4. Feed!Show(p, d, results, d.seen)
      BY <1>4, <2>1, <2>2, <2>3 DEF Feed!Show
    <2>5. detections[p] \ {d} = {}
      BY <1>0, <2>1 DEF ProcessorInv
    <2>6. image # NoImage =>
             /\ image \in Images /\ begun[p] < image.frame /\ image.frame <= captured
             /\ image.frame <= contents[image.buf]
      BY <1>0 DEF ProcessorInv, ProcessorTypeOK
    <2> HIDE DEF image
    <2>7. CASE image # NoImage
      <3>1. PICK next \in Detections :
               /\ next = Detection(image) /\ next.frame = image.frame
               /\ next.seen = contents[image.buf] /\ image.buf \in Buffers
        BY <1>0, <2>6, <2>7, DetectionFacts
      <3>2. next.seen <= captured
        BY <1>0, <3>1 DEF OrderInv
      <3>3. detections' = [detections EXCEPT ![p] = (detections[p] \ {d}) \cup {next}]
            /\ begun' = [begun EXCEPT ![p] = next.frame]
        BY <2>1, <2>5, <2>7, <3>1 DEF ProcessLatest
      <3>4. Feed!Enter(p, detections[p] \ {d}, next)
        BY <2>5, <2>6, <2>7, <3>1, <3>2, <3>3 DEF Feed!Enter
      <3>5. Feed!SucceedAndGoOn(p, d, results, d.seen, next)
        BY <1>1, <2>4, <3>4 DEF Feed!SucceedAndGoOn
      <3>6. next \in detections'[p]
        BY <1>0, <3>3 DEF ProcessorTypeOK
      <3> QED
        BY <1>5, <2>3, <3>5, <3>6 DEF Feed!Next
    <2>8. CASE image = NoImage
      <3>1. detections' = [detections EXCEPT ![p] = @ \ {d}] /\ begun' = begun
        BY <2>1, <2>5, <2>8 DEF ProcessLatest
      <3>2. Feed!Succeed(p, d, results, d.seen)
        BY <1>1, <2>4, <3>1 DEF Feed!Succeed
      <3> QED
        BY <1>5, <2>3, <3>2 DEF Feed!Next
    <2> QED
      BY <2>7, <2>8
  <1>7. CASE onFailure(p, d)
    <2>1. Feed!Fail(p, d)
      BY <1>1, <1>7 DEF Feed!Fail, onFailure
    <2> QED
      BY <2>1 DEF Feed!Next
  <1>8. CASE onClassified(p, d)
    <2>1. d.frame <= contents[d.buf]
      BY <1>3, <1>4
    <2>2. Feed!Succeed(p, d, d.seen, contents[d.buf])
      BY <1>1, <1>4, <1>8, <2>1 DEF Feed!Succeed, Feed!Show, onClassified
    <2> QED
      BY <1>5, <2>2 DEF Feed!Next
  <1> QED
    BY <1>2, <1>6, <1>7, <1>8

(* Every step of the pipeline is one of FrameFeed, or none.                *)
LEMMA FeedStep ==
    ASSUME IInv, Next
    PROVE  [Feed!Next]_(Feed!vars)
  <1>0. DataOK /\ MadeInv
    BY TypeParts DEF IInv
  <1>1. CASE ThreadLoop
    <2>1. Quiet
      BY <1>1 DEF ThreadLoop, Quiet
    <2> QED
      BY <2>1, QuietStep
  <1>2. CASE ProcessFrame
    BY <1>2, ProcessFeeds
  <1>3. CASE ReturnBuffer
    <2>1. Quiet
      BY <1>3 DEF ReturnBuffer, Quiet
    <2> QED
      BY <2>1, QuietStep
  <1>4. CASE PauseStopped
    <2>1. Quiet
      BY <1>4 DEF PauseStopped, Joined, Closed, Quiet
    <2> QED
      BY <2>1, QuietStep
  <1>5. CASE DestroyStopped
    <2>1. Quiet
      BY <1>5 DEF DestroyStopped, Joined, Closed, Quiet
    <2> QED
      BY <2>1, QuietStep
  <1>6. ASSUME NEW o \in Outcomes, SelectStopped(o) PROVE [Feed!Next]_(Feed!vars)
    <2>1. PICK has \in BOOLEAN, overlay \in {Nothing, shown} :
                StartDoes(has, overlay) /\ (has <=> granted)
      BY <1>0, <1>6, SelectLemma
    <2>2. /\ CreateDoes /\ UNCHANGED <<captured, begun, detections>>
          /\ shown' \in {Nothing, shown}
      BY <1>0, <1>6, <2>1, SelectLemma DEF SelectStopped, StartDoes
    <2> QED
      BY <1>0, <2>2, CreateFeeds
  <1>7. ASSUME NEW o \in Outcomes, ToggleStopped(o) PROVE [Feed!Next]_(Feed!vars)
    <2>1. StartDoes(held, shown)
      BY <1>0, <1>7, StartLemma DEF ToggleStopped
    <2>2. Quiet
      BY <1>7, <2>1 DEF ToggleStopped, StartDoes, Quiet
    <2> QED
      BY <2>2, QuietStep
  <1>8. ASSUME NEW b \in Buffers, CameraFills(b) PROVE [Feed!Next]_(Feed!vars)
    <2>1. Feed!Capture
      BY <1>8 DEF CameraFills, Feed!Capture
    <2> QED
      BY <2>1 DEF Feed!Next
  <1>9. ASSUME NEW b \in Buffers, onPreviewFrame(b) PROVE [Feed!Next]_(Feed!vars)
    <2>1. Quiet
      BY <1>9 DEF onPreviewFrame, setNextFrame, Quiet
    <2> QED
      BY <2>1, QuietStep
  <1>10. ASSUME NEW p \in Processors, DetectionEnds(p) PROVE [Feed!Next]_(Feed!vars)
    BY <1>10, DetectionFeeds
  <1>11. CASE onCreate
    <2>1. /\ CreateDoes /\ UNCHANGED <<captured, begun, detections>>
          /\ shown' \in {Nothing, shown}
      BY <1>0, <1>11, NewSourceLemma DEF onCreate
    <2> QED
      BY <1>0, <2>1, CreateFeeds
  <1>12. CASE onResumeOpen
    <2>1. Quiet
      BY <1>12 DEF onResumeOpen, Quiet
    <2> QED
      BY <2>1, QuietStep
  <1>13. CASE onPause
    <2>1. Quiet
      BY <1>13 DEF onPause, StopIn, Quiet
    <2> QED
      BY <2>1, QuietStep
  <1>14. CASE onItemSelected
    <2>1. Quiet
      BY <1>14 DEF onItemSelected, StopIn, Quiet
    <2> QED
      BY <2>1, QuietStep
  <1>15. CASE onCheckedChanged
    <2>1. Quiet
      BY <1>15 DEF onCheckedChanged, StopIn, Quiet
    <2> QED
      BY <2>1, QuietStep
  <1>16. CASE onDestroy
    <2>1. Quiet
      BY <1>16 DEF onDestroy, StopIn, Quiet
    <2> QED
      BY <2>1, QuietStep
  <1>17. CASE onDestroyWithoutSource
    <2>1. Quiet
      BY <1>17 DEF onDestroyWithoutSource, Quiet
    <2> QED
      BY <2>1, QuietStep
  <1>18. ASSUME NEW m \in Models, onRequestPermissionsResult(m) PROVE [Feed!Next]_(Feed!vars)
    <2>1. /\ CreateDoes /\ UNCHANGED <<captured, begun, detections>>
          /\ shown' \in {Nothing, shown}
      BY <1>0, <1>18, NewSourceLemma DEF onRequestPermissionsResult
    <2> QED
      BY <1>0, <2>1, CreateFeeds
  <1>19. ASSUME NEW o \in Outcomes, onResume(o) PROVE [Feed!Next]_(Feed!vars)
    <2>1. StartDoes(held, shown)
      BY <1>0, <1>19, StartLemma DEF onResume
    <2>2. Quiet
      BY <1>19, <2>1 DEF onResume, StartDoes, Quiet
    <2> QED
      BY <2>2, QuietStep
  <1>20. ASSUME NEW o \in ViewOutcomes, surfaceCreated(o) PROVE [Feed!Next]_(Feed!vars)
    <2>1. ViewDoes
      BY <1>0, <1>20, ViewLemma DEF surfaceCreated
    <2>2. Quiet
      BY <1>20, <2>1 DEF surfaceCreated, ViewDoes, Quiet
    <2> QED
      BY <2>2, QuietStep
  <1>21. ASSUME NEW o \in ViewOutcomes, onLayout(o) PROVE [Feed!Next]_(Feed!vars)
    <2>1. ViewDoes
      BY <1>0, <1>21, ViewLemma DEF onLayout
    <2>2. Quiet
      BY <1>21, <2>1 DEF onLayout, ViewDoes, Quiet
    <2> QED
      BY <2>2, QuietStep
  <1>22. CASE surfaceDestroyed
    <2>1. Quiet
      BY <1>22 DEF surfaceDestroyed, Quiet
    <2> QED
      BY <2>1, QuietStep
  <1> QED
    BY <1>1, <1>2, <1>3, <1>4, <1>5, <1>6, <1>7, <1>8, <1>9, <1>10, <1>11,
       <1>12, <1>13, <1>14, <1>15, <1>16, <1>17, <1>18, <1>19, <1>20, <1>21, <1>22
    DEF Next, ThreadStep, HandlerStopped

(* FrameFeed starts with nothing captured and nothing shown.               *)
LEMMA FeedInit == Init => Feed!Init
  <1> SUFFICES ASSUME Init PROVE Feed!Init
    OBVIOUS
  <1> QED
    BY DEF Init, ProcessorInit, Nothing, Feed!Init, Feed!Nothing

(* The pipeline implements FrameFeed: whatever the handlers, the threads   *)
(* and the detectors do, every processor begins detections for frames in   *)
(* the order of capture, for each at most once, one at a time unless it is *)
(* a custom classifier; it sees that frame or a newer one, and the screen  *)
(* shows the results of the detection that has just ended over an image    *)
(* that is no older than its frame.                                        *)
THEOREM PipelineFeeds == Spec => FeedSpec
  <1>1. ASSUME IInv, [Next]_vars PROVE [Feed!Next]_(Feed!vars)
    <2>1. CASE Next
      BY <1>1, <2>1, FeedStep
    <2>2. CASE UNCHANGED vars
      BY <2>2, QuietStep DEF Quiet
    <2> QED
      BY <1>1, <2>1, <2>2
  <1> QED
    BY <1>1, FeedInit, Invariance, PTL DEF Spec, FeedSpec, Feed!Spec
=============================================================================
