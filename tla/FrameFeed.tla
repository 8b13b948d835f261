----------------------------- MODULE FrameFeed -----------------------------
(***************************************************************************)
(* What the live preview promises, without its buffers, locks and threads. *)
(* Every processor begins detections for frames in the order in which they *)
(* were captured, for each one at most once; one at a time, unless it is a *)
(* streaming one.  What a detection sees is its frame or a newer one: the  *)
(* frame may have been overwritten by then.  So what is seen may repeat or *)
(* go back, but never behind the frame the detection was begun for.  The   *)
(* screen shows the results of a detection over an image, of which at      *)
(* least one is of what the detection saw when it began, and neither is    *)
(* older than its frame; each detection is shown at most once.             *)
(***************************************************************************)
EXTENDS Naturals

CONSTANT Processors

VARIABLES
    captured,    \* the number of the latest frame
    streaming,   \* the processors that begin a detection while one is under way
    last,        \* the latest frame each processor has begun a detection for
    detecting,   \* the detections under way, for each processor: records with
                 \* the fields frame, the one a detection is begun for, and
                 \* seen, the one that is really there
    shown        \* a processor, and the frames of the results and of the image

vars == <<captured, streaming, last, detecting, shown>>

Nothing == <<0, 0, 0>>

Init == /\ captured = 0
        /\ streaming = {}
        /\ last = [p \in Processors |-> 0]
        /\ detecting = [p \in Processors |-> {}]
        /\ shown = Nothing

Capture == /\ captured' = captured + 1
           /\ UNCHANGED <<streaming, last, detecting, shown>>

(* A processor is a streaming one from its first frame on or never; the    *)
(* screen is cleared for it, or once it has its camera.                    *)
Stream(p) == /\ last[p] = 0
             /\ streaming' = streaming \cup {p}
             /\ shown' \in {Nothing, shown}
             /\ UNCHANGED <<captured, last, detecting>>

(* A detection d for a newer frame than any before joins those left over.  *)
Enter(p, rest, d) == /\ last[p] < d.frame /\ d.frame <= d.seen /\ d.seen <= captured
                     /\ p \notin streaming => rest = {}
                     /\ last' = [last EXCEPT ![p] = d.frame]
                     /\ detecting' = [detecting EXCEPT ![p] = rest \cup {d}]

Begin(p, d) == /\ Enter(p, detecting[p], d)
               /\ UNCHANGED <<captured, streaming, shown>>

Show(p, d, results, image) ==
    /\ d.frame <= results /\ d.frame <= image
    /\ p \in streaming => results = d.seen
    /\ p \notin streaming => image = d.seen
    /\ shown' = <<p, results, image>>

Succeed(p, d, results, image) ==
    /\ Show(p, d, results, image)
    /\ detecting' = [detecting EXCEPT ![p] = @ \ {d}]
    /\ UNCHANGED <<captured, streaming, last>>

(* The result is shown and the next detection follows at once.             *)
SucceedAndGoOn(p, d, results, image, next) ==
    /\ Show(p, d, results, image)
    /\ Enter(p, detecting[p] \ {d}, next)
    /\ UNCHANGED <<captured, streaming>>

Fail(p, d) == /\ detecting' = [detecting EXCEPT ![p] = @ \ {d}]
              /\ UNCHANGED <<captured, streaming, last, shown>>

Clear == /\ shown' = Nothing
         /\ UNCHANGED <<captured, streaming, last, detecting>>

Next ==
    \/ Capture \/ Clear
    \/ \E p \in Processors :
          \/ Stream(p)
          \/ \E d \in detecting'[p] : Begin(p, d)
          \/ \E d \in detecting[p] :
                \/ Fail(p, d)
                \/ \E results, image \in 1..captured :
                      \/ Succeed(p, d, results, image)
                      \/ \E next \in detecting'[p] :
                            SucceedAndGoOn(p, d, results, image, next)

Spec == Init /\ [][Next]_vars
=============================================================================
