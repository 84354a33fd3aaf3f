--------------------------- MODULE MotionTracker ---------------------------
(***************************************************************************)
(* Motion::operation (motion.cpp).  A tick either looks for fresh feature  *)
(* points or follows those of the last tick from the last picture to the   *)
(* new one and measures how they moved.  It asks for fresh points itself   *)
(* when too few are left; the window asks for them when the feature is     *)
(* turned on and on the Motion button.                                     *)
(*                                                                         *)
(* A picture is represented by the camera it comes from: what is followed  *)
(* from one camera's picture into another's measures nothing, and OpenCV   *)
(* throws if their sizes differ.  Two parts of the handler are left out:   *)
(* the branch for addRemovePt, which nothing sets, and a tick with neither *)
(* a request for points nor points, which NeverIdle says cannot be.        *)
(***************************************************************************)
EXTENDS Integers

CONSTANTS
  Cameras,    (* the sources a picture may come from                       *)
  SizeOf,     (* SizeOf[c]: the size of camera c's pictures                *)
  MaxCount,   (* points looked for at most: 500                            *)
  Threshold,  (* fewer points than this ask for fresh ones: 25             *)
  Rates,      (* measured speeds                                           *)
  NoPicture   (* no previous picture                                       *)

ASSUME TrackerAssumption ==
  /\ Threshold \in Nat \ {0} /\ MaxCount \in Nat
  /\ 0 \in Rates
  /\ NoPicture \notin Cameras

VARIABLES
  needToInit, (* the next tick looks for fresh points                      *)
  tracked,    (* points[0].size(): the points the last tick ended with     *)
  prevGray,   (* the camera of the last picture                            *)
  rate        (* getRateX_motion; the y rate moves with it                 *)

trackerVars == <<needToInit, tracked, prevGray, rate>>

TrackerInit ==
  /\ needToInit = TRUE
  /\ tracked = 0
  /\ prevGray = NoPicture
  /\ rate = 0

AskNever(n) == FALSE                                      \* mutant
AskAgain(n) == n < Threshold

\* What every tick ends with: n points in the current picture.
FinishOneMore(camera, n) ==                               \* mutant
  /\ tracked' = n + 1
  /\ needToInit' = AskAgain(n)
  /\ prevGray' = camera

Finish(camera, n) ==
  /\ tracked' = n
  /\ needToInit' = AskAgain(n)
  /\ prevGray' = camera

\* The rate is left as it was, and charted and logged again.
Detect(camera) ==
  /\ needToInit
  /\ \E n \in 0 .. MaxCount : Finish(camera, n)
  /\ UNCHANGED rate

\* A picture without a single point: most versions of cornerSubPix throw.
DetectThrows == needToInit

\* Following points from prevGray needs two pictures of one size.
Throws(camera) ==
  ~needToInit /\ tracked > 0 /\ prevGray # NoPicture /\ SizeOf[prevGray] # SizeOf[camera]

Follow(camera) ==
  /\ ~needToInit
  /\ tracked > 0
  /\ ~Throws(camera)
  /\ \E kept \in 0 .. tracked : Finish(camera, kept)
  /\ rate' \in Rates

TrackerTick(camera) == Detect(camera) \/ Follow(camera)

\* on_btnMotion_clicked.
InitNever == UNCHANGED needToInit                         \* mutant
AskForPoints == needToInit' = TRUE
=============================================================================
