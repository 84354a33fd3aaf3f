------------------------------ MODULE Vision -------------------------------
(***************************************************************************)
(* The motion and QR features of the R2Lab window around the camera they   *)
(* share (dialog.cpp): timer_motion runs a tick of the tracker and charts  *)
(* the rate it leaves, timer_qrCode fills the list of codes, and the Clear *)
(* button, the feature's check box and the choice of a camera change what  *)
(* the next tick finds.  Composes MotionTracker, QrList and, for the       *)
(* velocity series, Chart.                                                 *)
(***************************************************************************)
EXTENDS MotionTracker, QrList, Sequences

CONSTANTS
  Width,        (* points of the full velocity series: 49                  *)
  MaxTicks,     (* bound on the ticks of motion_timer                      *)
  MaxCodes      (* bound on the codes read                                 *)

ASSUME VisionAssumption == Width \in Nat \ {0} /\ MaxTicks \in Nat /\ MaxCodes \in Nat

VARIABLES
  camera,            (* the camera that is open                            *)
  motionOn,          (* chckBoxMotion is checked                           *)
  ended,             (* what ended the program, "no" while it runs         *)
  x_rate_average, pointCounter_velocity_x, axisX_counter1_velocity_x,
  velocitySeries_x,  (* the velocity series, see Chart                     *)
  switched,          (* history: the camera changed since the last tick,   *)
                     (*   with motion on                                   *)
  cleared,           (* history: a list with entries was cleared           *)
  measured           (* history: a rate was measured since the feature was *)
                     (*   turned on or cleared                             *)

Velocity == INSTANCE Chart
  WITH Values       <- Rates,
       Zero         <- 0,
       vect         <- x_rate_average,
       pointCounter <- pointCounter_velocity_x,
       nextX        <- axisX_counter1_velocity_x,
       series       <- velocitySeries_x

velocityVars == <<x_rate_average, pointCounter_velocity_x, axisX_counter1_velocity_x,
                  velocitySeries_x>>
vars == <<trackerVars, qrVars, velocityVars, camera, motionOn, ended,
          switched, cleared, measured>>

Init ==
  /\ TrackerInit
  /\ QrInit
  /\ Velocity!Init
  /\ camera \in Cameras
  /\ motionOn = FALSE
  /\ ended = "no"
  /\ switched = FALSE /\ cleared = FALSE /\ measured = FALSE

---------------------------------------------------------------------------
Running == ended = "no"

MotionTick ==
  /\ Running
  /\ motionOn
  /\ pointCounter_velocity_x < MaxTicks
  /\ TrackerTick(camera)
  /\ Velocity!Tick(rate')
  /\ switched' = FALSE
  /\ measured' = (measured \/ ~needToInit)
  /\ UNCHANGED <<qrVars, camera, motionOn, ended, cleared>>

\* Nothing catches what cornerSubPix or calcOpticalFlowPyrLK throws.
MotionTickThrows ==
  /\ Running
  /\ motionOn
  /\ \/ DetectThrows /\ ended' = "corners"
     \/ Throws(camera) /\ ended' = "sizes"
  /\ UNCHANGED <<trackerVars, qrVars, velocityVars, camera, motionOn, switched, cleared,
                 measured>>

QrTick ==
  /\ Running
  /\ lstQrCodeIndexCounter < MaxCodes
  /\ AddCode
  /\ ended' = IF MissesItem THEN "item" ELSE ended
  /\ UNCHANGED <<trackerVars, velocityVars, camera, motionOn, switched, cleared, measured>>

MotionOn ==
  /\ Running
  /\ ~motionOn
  /\ motionOn' = TRUE
  /\ AskForPoints
  /\ UNCHANGED <<tracked, prevGray, rate, qrVars, velocityVars, camera, ended, switched,
                 cleared, measured>>

RateKept == UNCHANGED rate                                \* mutant
RateForgotten == rate' = 0

MotionOff ==
  /\ Running
  /\ motionOn
  /\ motionOn' = FALSE
  /\ RateForgotten
  /\ measured' = FALSE
  /\ UNCHANGED <<needToInit, tracked, prevGray, qrVars, velocityVars, camera, ended,
                 switched, cleared>>

MotionButton ==
  /\ Running
  /\ motionOn
  /\ AskForPoints
  /\ UNCHANGED <<tracked, prevGray, rate, qrVars, velocityVars, camera, motionOn, ended,
                 switched, cleared, measured>>

\* on_btnClear_clicked.
Clear ==
  /\ Running
  /\ ClearList
  /\ RateForgotten
  /\ cleared' = (cleared \/ items > 0)
  /\ measured' = FALSE
  /\ UNCHANGED <<needToInit, tracked, prevGray, velocityVars, camera, motionOn, ended,
                 switched>>

\* Choosing another source reopens the camera under the features that are on.
SwitchCamera(c) ==
  /\ Running
  /\ c # camera
  /\ camera' = c
  /\ switched' = (switched \/ motionOn)
  /\ UNCHANGED <<trackerVars, qrVars, velocityVars, motionOn, ended, cleared, measured>>

Next ==
  \/ MotionTick \/ MotionTickThrows
  \/ QrTick
  \/ MotionOn \/ MotionOff \/ MotionButton
  \/ Clear
  \/ \E c \in Cameras : SwitchCamera(c)

Spec == Init /\ [][Next]_vars

---------------------------------------------------------------------------
(* Properties.                                                             *)

TypeOK ==
  /\ needToInit \in BOOLEAN
  /\ tracked \in 0 .. MaxCount
  /\ prevGray \in Cameras \cup {NoPicture}
  /\ rate \in Rates
  /\ items \in Nat /\ lstQrCodeIndexCounter \in Nat
  /\ camera \in Cameras
  /\ motionOn \in BOOLEAN
  /\ ended \in {"no", "corners", "sizes", "item"}
  /\ x_rate_average \in Seq(Rates)
  /\ {switched, cleared, measured} \subseteq BOOLEAN

\* A tick looks for points or has some to follow, however many the last ones
\* lost: motion never goes quiet with the feature on.
NeverIdle == ~needToInit => tracked >= Threshold

\* Points are followed from one camera's picture into the next one's only if
\* the camera was changed while motion was on: turning the feature off, changing
\* the camera and turning it on again compares nothing.
ComparesOneCamera ==
  /\ ~needToInit /\ motionOn => prevGray = camera \/ switched
  /\ ended = "sizes" => switched

\* The program does not ask the list for an entry it does not have unless a
\* list with entries was cleared.
ColoursEntriesItHas == ended = "item" => cleared

\* A rate that is charted was measured since the feature was turned on and
\* since the last Clear: ticks that only look for points repeat the last rate,
\* but never one of an earlier use of the feature.
RateIsCurrent == rate # 0 => measured

\* The velocity chart: its points are consecutive rates (see Chart).
ShowsLastRates == Velocity!LagsByOne
ShowsAWindow == Velocity!Window!Spec
=============================================================================
