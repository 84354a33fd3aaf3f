---------------------------- MODULE CameraPanel ----------------------------
(***************************************************************************)
(* The camera panel of the R2Lab window (dialog.cpp): one VideoCapture,    *)
(* six features that poll it from their own 30 ms QTimer, and the buttons, *)
(* check boxes and combo box with which the operator turns them on and     *)
(* off.  Qt delivers one signal at a time, so each slot is one action; a   *)
(* slot that changes a check box runs that box's slot inside itself, and   *)
(* the action has the effect of both.                                      *)
(*                                                                         *)
(* A feature is named by the index of its tab, which is also what          *)
(* show_priority holds.  Pictures, labels, charts and the results of the   *)
(* image processing are left out: no slot of this panel reads them.        *)
(*                                                                         *)
(* A definition marked "mutant" is a deliberately wrong variant of the one *)
(* that follows it, with which a property is shown to be falsifiable.      *)
(***************************************************************************)
EXTENDS Naturals, SequencesExt

CONSTANTS
  Modes,     (* entries of cmbCapMode the operator selects: 0, 1, 2       *)
  CamOpens,  (* CamOpens[d]: what cap.open(d) may answer for device d     *)
  IpOpens,   (* what cap.open(ip) may answer                              *)
  Boxes,     (* the vision check boxes the operator uses                  *)
  MaxTabs    (* bound on show_priority: the list can grow without limit   *)

IpMode == 2       \* the "Manual" entry of cmbCapMode
Main   == 0
Circle == 1
Qr     == 2
Motion == 3
Face   == 4
Ocr    == 5
Vision == {Circle, Qr, Motion, Face, Ocr}

\* What the VideoCapture is open on: a device index, the IP camera, nothing.
Devices == {0, 1, 2}
Ip     == 3
Closed == 4

ASSUME ModesAssumption == /\ Modes \subseteq Devices
                          /\ 0 \in Modes
ASSUME OpensAssumption == /\ CamOpens \in [Devices -> (SUBSET BOOLEAN) \ {{}}]
                          /\ IpOpens \in (SUBSET BOOLEAN) \ {{}}
ASSUME BoxesAssumption == Boxes \subseteq Vision /\ Circle \in Boxes
ASSUME MaxTabsAssumption == MaxTabs \in Nat

PauseBtn == "btnPause"
DisconnectBtn == "btnDisconnect"
MotionBtn == "btnMotion"
PhotoBtn == "btnSaveByTakingPhoto"
Buttons == {PauseBtn, DisconnectBtn, MotionBtn, PhotoBtn}

VARIABLES
  cap,            (* what the VideoCapture is open on, or Closed           *)
  mode,           (* cmbCapMode->currentIndex()                            *)
  defMode,        (* the default-mode button reads "Disable Def Mode"      *)
  checked,        (* vision features whose check box is checked            *)
  timers,         (* features whose QTimer is active                       *)
  paused,         (* btnPause reads "Play"                                 *)
  buttons,        (* the buttons that are enabled                          *)
  show_priority,  (* tabs in the order their features were turned on       *)
  set_cap_check,
  is_cap_open

camVars == <<cap, set_cap_check, is_cap_open>>
vars == <<cap, mode, defMode, checked, timers, paused, buttons,
          show_priority, set_cap_check, is_cap_open>>

\* The features the operator has turned on.
Enabled == checked \cup (IF defMode THEN {Main} ELSE {})

PanelTypeOK ==
  /\ cap \in Devices \cup {Ip, Closed}
  /\ mode \in Modes
  /\ defMode \in BOOLEAN
  /\ checked \subseteq Boxes
  /\ timers \subseteq Vision \cup {Main}
  /\ paused \in BOOLEAN
  /\ buttons \subseteq Buttons
  /\ set_cap_check \in BOOLEAN
  /\ is_cap_open \in BOOLEAN

TypeOK == PanelTypeOK /\ show_priority \in Seq(Vision \cup {Main})

---------------------------------------------------------------------------
(* The camera.  VideoCapture::open closes what was open before it tries.   *)

OpenedOrMinusOne(d, ok) == IF ok THEN d ELSE 0 - 1       \* mutant
Opened(d, ok) == IF ok THEN d ELSE Closed

\* set_cap() opens the selected device only under this condition.
SetCapActs == (cap = Closed /\ mode # IpMode) \/ set_cap_check

\* set_cap() past that condition, on device d: `kept' are the timers left
\* running by the calling slot, `on' the features start_timers then restarts.
SetCapNoRestart(d, kept, on) ==                           \* mutant
  \E ok \in CamOpens[d] :
    /\ cap' = Opened(d, ok)
    /\ set_cap_check' = FALSE
    /\ is_cap_open' = ok
    /\ timers' = kept

SetCap(d, kept, on) ==
  \E ok \in CamOpens[d] :
    /\ cap' = Opened(d, ok)
    /\ set_cap_check' = FALSE
    /\ is_cap_open' = ok
    /\ timers' = kept \cup (IF ok THEN on ELSE {})

\* The constructor: the combo box starts at device 0, is_cap_open starts TRUE
\* whatever open answers, and set_cap_check is never initialised.
Init ==
  /\ mode = 0
  /\ \E ok \in CamOpens[0] : cap = Opened(0, ok)
  /\ defMode = FALSE
  /\ checked = {}
  /\ timers = {}
  /\ paused = FALSE
  /\ buttons = {}
  /\ show_priority = <<>>
  /\ set_cap_check \in BOOLEAN
  /\ is_cap_open = TRUE

---------------------------------------------------------------------------
(* Turning features on and off.                                            *)

\* The buttons a vision box enables when it is turned on: Pause and
\* Disconnect when either is disabled, then its feature's own.
StopButtonsIfBothOff ==                                   \* mutant
  IF {PauseBtn, DisconnectBtn} \cap buttons = {}
  THEN {PauseBtn, DisconnectBtn} ELSE {}
StopButtons == {PauseBtn, DisconnectBtn}

OwnButton(f) ==
  (IF f = Motion THEN {MotionBtn} ELSE {}) \cup (IF f = Face THEN {PhotoBtn} ELSE {})

ButtonsOn(f) ==
  (buttons \ (IF f = Qr THEN {MotionBtn} ELSE {})) \cup StopButtons \cup OwnButton(f)

ButtonsOffButMotion(f) ==                                 \* mutant
  buttons \ (IF f = Face THEN {PhotoBtn} ELSE {})
ButtonsOff(f) == buttons \ OwnButton(f)

VisionOn(f) ==
  /\ f \in Boxes \ checked
  /\ checked' = checked \cup {f}
  /\ buttons' = ButtonsOn(f)
  /\ show_priority' = Append(show_priority, f)
  /\ UNCHANGED <<mode, defMode, paused>>
  /\ IF cap = Closed /\ SetCapActs
     THEN SetCap(mode, timers, Enabled \cup {f})
     ELSE /\ timers' = IF is_cap_open THEN timers \cup {f} ELSE timers
          /\ UNCHANGED camVars

\* The test each vision box ends with, as it comes out when f has just been
\* unchecked: no box is checked and default mode is off.
NoOtherBox(f) == checked = {f}                            \* mutant
NothingElseOn(f) == Enabled = {f}

\* The branch of that test: every timer stops and the camera is released.
ReleaseAndForget ==                                       \* mutant
  /\ timers' = {}
  /\ cap' = Closed
  /\ set_cap_check' = TRUE
  /\ is_cap_open' = FALSE

ReleaseCamera ==
  /\ timers' = {}
  /\ cap' = Closed
  /\ set_cap_check' = TRUE
  /\ UNCHANGED is_cap_open

StopsNothing(f) == UNCHANGED timers                       \* mutant
StopsOwn(f) == timers' = timers \ {f}

\* list::remove of every tab of gone, where it stands and as often as it does.
Without(list, gone) ==
  LET kept[n \in 0 .. Len(list)] ==
        IF n = 0 THEN <<>>
        ELSE IF list[n] \in gone THEN kept[n - 1] ELSE Append(kept[n - 1], list[n])
  IN  kept[Len(list)]

VisionOff(f) ==
  /\ f \in checked
  /\ checked' = checked \ {f}
  /\ buttons' = ButtonsOff(f)
  /\ show_priority' = Without(show_priority, {f})
  /\ UNCHANGED <<mode, defMode, paused>>
  /\ IF NothingElseOn(f)
     THEN ReleaseCamera
     ELSE StopsOwn(f) /\ UNCHANGED camVars

\* Every entry of cmbDefaultColors checks the circle box.
SelectColour == VisionOn(Circle)

DefModeOn ==
  /\ ~defMode
  /\ Len(show_priority) < MaxTabs
  /\ defMode' = TRUE
  /\ buttons' = buttons \cup {PauseBtn}
  /\ show_priority' = Append(show_priority, Main)
  /\ timers' = timers \cup {Main}
  /\ IF cap = Closed /\ mode # IpMode
     THEN \E ok \in CamOpens[mode] : cap' = Opened(mode, ok)
     ELSE UNCHANGED cap
  /\ UNCHANGED <<mode, checked, paused, set_cap_check, is_cap_open>>

DefModeOff ==
  /\ defMode
  /\ defMode' = FALSE
  /\ timers' = timers \ {Main}
  /\ show_priority' = Without(show_priority, {Main})
  /\ IF checked = {}
     THEN cap' = Closed /\ buttons' = buttons \ {PauseBtn}
     ELSE UNCHANGED <<cap, buttons>>
  /\ UNCHANGED <<mode, checked, paused, set_cap_check, is_cap_open>>

---------------------------------------------------------------------------
(* Pausing, disconnecting, changing the source.                            *)

Pause ==
  /\ PauseBtn \in buttons
  /\ ~paused
  /\ paused' = TRUE
  /\ buttons' = buttons \ {PhotoBtn, MotionBtn}
  /\ timers' = {}
  /\ UNCHANGED <<mode, defMode, checked, show_priority>>
  /\ UNCHANGED camVars

Play ==
  /\ PauseBtn \in buttons
  /\ paused
  /\ paused' = FALSE
  /\ timers' = timers \cup Enabled
  /\ UNCHANGED <<mode, defMode, checked, buttons, show_priority>>
  /\ UNCHANGED camVars

\* Disconnect first selects colour 0, whose slot turns the circle box on when
\* it is off (possibly opening a closed camera), then unchecks every box.  The
\* last box to go runs the release branch of its slot unless default mode is
\* still on; default mode's entry is never taken off show_priority.
CircleMayOpen == Circle \notin checked /\ cap = Closed /\ SetCapActs

UncheckedButCircle == Vision \ {Circle}                   \* mutant
Unchecked == Vision

Disconnect ==
  /\ DisconnectBtn \in buttons
  /\ checked' = {}
  /\ defMode' = FALSE
  /\ timers' = {}
  /\ cap' = Closed
  /\ buttons' = {}
  /\ show_priority' = Without(show_priority, Unchecked)
  /\ UNCHANGED <<mode, paused>>
  /\ IF CircleMayOpen
     THEN \E ok \in CamOpens[mode] : is_cap_open' = ok
     ELSE UNCHANGED is_cap_open
  /\ set_cap_check' = (~defMode \/ (set_cap_check /\ ~CircleMayOpen))

\* on_cmbCapMode_activated: stop the timers and release if the camera is
\* open, then call set_cap unless "Manual" was chosen.
SelectMode(m) ==
  LET kept == IF cap = Closed THEN timers ELSE {} IN
  /\ mode' = m
  /\ IF m = IpMode
     THEN /\ cap' = Closed
          /\ timers' = kept
          /\ UNCHANGED <<set_cap_check, is_cap_open>>
     ELSE SetCap(m, kept, Enabled)
  /\ UNCHANGED <<defMode, checked, paused, buttons, show_priority>>

\* on_btnSetIp_clicked with the four parts filled in; set_ipVisibility shows
\* the button in Manual mode only.  set_cap then reopens device 2 if set_cap_check is set.
IpAlwaysShown == TRUE                                     \* mutant
IpShown == mode = IpMode

SetIp ==
  /\ IpShown
  /\ IF set_cap_check
     THEN SetCap(mode, timers, Enabled)
     ELSE /\ \E ok \in IpOpens : cap' = Opened(Ip, ok)
          /\ UNCHANGED <<set_cap_check, is_cap_open, timers>>
  /\ UNCHANGED <<mode, defMode, checked, paused, buttons, show_priority>>

\* Either "complete log" button: it closes the XML file and stops all timers.
CompleteLog ==
  /\ timers' = {}
  /\ UNCHANGED <<mode, defMode, checked, paused, buttons, show_priority>>
  /\ UNCHANGED camVars

Next ==
  \/ \E f \in Boxes : VisionOn(f) \/ VisionOff(f)
  \/ SelectColour
  \/ DefModeOn \/ DefModeOff
  \/ Pause \/ Play
  \/ Disconnect
  \/ \E m \in Modes : SelectMode(m)
  \/ SetIp
  \/ CompleteLog

Spec == Init /\ [][Next]_vars

---------------------------------------------------------------------------
(* Properties of every instance.                                           *)

\* No timer keeps polling for a feature that is off: a stray tick would go on
\* driving charts, logs and the serial payload of a feature the operator
\* believes stopped.
NoStrayTimer == timers \subseteq Enabled

\* show_priority holds each vision feature that is on exactly once and no
\* other vision feature, although Disconnect turns boxes on and off inside
\* its own slot and list::remove deletes every occurrence.
ListMirrorsBoxes ==
  /\ ToSet(show_priority) \cap Vision = checked
  /\ \A i, j \in DOMAIN show_priority :
       show_priority[i] = show_priority[j] /\ show_priority[i] \in Vision => i = j
  /\ defMode => Main \in ToSet(show_priority)

\* Whatever is on can be stopped: with a vision feature on, both Pause and
\* Disconnect are enabled; with default mode on, at least Pause.
ControlsReachable ==
  /\ checked # {} => {PauseBtn, DisconnectBtn} \subseteq buttons
  /\ defMode => PauseBtn \in buttons

\* The motion and photo buttons act on their feature's state, so they are
\* never enabled while the feature is off.
ButtonsNeedFeature ==
  /\ MotionBtn \in buttons => Motion \in checked
  /\ PhotoBtn \in buttons => Face \in checked

\* The camera that is open is the one cmbCapMode shows: the selected device,
\* or in Manual mode the IP camera or device 2 (set_cap's index).
SourceMatchesMode == cap \in {Closed, mode} \/ (cap = Ip /\ mode = IpMode)

\* The panel keeps the promise of CameraLease: no feature that is turned on
\* closes the camera for the others, and the camera is released in the very
\* step in which the last feature goes off.
Lease == INSTANCE CameraLease
           WITH Features <- Vision \cup {Main},
                users <- Enabled, open <- (cap # Closed)
LeaseSpec == Lease!Spec

---------------------------------------------------------------------------
(* Properties of the instances whose cameras always open and whose operator*)
(* never selects Manual.                                                   *)

ReliableLocal == /\ Modes \subseteq {0, 1}
                 /\ \A d \in {0, 1} : CamOpens[d] = {TRUE}

\* Nothing ever reads a closed camera: a circle, QR or motion tick on one
\* hands an empty picture to cvtColor, which throws out of the slot, and the
\* photo button hands it to the face detector.
NeverReadsClosed ==
  timers # {} \/ PhotoBtn \in buttons => cap # Closed

\* A feature turned on in this step is polled after it.
TurnedOnRuns == [][Enabled' \ Enabled \subseteq timers']_vars

\* A polled feature that stays on stays polled, across mode switches and the
\* comings and goings of the others, unless the operator pauses or completes
\* a log.
StopsOnlyOnRequest ==
  [][Pause \/ CompleteLog \/ timers \cap Enabled' \subseteq timers']_vars

============================================================================
