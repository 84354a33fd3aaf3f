------------------------- MODULE CameraPanel_proofs -------------------------
(***************************************************************************)
(* Proofs about CameraPanel, for every choice of modes, of check boxes, of *)
(* answers of the cameras and for a list of tabs of any length.            *)
(***************************************************************************)
EXTENDS CameraPanel, Integers, SequenceTheorems, Induction, TLAPS

\* The inductive invariant.  ControlsReachable, ButtonsNeedFeature and
\* SourceMatchesMode are inductive as they stand; NoStrayTimer needs the
\* types, which keep Main apart from the vision features.
IInv ==
  /\ PanelTypeOK
  /\ NoStrayTimer
  /\ ControlsReachable
  /\ ButtonsNeedFeature
  /\ SourceMatchesMode

LEMMA InitIInv == Init => IInv
  BY ModesAssumption, OpensAssumption
  DEF Init, IInv, PanelTypeOK, NoStrayTimer, ControlsReachable, ButtonsNeedFeature,
      SourceMatchesMode, Opened, Enabled, Devices, Ip, Closed, Buttons,
      PauseBtn, DisconnectBtn, MotionBtn, PhotoBtn

\* What a call of set_cap does to the camera and the flags.
LEMMA SetCapEffect ==
  ASSUME NEW d \in Modes, NEW kept, NEW on, SetCap(d, kept, on)
  PROVE  /\ cap' \in {d, Closed}
         /\ set_cap_check' \in BOOLEAN
         /\ is_cap_open' \in BOOLEAN
         /\ timers' \subseteq kept \cup on
         /\ kept \subseteq timers'
  BY ModesAssumption, OpensAssumption DEF SetCap, Opened, Devices

LEMMA VisionOnIInv ==
  ASSUME IInv, NEW f \in Boxes, VisionOn(f)
  PROVE  IInv'
<1> USE ModesAssumption, BoxesAssumption
    DEF IInv, PanelTypeOK, Main, Circle, Qr, Motion, Face, Ocr, Vision
<1>1. /\ timers' \subseteq timers \cup Enabled \cup {f}
      /\ cap' \in {cap, mode, Closed}
      /\ set_cap_check' \in BOOLEAN
      /\ is_cap_open' \in BOOLEAN
  <2>1. CASE cap = Closed /\ SetCapActs
    BY <2>1, SetCapEffect DEF VisionOn
  <2>2. CASE ~(cap = Closed /\ SetCapActs)
    BY <2>2 DEF VisionOn, camVars
  <2> QED BY <2>1, <2>2
<1>2. Enabled' = Enabled \cup {f}
  BY DEF VisionOn, Enabled
<1>3. PanelTypeOK'
  BY <1>1 DEF VisionOn, NoStrayTimer, Enabled, ButtonsOn, StopButtons, OwnButton, Buttons,
              Devices, Closed
<1>4. NoStrayTimer'
  BY <1>1, <1>2 DEF NoStrayTimer
<1>5. ControlsReachable'
  BY DEF VisionOn, ControlsReachable, ButtonsOn, StopButtons, OwnButton,
         PauseBtn, DisconnectBtn, MotionBtn, PhotoBtn
<1>6. ButtonsNeedFeature'
  BY DEF VisionOn, ButtonsNeedFeature, ButtonsOn, StopButtons, OwnButton,
         PauseBtn, DisconnectBtn, MotionBtn, PhotoBtn
<1>7. SourceMatchesMode'
  BY <1>1 DEF VisionOn, SourceMatchesMode
<1> QED BY <1>3, <1>4, <1>5, <1>6, <1>7

LEMMA VisionOffIInv ==
  ASSUME IInv, NEW f \in Boxes, VisionOff(f)
  PROVE  IInv'
<1> USE ModesAssumption, BoxesAssumption
    DEF IInv, PanelTypeOK, Main, Circle, Qr, Motion, Face, Ocr, Vision
<1>1. /\ timers' \subseteq timers \ {f}
      /\ cap' \in {cap, Closed}
      /\ set_cap_check' \in BOOLEAN
      /\ is_cap_open' \in BOOLEAN
  BY DEF VisionOff, NothingElseOn, ReleaseCamera, StopsOwn, camVars
<1>2. Enabled' = Enabled \ {f}
  BY DEF VisionOff, Enabled
<1>3. PanelTypeOK'
  BY <1>1 DEF VisionOff, ButtonsOff, Devices, Closed
<1>4. NoStrayTimer'
  BY <1>1, <1>2 DEF NoStrayTimer
<1>5. ControlsReachable'
  BY DEF VisionOff, ControlsReachable, ButtonsOff, OwnButton,
         PauseBtn, DisconnectBtn, MotionBtn, PhotoBtn
<1>6. ButtonsNeedFeature'
  BY DEF VisionOff, ButtonsNeedFeature, ButtonsOff, OwnButton,
         PauseBtn, DisconnectBtn, MotionBtn, PhotoBtn
<1>7. SourceMatchesMode'
  BY <1>1 DEF VisionOff, SourceMatchesMode
<1> QED BY <1>3, <1>4, <1>5, <1>6, <1>7

LEMMA DefModeIInv ==
  ASSUME IInv, DefModeOn \/ DefModeOff
  PROVE  IInv'
<1> USE ModesAssumption, OpensAssumption, BoxesAssumption
    DEF IInv, PanelTypeOK, Main, Circle, Qr, Motion, Face, Ocr, Vision
<1>1. CASE DefModeOn
  <2>1. cap' \in {cap, mode, Closed}
    BY <1>1 DEF DefModeOn, Opened
  <2>2. Enabled' = Enabled \cup {Main}
    BY <1>1 DEF DefModeOn, Enabled
  <2>3. PanelTypeOK'
    BY <1>1, <2>1 DEF DefModeOn, Devices, Closed, Buttons
  <2>4. NoStrayTimer'
    BY <1>1, <2>2 DEF DefModeOn, NoStrayTimer
  <2>5. ControlsReachable' /\ ButtonsNeedFeature'
    BY <1>1 DEF DefModeOn, ControlsReachable, ButtonsNeedFeature,
                PauseBtn, DisconnectBtn, MotionBtn, PhotoBtn
  <2>6. SourceMatchesMode'
    BY <1>1, <2>1 DEF DefModeOn, SourceMatchesMode
  <2> QED BY <2>3, <2>4, <2>5, <2>6
<1>2. CASE DefModeOff
  <2>1. cap' \in {cap, Closed} /\ buttons' \subseteq buttons
    BY <1>2 DEF DefModeOff
  <2>2. Enabled' = Enabled \ {Main}
    BY <1>2 DEF DefModeOff, Enabled
  <2>3. PanelTypeOK'
    BY <1>2, <2>1 DEF DefModeOff, Devices, Closed
  <2>4. NoStrayTimer'
    BY <1>2, <2>2 DEF DefModeOff, NoStrayTimer
  <2>5. ControlsReachable' /\ ButtonsNeedFeature'
    BY <1>2 DEF DefModeOff, ControlsReachable, ButtonsNeedFeature,
                PauseBtn, DisconnectBtn, MotionBtn, PhotoBtn
  <2>6. SourceMatchesMode'
    BY <1>2, <2>1 DEF DefModeOff, SourceMatchesMode
  <2> QED BY <2>3, <2>4, <2>5, <2>6
<1> QED BY <1>1, <1>2

\* Pause, Play and CompleteLog touch neither the camera nor what is on.
LEMMA TimersOnlyIInv ==
  ASSUME IInv, Pause \/ Play \/ CompleteLog
  PROVE  IInv'
<1> USE BoxesAssumption
    DEF IInv, PanelTypeOK, Main, Circle, Qr, Motion, Face, Ocr, Vision
<1>1. /\ UNCHANGED <<mode, defMode, checked>> /\ UNCHANGED camVars
      /\ timers' \subseteq timers \cup Enabled
      /\ buttons' \subseteq buttons
      /\ PauseBtn \in buttons => PauseBtn \in buttons'
      /\ DisconnectBtn \in buttons => DisconnectBtn \in buttons'
      /\ paused' \in BOOLEAN
  BY DEF Pause, Play, CompleteLog, PauseBtn, DisconnectBtn, MotionBtn, PhotoBtn
<1>2. Enabled' = Enabled
  BY <1>1 DEF Enabled
<1>3. PanelTypeOK'
  BY <1>1 DEF camVars, NoStrayTimer, Enabled
<1>4. NoStrayTimer'
  BY <1>1, <1>2 DEF NoStrayTimer
<1>5. ControlsReachable' /\ ButtonsNeedFeature'
  BY <1>1 DEF ControlsReachable, ButtonsNeedFeature
<1>6. SourceMatchesMode'
  BY <1>1 DEF camVars, SourceMatchesMode
<1> QED BY <1>3, <1>4, <1>5, <1>6

LEMMA DisconnectIInv ==
  ASSUME IInv, Disconnect
  PROVE  IInv'
<1>1. PanelTypeOK'
  BY OpensAssumption, ModesAssumption
  DEF IInv, PanelTypeOK, Disconnect, CircleMayOpen, Devices
<1>2. NoStrayTimer' /\ ControlsReachable' /\ ButtonsNeedFeature' /\ SourceMatchesMode'
  BY DEF Disconnect, NoStrayTimer, ControlsReachable, ButtonsNeedFeature, SourceMatchesMode
<1> QED BY <1>1, <1>2 DEF IInv

LEMMA SelectModeIInv ==
  ASSUME IInv, NEW m \in Modes, SelectMode(m)
  PROVE  IInv'
<1> USE ModesAssumption, BoxesAssumption
    DEF IInv, PanelTypeOK, Main, Circle, Qr, Motion, Face, Ocr, Vision
<1>1. /\ mode' = m
      /\ timers' \subseteq timers \cup Enabled
      /\ cap' \in {m, Closed}
      /\ set_cap_check' \in BOOLEAN
      /\ is_cap_open' \in BOOLEAN
  <2>1. CASE m = IpMode
    BY <2>1 DEF SelectMode
  <2>2. CASE m # IpMode
    BY <2>2, SetCapEffect DEF SelectMode
  <2> QED BY <2>1, <2>2
<1>2. UNCHANGED <<defMode, checked, paused, buttons>> /\ Enabled' = Enabled
  BY DEF SelectMode, Enabled
<1>3. PanelTypeOK'
  BY <1>1, <1>2 DEF NoStrayTimer, Enabled, Devices, Closed
<1>4. NoStrayTimer' /\ ControlsReachable' /\ ButtonsNeedFeature' /\ SourceMatchesMode'
  BY <1>1, <1>2 DEF NoStrayTimer, ControlsReachable, ButtonsNeedFeature, SourceMatchesMode
<1> QED BY <1>3, <1>4

LEMMA SetIpIInv ==
  ASSUME IInv, SetIp
  PROVE  IInv'
<1> USE ModesAssumption, BoxesAssumption
    DEF IInv, PanelTypeOK, Main, Circle, Qr, Motion, Face, Ocr, Vision
<1>1. /\ mode = IpMode
      /\ timers' \subseteq timers \cup Enabled
      /\ cap' \in {mode, Ip, Closed}
      /\ set_cap_check' \in BOOLEAN
      /\ is_cap_open' \in BOOLEAN
  <2>1. CASE set_cap_check
    BY <2>1, SetCapEffect DEF SetIp, IpShown
  <2>2. CASE ~set_cap_check
    BY <2>2 DEF SetIp, IpShown, Opened
  <2> QED BY <2>1, <2>2
<1>2. UNCHANGED <<mode, defMode, checked, paused, buttons>> /\ Enabled' = Enabled
  BY DEF SetIp, Enabled
<1>3. PanelTypeOK'
  BY <1>1, <1>2 DEF NoStrayTimer, Enabled, Devices, Ip, Closed
<1>4. NoStrayTimer' /\ ControlsReachable' /\ ButtonsNeedFeature' /\ SourceMatchesMode'
  BY <1>1, <1>2 DEF NoStrayTimer, ControlsReachable, ButtonsNeedFeature, SourceMatchesMode
<1> QED BY <1>3, <1>4

LEMMA NextIInv == IInv /\ [Next]_vars => IInv'
<1> SUFFICES ASSUME IInv, [Next]_vars PROVE IInv'
  OBVIOUS
<1>1. CASE \E f \in Boxes : VisionOn(f)
  BY <1>1, VisionOnIInv
<1>2. CASE \E f \in Boxes : VisionOff(f)
  BY <1>2, VisionOffIInv
<1>3. CASE SelectColour
  BY <1>3, VisionOnIInv, BoxesAssumption DEF SelectColour
<1>4. CASE DefModeOn \/ DefModeOff
  BY <1>4, DefModeIInv
<1>5. CASE Pause \/ Play \/ CompleteLog
  BY <1>5, TimersOnlyIInv
<1>6. CASE Disconnect
  BY <1>6, DisconnectIInv
<1>7. CASE \E m \in Modes : SelectMode(m)
  BY <1>7, SelectModeIInv
<1>8. CASE SetIp
  BY <1>8, SetIpIInv
<1>9. CASE UNCHANGED vars
  BY <1>9 DEF vars, IInv, PanelTypeOK, NoStrayTimer, ControlsReachable, ButtonsNeedFeature,
              SourceMatchesMode, Enabled
<1> QED BY <1>1, <1>2, <1>3, <1>4, <1>5, <1>6, <1>7, <1>8, <1>9 DEF Next

LEMMA SpecIInv == Spec => []IInv
  BY InitIInv, NextIInv, PTL DEF Spec

\* Whatever the cameras answer and in whatever order the slots run, a timer
\* that fires belongs to a feature that is on (start_timers, stop_timers and
\* the stop calls of the box slots, dialog.cpp:136-160 and 709-950).
THEOREM NoStrayTimerAlways == Spec => []NoStrayTimer
<1>1. IInv => NoStrayTimer
  BY DEF IInv
<1> QED BY <1>1, SpecIInv, PTL

\* What is on can always be stopped (the setEnabled calls on btnPause and
\* btnDisconnect, dialog.cpp:513, 534, 586-587, 717-720).
THEOREM ControlsReachableAlways == Spec => []ControlsReachable
<1>1. IInv => ControlsReachable
  BY DEF IInv
<1> QED BY <1>1, SpecIInv, PTL

\* The motion and photo buttons are enabled only while their feature is on
\* (dialog.cpp:548-549, 725, 824, 841, 878, 894).
THEOREM ButtonsNeedFeatureAlways == Spec => []ButtonsNeedFeature
<1>1. IInv => ButtonsNeedFeature
  BY DEF IInv
<1> QED BY <1>1, SpecIInv, PTL

\* An open camera is the one the combo box shows (set_cap, btnSetIp and
\* cmbCapMode, dialog.cpp:488-502, 1019-1052).
THEOREM SourceMatchesModeAlways == Spec => []SourceMatchesMode
<1>1. IInv => SourceMatchesMode
  BY DEF IInv
<1> QED BY <1>1, SpecIInv, PTL

---------------------------------------------------------------------------
(* The panel implements CameraLease.  Each action maps to one abstract     *)
(* action or to a stutter; only the types are needed.                      *)

LEMMA LeaseStep == IInv /\ [Next]_vars => [Lease!Next]_(Lease!vars)
<1> SUFFICES ASSUME IInv, [Next]_vars PROVE [Lease!Next]_(Lease!vars)
  OBVIOUS
<1> USE BoxesAssumption DEF Main, Circle, Qr, Motion, Face, Ocr, Vision
<1>0. checked \subseteq Vision /\ defMode \in BOOLEAN
  BY DEF IInv, PanelTypeOK
<1>1. ASSUME NEW f \in Boxes, VisionOn(f) PROVE Lease!Next
  <2>1. f \notin Enabled /\ Enabled' = Enabled \cup {f}
    BY <1>0, <1>1 DEF VisionOn, Enabled
  <2>2. cap # Closed => cap' # Closed
    BY <1>1 DEF VisionOn, camVars
  <2>3. Lease!Join(f)
    BY <2>1, <2>2 DEF Lease!Join
  <2> QED BY <2>3 DEF Lease!Next
<1>2. ASSUME NEW f \in Boxes, VisionOff(f) PROVE Lease!Next
  <2>1. f \in Enabled /\ Enabled' = Enabled \ {f}
    BY <1>0, <1>2 DEF VisionOff, Enabled
  <2>2. (cap' # Closed) = (cap # Closed /\ Enabled' # {})
    BY <1>2, <2>1 DEF VisionOff, NothingElseOn, ReleaseCamera, camVars
  <2>3. Lease!Leave(f)
    BY <2>1, <2>2 DEF Lease!Leave
  <2> QED BY <2>3 DEF Lease!Next
<1>3. CASE SelectColour
  BY <1>1, <1>3 DEF SelectColour
<1>4. CASE DefModeOn
  <2>1. Main \notin Enabled /\ Enabled' = Enabled \cup {Main}
    BY <1>0, <1>4 DEF DefModeOn, Enabled
  <2>2. cap # Closed => cap' # Closed
    BY <1>4 DEF DefModeOn
  <2>3. Lease!Join(Main)
    BY <2>1, <2>2 DEF Lease!Join
  <2> QED BY <2>3 DEF Lease!Next
<1>5. CASE DefModeOff
  <2>1. Main \in Enabled /\ Enabled' = Enabled \ {Main} /\ Enabled' = checked
    BY <1>0, <1>5 DEF DefModeOff, Enabled
  <2>2. (cap' # Closed) = (cap # Closed /\ Enabled' # {})
    BY <1>5, <2>1 DEF DefModeOff
  <2>3. Lease!Leave(Main)
    BY <2>1, <2>2 DEF Lease!Leave
  <2> QED BY <2>3 DEF Lease!Next
<1>6. CASE Pause \/ Play \/ CompleteLog
  BY <1>6 DEF Pause, Play, CompleteLog, camVars, Enabled, Lease!vars
<1>7. CASE Disconnect
  BY <1>7 DEF Disconnect, Enabled, Lease!LeaveAll, Lease!Next
<1>8. CASE (\E m \in Modes : SelectMode(m)) \/ SetIp
  BY <1>8 DEF SelectMode, SetIp, Enabled, Lease!Switch, Lease!Next
<1>9. CASE UNCHANGED vars
  BY <1>9 DEF vars, Enabled, Lease!vars
<1> QED BY <1>1, <1>2, <1>3, <1>4, <1>5, <1>6, <1>7, <1>8, <1>9 DEF Next

\* The check boxes, the default-mode button and Disconnect share the camera as
\* CameraLease promises (dialog.cpp:504-599 and 709-950).
THEOREM PanelImplementsLease == Spec => LeaseSpec
<1>1. Init => Lease!Init
  BY DEF Init, Lease!Init, Enabled
<1> QED BY <1>1, LeaseStep, SpecIInv, PTL DEF Spec, LeaseSpec, Lease!Spec

---------------------------------------------------------------------------
(* Cameras that always open, no Manual mode.                               *)

\* Under ReliableLocal a feature that is on has the camera, and is_cap_open,
\* which starts TRUE, is never cleared.
Held == (Enabled # {} => cap # Closed) /\ is_cap_open = TRUE

LEMMA ReliableOpens ==
  ASSUME ReliableLocal, NEW d \in Modes
  PROVE  CamOpens[d] = {TRUE} /\ d # Closed
<1>1. d \in {0, 1}
  BY Zenon DEF ReliableLocal
<1>2. \A e \in {0, 1} : CamOpens[e] = {TRUE}
  BY Zenon DEF ReliableLocal
<1>3. CamOpens[d] = {TRUE}
  BY <1>1, <1>2, Zenon
<1>4. d # Closed
  BY <1>1 DEF Closed
<1> QED BY <1>3, <1>4

\* A call of set_cap on a reliable device opens it and restarts every timer.
LEMMA ReliableSetCap ==
  ASSUME ReliableLocal, NEW d \in Modes, NEW kept, NEW on, SetCap(d, kept, on)
  PROVE  cap' = d /\ cap' # Closed /\ is_cap_open' = TRUE /\ timers' = kept \cup on
<1>1. CamOpens[d] = {TRUE} /\ d # Closed
  BY ReliableOpens
<1>2. PICK ok \in {TRUE} : /\ cap' = Opened(d, ok)
                           /\ is_cap_open' = ok
                           /\ timers' = kept \cup (IF ok THEN on ELSE {})
  BY <1>1, Zenon DEF SetCap
<1>3. ok = TRUE
  OBVIOUS
<1> QED BY <1>1, <1>2, <1>3, Zenon DEF Opened

LEMMA ReliableSetCapActs ==
  ASSUME ReliableLocal, IInv, cap = Closed
  PROVE  SetCapActs
  BY DEF ReliableLocal, IInv, PanelTypeOK, SetCapActs, IpMode

LEMMA HeldStep == ReliableLocal /\ IInv /\ Held /\ [Next]_vars => Held'
<1> SUFFICES ASSUME ReliableLocal, IInv, Held, [Next]_vars PROVE Held'
  OBVIOUS
<1> USE BoxesAssumption DEF Main, Circle, Qr, Motion, Face, Ocr, Vision
<1>0. checked \subseteq Vision /\ defMode \in BOOLEAN /\ mode \in Modes /\ mode # IpMode
  BY DEF IInv, PanelTypeOK, ReliableLocal, IpMode
<1>1. ASSUME NEW f \in Boxes, VisionOn(f) PROVE Held'
  BY <1>0, <1>1, ReliableSetCap, ReliableSetCapActs DEF VisionOn, Held, camVars
<1>2. ASSUME NEW f \in Boxes, VisionOff(f) PROVE Held'
  <2>1. is_cap_open' = is_cap_open
    BY <1>2 DEF VisionOff, ReleaseCamera, camVars
  <2>2. Enabled' = Enabled \ {f}
    BY <1>0, <1>2 DEF VisionOff, Enabled
  <2>3. Enabled' = {} \/ cap' = cap
    BY <1>2, <2>2 DEF VisionOff, NothingElseOn, ReleaseCamera, camVars
  <2> QED BY <2>1, <2>2, <2>3 DEF Held
<1>3. CASE SelectColour
  BY <1>1, <1>3 DEF SelectColour
<1>4. CASE DefModeOn
  <2>1. CamOpens[mode] = {TRUE} /\ mode # Closed
    BY <1>0, ReliableOpens
  <2>2. CASE cap = Closed
    <3>1. PICK ok \in {TRUE} : cap' = Opened(mode, ok)
      BY <1>0, <1>4, <2>1, <2>2, Zenon DEF DefModeOn
    <3>2. cap' = mode
      BY <3>1, Zenon DEF Opened
    <3> QED BY <1>4, <2>1, <3>2 DEF DefModeOn, Held
  <2>3. CASE cap # Closed
    BY <1>4, <2>3 DEF DefModeOn, Held
  <2> QED BY <2>2, <2>3
<1>5. CASE DefModeOff
  BY <1>5 DEF DefModeOff, Held, Enabled
<1>6. CASE Pause \/ Play \/ CompleteLog
  <2>1. UNCHANGED <<cap, is_cap_open, defMode, checked>>
    BY <1>6 DEF Pause, Play, CompleteLog, camVars
  <2> QED BY <2>1 DEF Held, Enabled
<1>7. CASE Disconnect
  BY <1>0, <1>7 DEF Disconnect, Held, Enabled, ReliableLocal
<1>8. ASSUME NEW m \in Modes, SelectMode(m) PROVE Held'
  <2>1. m # IpMode
    BY DEF ReliableLocal, IpMode
  <2>2. SetCap(m, IF cap = Closed THEN timers ELSE {}, Enabled)
    BY <1>8, <2>1 DEF SelectMode
  <2>3. cap' # Closed /\ is_cap_open' = TRUE
    BY <2>2, ReliableSetCap
  <2> QED BY <2>3 DEF Held
<1>9. CASE SetIp
  BY <1>0, <1>9 DEF SetIp, IpShown
<1>10. CASE UNCHANGED vars
  BY <1>10 DEF vars, Held, Enabled
<1> QED BY <1>1, <1>2, <1>3, <1>4, <1>5, <1>6, <1>7, <1>8, <1>9, <1>10 DEF Next

LEMMA SpecHeld == ReliableLocal => (Spec => []Held)
<1> SUFFICES ASSUME ReliableLocal PROVE Spec => []Held
  OBVIOUS
<1>1. Init => Held
  BY DEF Init, Held, Enabled
<1>2. IInv /\ Held /\ [Next]_vars => Held'
  BY HeldStep
<1> QED BY <1>1, <1>2, SpecIInv, PTL DEF Spec

\* No tick and no photo reads a closed camera (the timers' slots take cap_frame
\* from cap unconditionally, dialog.cpp:182-198 and 1081-1088).
THEOREM NeverReadsClosedAlways == ReliableLocal => (Spec => []NeverReadsClosed)
<1> SUFFICES ASSUME ReliableLocal PROVE Spec => []NeverReadsClosed
  OBVIOUS
<1>1. IInv /\ Held => NeverReadsClosed
  BY DEF IInv, NoStrayTimer, ButtonsNeedFeature, Held, NeverReadsClosed, Enabled
<1> QED BY <1>1, SpecIInv, SpecHeld, PTL

\* A feature turned on is polled from then on (the is_cap_open test of the box
\* slots, dialog.cpp:727 and its four copies, never skips a start).
THEOREM TurnedOnRunsAlways == ReliableLocal => (Spec => TurnedOnRuns)
<1> SUFFICES ASSUME ReliableLocal PROVE Spec => TurnedOnRuns
  OBVIOUS
<1>1. IInv /\ Held /\ [Next]_vars => [Enabled' \ Enabled \subseteq timers']_vars
  <2> SUFFICES ASSUME IInv, Held, [Next]_vars
               PROVE  Enabled' \ Enabled \subseteq timers' \/ UNCHANGED vars
    OBVIOUS
  <2>1. ASSUME NEW f \in Boxes, VisionOn(f) PROVE Enabled' \ Enabled \subseteq timers'
    <3>1. Enabled' = Enabled \cup {f}
      BY <2>1 DEF VisionOn, Enabled
    <3>2. CASE cap = Closed
      <4>1. mode \in Modes /\ SetCap(mode, timers, Enabled \cup {f})
        BY <2>1, <3>2, ReliableSetCapActs DEF VisionOn, IInv, PanelTypeOK
      <4>2. timers' = timers \cup (Enabled \cup {f})
        BY <4>1, ReliableSetCap
      <4> QED BY <3>1, <4>2
    <3>3. CASE cap # Closed
      BY <2>1, <3>1, <3>3 DEF VisionOn, Held
    <3> QED BY <3>2, <3>3
  <2>2. CASE SelectColour
    BY <2>1, <2>2, BoxesAssumption DEF SelectColour
  <2>3. CASE DefModeOn
    BY <2>3 DEF DefModeOn, Enabled
  <2>4. ASSUME \/ \E f \in Boxes : VisionOff(f)
               \/ DefModeOff \/ Pause \/ Play \/ CompleteLog \/ Disconnect
               \/ \E m \in Modes : SelectMode(m)
               \/ SetIp
        PROVE  Enabled' \subseteq Enabled
    <3>1. checked' \subseteq checked /\ (defMode' => defMode)
      <4>1. CASE \E f \in Boxes : VisionOff(f)
        BY <4>1 DEF VisionOff
      <4>2. CASE DefModeOff \/ Pause \/ Play \/ CompleteLog \/ Disconnect
        BY <4>2 DEF DefModeOff, Pause, Play, CompleteLog, Disconnect
      <4>3. CASE (\E m \in Modes : SelectMode(m)) \/ SetIp
        BY <4>3 DEF SelectMode, SetIp
      <4> QED BY <2>4, <4>1, <4>2, <4>3
    <3> QED BY <3>1 DEF Enabled
  <2> QED BY <2>1, <2>2, <2>3, <2>4 DEF Next
<1> QED BY <1>1, SpecIInv, SpecHeld, PTL DEF Spec, TurnedOnRuns

\* Only Pause and the complete-log buttons stop polling a feature that stays on
\* (on_cmbCapMode_activated restarts what it stops, dialog.cpp:1031-1052).
THEOREM StopsOnlyOnRequestAlways == ReliableLocal => (Spec => StopsOnlyOnRequest)
<1> SUFFICES ASSUME ReliableLocal PROVE Spec => StopsOnlyOnRequest
  OBVIOUS
<1>1. IInv /\ [Next]_vars
        => [Pause \/ CompleteLog \/ timers \cap Enabled' \subseteq timers']_vars
  <2> SUFFICES ASSUME IInv, [Next]_vars
               PROVE  \/ Pause \/ CompleteLog \/ UNCHANGED vars
                      \/ timers \cap Enabled' \subseteq timers'
    OBVIOUS
  <2>0. /\ timers \subseteq Enabled /\ checked \subseteq Vision /\ mode \in Modes
        /\ mode # IpMode
    BY BoxesAssumption DEF IInv, PanelTypeOK, NoStrayTimer, ReliableLocal, IpMode
  <2>1. ASSUME NEW f \in Boxes, VisionOn(f) PROVE timers \subseteq timers'
    BY <2>0, <2>1, SetCapEffect DEF VisionOn
  <2>2. ASSUME NEW f \in Boxes, VisionOff(f) PROVE timers \cap Enabled' \subseteq timers'
    <3>1. Enabled' = Enabled \ {f}
      BY <2>0, <2>2, BoxesAssumption
      DEF VisionOff, Enabled, Main, Circle, Qr, Motion, Face, Ocr, Vision
    <3> QED BY <2>2, <3>1 DEF VisionOff, NothingElseOn, ReleaseCamera, StopsOwn
  <2>3. CASE SelectColour
    BY <2>1, <2>3, BoxesAssumption DEF SelectColour
  <2>4. CASE DefModeOn \/ Play
    BY <2>4 DEF DefModeOn, Play
  <2>5. CASE DefModeOff
    BY <2>0, <2>5 DEF DefModeOff, Enabled, Main, Circle, Qr, Motion, Face, Ocr, Vision
  <2>6. CASE Disconnect
    BY <2>6 DEF Disconnect, Enabled
  <2>7. ASSUME NEW m \in Modes, SelectMode(m) PROVE timers \cap Enabled' \subseteq timers'
    <3>1. m # IpMode
      BY DEF ReliableLocal, IpMode
    <3>2. SetCap(m, IF cap = Closed THEN timers ELSE {}, Enabled) /\ Enabled' = Enabled
      BY <2>7, <3>1 DEF SelectMode, Enabled
    <3>3. timers' = (IF cap = Closed THEN timers ELSE {}) \cup Enabled
      BY <3>2, ReliableSetCap
    <3> QED BY <3>2, <3>3
  <2>8. ~SetIp
    BY <2>0 DEF SetIp, IpShown
  <2> QED BY <2>1, <2>2, <2>3, <2>4, <2>5, <2>6, <2>7, <2>8 DEF Next
<1> QED BY <1>1, SpecIInv, PTL DEF Spec, StopsOnlyOnRequest

---------------------------------------------------------------------------
(* The list of tabs.  Without is a recursive function, so what it leaves   *)
(* is shown by induction on how far it has come.                           *)

\* kept is what the definition of Without defines.
IsKept(s, gone, n, kept) ==
  /\ kept[0] = <<>>
  /\ \A m \in 1 .. n :
       kept[m] = IF s[m] \in gone THEN kept[m - 1] ELSE Append(kept[m - 1], s[m])

LEMMA KeptExists ==
  ASSUME NEW S, NEW s \in Seq(S), NEW gone
  PROVE  \E kept \in [0 .. Len(s) -> Seq(S)] : IsKept(s, gone, Len(s), kept)
<1> DEFINE Done(n) == \E kept \in [0 .. n -> Seq(S)] : IsKept(s, gone, n, kept)
           T == {n \in Nat : n <= Len(s) => Done(n)}
<1>1. 0 \in T
  <2> DEFINE none == [n \in 0 .. 0 |-> <<>>]
  <2>1. none \in [0 .. 0 -> Seq(S)] /\ IsKept(s, gone, 0, none)
    BY DEF IsKept
  <2> QED BY <2>1
<1>2. ASSUME NEW n \in Nat, n \in T PROVE n + 1 \in T
  <2> SUFFICES ASSUME n + 1 <= Len(s) PROVE Done(n + 1)
    OBVIOUS
  <2>0. Len(s) \in Nat /\ n <= Len(s)
    OBVIOUS
  <2>1. PICK kept \in [0 .. n -> Seq(S)] : IsKept(s, gone, n, kept)
    BY <1>2, <2>0
  <2> DEFINE last == IF s[n + 1] \in gone THEN kept[n] ELSE Append(kept[n], s[n + 1])
             more == [m \in 0 .. n + 1 |-> IF m = n + 1 THEN last ELSE kept[m]]
  <2>2. kept[n] \in Seq(S) /\ s[n + 1] \in S
    BY <2>0
  <2>3. last \in Seq(S)
    BY <2>2
  <2> HIDE DEF last
  <2>4. more \in [0 .. n + 1 -> Seq(S)]
    BY <2>3
  <2>5. more[0] = <<>>
    BY <2>1 DEF IsKept
  <2>6. ASSUME NEW m \in 1 .. n + 1
        PROVE  more[m] = IF s[m] \in gone THEN more[m - 1] ELSE Append(more[m - 1], s[m])
    <3>1. CASE m = n + 1
      <4>1. more[m] = last /\ more[m - 1] = kept[n]
        BY <3>1
      <4> HIDE DEF more
      <4> QED BY <3>1, <4>1 DEF last
    <3>2. CASE m \in 1 .. n
      <4>1. more[m] = kept[m] /\ more[m - 1] = kept[m - 1]
        BY <3>2
      <4> HIDE DEF more
      <4> QED BY <2>1, <3>2, <4>1 DEF IsKept
    <3> QED BY <3>1, <3>2
  <2> HIDE DEF more
  <2>7. IsKept(s, gone, n + 1, more)
    BY <2>5, <2>6 DEF IsKept
  <2> QED BY <2>4, <2>7
<1> HIDE DEF T
<1>3. Nat \subseteq T
  BY <1>1, <1>2, SetInduction
<1>4. Len(s) \in Nat /\ Len(s) \in T
  BY <1>3
<1> QED BY <1>4 DEF T

LEMMA WithoutIsKept ==
  ASSUME NEW S, NEW s \in Seq(S), NEW gone
  PROVE  \E kept \in [0 .. Len(s) -> Seq(S)] :
           IsKept(s, gone, Len(s), kept) /\ Without(s, gone) = kept[Len(s)]
<1> DEFINE Body(f) == [n \in 0 .. Len(s) |->
                        IF n = 0 THEN <<>>
                        ELSE IF s[n] \in gone THEN f[n - 1] ELSE Append(f[n - 1], s[n])]
           k == CHOOSE f : f = Body(f)
<1>1. Without(s, gone) = k[Len(s)]
  BY DEF Without
<1>2. PICK kept \in [0 .. Len(s) -> Seq(S)] : IsKept(s, gone, Len(s), kept)
  BY KeptExists
<1>3. kept = Body(kept)
  <2>1. ASSUME NEW n \in 0 .. Len(s) PROVE kept[n] = Body(kept)[n]
    <3>1. CASE n = 0
      BY <1>2, <3>1 DEF IsKept
    <3>2. CASE n \in 1 .. Len(s)
      BY <1>2, <3>2 DEF IsKept
    <3> QED BY <3>1, <3>2
  <2> QED BY <2>1
<1>4. k = Body(k)
  <2> HIDE DEF Body
  <2> QED BY <1>3
<1> HIDE DEF k
<1>5. /\ k[0] = <<>>
      /\ \A n \in 1 .. Len(s) : k[n] = IF s[n] \in gone THEN k[n - 1] ELSE Append(k[n - 1], s[n])
  <2>1. \A n \in 0 .. Len(s) : k[n] = Body(k)[n]
    <3> HIDE DEF Body
    <3> QED BY <1>4
  <2> QED BY <2>1
<1>6. k \in [0 .. Len(s) -> Seq(S)]
  <2>1. DOMAIN k = 0 .. Len(s) /\ k = [n \in 0 .. Len(s) |-> k[n]]
    <3>1. DOMAIN Body(k) = 0 .. Len(s) /\ Body(k) = [n \in 0 .. Len(s) |-> Body(k)[n]]
      OBVIOUS
    <3> HIDE DEF Body
    <3> QED BY <1>4, <3>1
  <2> DEFINE T == {n \in Nat : n <= Len(s) => k[n] \in Seq(S)}
  <2>2. 0 \in T
    <3>1. k[0] = <<>> /\ <<>> \in Seq(S)
      BY <1>5
    <3> QED BY <3>1
  <2>3. ASSUME NEW n \in Nat, n \in T PROVE n + 1 \in T
    <3> SUFFICES ASSUME n + 1 <= Len(s) PROVE k[n + 1] \in Seq(S)
      OBVIOUS
    <3>1. n + 1 \in 1 .. Len(s) /\ s[n + 1] \in S /\ k[n] \in Seq(S) /\ n + 1 - 1 = n
      BY <2>3
    <3>2. k[n + 1] = IF s[n + 1] \in gone THEN k[n] ELSE Append(k[n], s[n + 1])
      BY <1>5, <3>1
    <3> QED BY <3>1, <3>2
  <2> HIDE DEF T
  <2>4. Nat \subseteq T
    BY <2>2, <2>3, SetInduction
  <2>5. \A n \in 0 .. Len(s) : k[n] \in Seq(S)
    BY <2>4 DEF T
  <2> QED BY <2>1, <2>5
<1>7. IsKept(s, gone, Len(s), k)
  BY <1>5 DEF IsKept
<1> QED BY <1>1, <1>6, <1>7

\* What is left of a list: the elements that are not gone, and no element
\* twice that was not there twice.
LEMMA WithoutLeaves ==
  ASSUME NEW S, NEW s \in Seq(S), NEW gone
  PROVE  /\ Without(s, gone) \in Seq(S)
         /\ ToSet(Without(s, gone)) = ToSet(s) \ gone
         /\ \A v : (\A i, j \in DOMAIN s : s[i] = v /\ s[j] = v => i = j) =>
              \A i, j \in DOMAIN Without(s, gone) :
                Without(s, gone)[i] = v /\ Without(s, gone)[j] = v => i = j
<1>1. PICK kept \in [0 .. Len(s) -> Seq(S)] :
        IsKept(s, gone, Len(s), kept) /\ Without(s, gone) = kept[Len(s)]
  BY WithoutIsKept
<1> DEFINE Once(t, n, v) == \A i, j \in 1 .. n : t[i] = v /\ t[j] = v => i = j
           Good(n) == /\ ToSet(kept[n]) = {s[i] : i \in 1 .. n} \ gone
                      /\ \A v : Once(s, n, v) => Once(kept[n], Len(kept[n]), v)
           T == {n \in Nat : n <= Len(s) => Good(n)}
<1> HIDE DEF Once, Good
<1>2. 0 \in T
  <2>1. kept[0] = <<>>
    BY <1>1 DEF IsKept
  <2>2. Good(0)
    BY <2>1 DEF Good, Once, ToSet
  <2> QED BY <2>2
<1>3. ASSUME NEW n \in Nat, n \in T PROVE n + 1 \in T
  <2> SUFFICES ASSUME n + 1 <= Len(s) PROVE Good(n + 1)
    OBVIOUS
  <2> DEFINE t == kept[n]
             u == kept[n + 1]
             e == s[n + 1]
  <2>1. /\ n + 1 \in 1 .. Len(s) /\ n \in 0 .. Len(s) /\ n + 1 - 1 = n
        /\ t \in Seq(S) /\ e \in S
    OBVIOUS
  <2>2. u = IF e \in gone THEN t ELSE Append(t, e)
    BY <1>1, <2>1 DEF IsKept
  <2>3. /\ ToSet(t) = {s[i] : i \in 1 .. n} \ gone
        /\ \A v : Once(s, n, v) => Once(t, Len(t), v)
    BY <1>3, <2>1 DEF Good
  <2> HIDE DEF t, u, e
  <2>4. {s[i] : i \in 1 .. n + 1} = {s[i] : i \in 1 .. n} \cup {e}
    BY DEF e
  <2>5. CASE e \in gone
    <3>1. u = t
      BY <2>2, <2>5
    <3>2. ToSet(u) = {s[i] : i \in 1 .. n + 1} \ gone
      BY <2>3, <2>4, <2>5, <3>1
    <3>3. ASSUME NEW v, Once(s, n + 1, v) PROVE Once(u, Len(u), v)
      <4>1. Once(s, n, v)
        BY <3>3 DEF Once
      <4> QED BY <2>3, <3>1, <4>1
    <3> QED BY <3>2, <3>3 DEF u, Good
  <2>6. CASE e \notin gone
    <3>1. /\ u = Append(t, e) /\ Len(u) = Len(t) + 1 /\ u[Len(t) + 1] = e /\ Len(t) \in Nat
          /\ \A i \in 1 .. Len(t) : u[i] = t[i]
          /\ DOMAIN t = 1 .. Len(t) /\ DOMAIN u = 1 .. Len(t) + 1
      BY <2>1, <2>2, <2>6
    <3>2. ToSet(u) = ToSet(t) \cup {e}
      BY <3>1 DEF ToSet
    <3>3. ToSet(u) = {s[i] : i \in 1 .. n + 1} \ gone
      BY <2>3, <2>4, <2>6, <3>2
    <3>4. ASSUME NEW v, Once(s, n + 1, v) PROVE Once(u, Len(u), v)
      <4>1. Once(t, Len(t), v)
        <5>1. Once(s, n, v)
          BY <3>4 DEF Once
        <5> QED BY <2>3, <5>1
      <4>2. CASE v = e
        <5>1. ~(\E i \in 1 .. n : s[i] = e)
          BY <3>4, <4>2 DEF e, Once
        <5>2. e \notin ToSet(t)
          BY <2>3, <5>1
        <5>3. \A i \in 1 .. Len(t) : t[i] # e
          BY <3>1, <5>2 DEF ToSet
        <5> QED BY <3>1, <4>2, <5>3 DEF Once
      <4>3. CASE v # e
        BY <3>1, <4>1, <4>3 DEF Once
      <4> QED BY <4>2, <4>3
    <3> QED BY <3>3, <3>4 DEF u, Good
  <2> QED BY <2>5, <2>6
<1> HIDE DEF T
<1>4. Nat \subseteq T
  BY <1>2, <1>3, SetInduction
<1>5. Len(s) \in Nat /\ DOMAIN s = 1 .. Len(s) /\ Good(Len(s))
  BY <1>4 DEF T
<1>6. kept[Len(s)] \in Seq(S) /\ DOMAIN kept[Len(s)] = 1 .. Len(kept[Len(s)])
  BY <1>5
<1>7. ToSet(s) = {s[i] : i \in 1 .. Len(s)}
  BY <1>5 DEF ToSet
<1> QED BY <1>1, <1>5, <1>6, <1>7 DEF Good, Once

---------------------------------------------------------------------------
(* show_priority and the check boxes.  The entry of default mode may occur *)
(* more than once, for Disconnect leaves it; those of the boxes may not.   *)

Tabs == Vision \cup {Main}
ListInv == IInv /\ show_priority \in Seq(Tabs) /\ ListMirrorsBoxes

LEMMA AppendedList ==
  ASSUME NEW s \in Seq(Tabs), NEW tab \in Tabs
  PROVE  /\ Append(s, tab) \in Seq(Tabs)
         /\ ToSet(Append(s, tab)) = ToSet(s) \cup {tab}
         /\ Len(s) \in Nat /\ DOMAIN s = 1 .. Len(s) /\ DOMAIN Append(s, tab) = 1 .. Len(s) + 1
         /\ \A i \in DOMAIN s : Append(s, tab)[i] = s[i]
         /\ Append(s, tab)[Len(s) + 1] = tab
<1> DEFINE t == Append(s, tab)
<1>1. /\ t \in Seq(Tabs) /\ Len(s) \in Nat
      /\ DOMAIN s = 1 .. Len(s) /\ DOMAIN t = 1 .. Len(s) + 1
      /\ t[Len(s) + 1] = tab /\ \A i \in 1 .. Len(s) : t[i] = s[i]
  OBVIOUS
<1> HIDE DEF t
<1>2. ToSet(t) = ToSet(s) \cup {tab}
  BY <1>1 DEF ToSet
<1> QED BY <1>1, <1>2 DEF t

\* Taking tabs off keeps what the list says of the others.
LEMMA ShorterList ==
  ASSUME ListInv, NEW gone, show_priority' = Without(show_priority, gone)
  PROVE  /\ show_priority' \in Seq(Tabs)
         /\ ToSet(show_priority') = ToSet(show_priority) \ gone
         /\ \A i, j \in DOMAIN show_priority' :
              show_priority'[i] = show_priority'[j] /\ show_priority'[i] \in Vision => i = j
<1>1. /\ show_priority' \in Seq(Tabs) /\ ToSet(show_priority') = ToSet(show_priority) \ gone
      /\ \A v : (\A i, j \in DOMAIN show_priority :
                   show_priority[i] = v /\ show_priority[j] = v => i = j) =>
           \A i, j \in DOMAIN show_priority' : show_priority'[i] = v /\ show_priority'[j] = v => i = j
  BY WithoutLeaves DEF ListInv
<1>2. ASSUME NEW v \in Vision
      PROVE  \A i, j \in DOMAIN show_priority : show_priority[i] = v /\ show_priority[j] = v => i = j
  BY DEF ListInv, ListMirrorsBoxes
<1> QED BY <1>1, <1>2

LEMMA ListInit == Init => ListInv
<1> SUFFICES ASSUME Init PROVE ListInv
  OBVIOUS
<1>1. show_priority = <<>> /\ checked = {} /\ defMode = FALSE
  BY DEF Init
<1>2. ListMirrorsBoxes
  BY <1>1 DEF ListMirrorsBoxes, ToSet
<1> QED BY <1>1, <1>2, InitIInv DEF ListInv

LEMMA ListStep == ListInv /\ IInv' /\ [Next]_vars => ListInv'
<1> SUFFICES ASSUME ListInv, IInv', [Next]_vars
             PROVE  show_priority' \in Seq(Tabs) /\ ListMirrorsBoxes'
  BY DEF ListInv
<1>1. /\ show_priority \in Seq(Tabs) /\ ToSet(show_priority) \cap Vision = checked
      /\ \A i, j \in DOMAIN show_priority :
           show_priority[i] = show_priority[j] /\ show_priority[i] \in Vision => i = j
      /\ defMode => Main \in ToSet(show_priority)
      /\ Main \in Tabs /\ Main \notin Vision /\ Boxes \subseteq Vision /\ Vision \subseteq Tabs
      /\ checked \subseteq Boxes
  BY BoxesAssumption DEF ListInv, ListMirrorsBoxes, IInv, PanelTypeOK, Tabs, Vision, Main,
     Circle, Qr, Motion, Face, Ocr
<1>2. ASSUME NEW f \in Boxes, VisionOn(f)
      PROVE  show_priority' \in Seq(Tabs) /\ ListMirrorsBoxes'
  <2>1. /\ f \in Vision /\ f \in Tabs /\ f \notin checked /\ checked' = checked \cup {f}
        /\ show_priority' = Append(show_priority, f) /\ defMode' = defMode
    BY <1>1, <1>2 DEF VisionOn
  <2>2. /\ show_priority' \in Seq(Tabs) /\ ToSet(show_priority') = ToSet(show_priority) \cup {f}
        /\ Len(show_priority) \in Nat /\ DOMAIN show_priority = 1 .. Len(show_priority)
        /\ DOMAIN show_priority' = 1 .. Len(show_priority) + 1
        /\ \A i \in DOMAIN show_priority : show_priority'[i] = show_priority[i]
        /\ show_priority'[Len(show_priority) + 1] = f
    BY <1>1, <2>1, AppendedList
  <2>3. \A i \in DOMAIN show_priority : show_priority[i] # f
    <3>1. f \notin ToSet(show_priority)
      BY <1>1, <2>1
    <3> QED BY <3>1 DEF ToSet
  <2>4. \A i, j \in DOMAIN show_priority' :
          show_priority'[i] = show_priority'[j] /\ show_priority'[i] \in Vision => i = j
    BY <1>1, <2>2, <2>3
  <2> QED BY <1>1, <2>1, <2>2, <2>4 DEF ListMirrorsBoxes
<1>3. ASSUME NEW f \in Boxes, VisionOff(f)
      PROVE  show_priority' \in Seq(Tabs) /\ ListMirrorsBoxes'
  <2>1. /\ checked' = checked \ {f} /\ defMode' = defMode /\ f \in Vision
        /\ show_priority' = Without(show_priority, {f})
    BY <1>1, <1>3 DEF VisionOff
  <2>2. /\ show_priority' \in Seq(Tabs) /\ ToSet(show_priority') = ToSet(show_priority) \ {f}
        /\ \A i, j \in DOMAIN show_priority' :
             show_priority'[i] = show_priority'[j] /\ show_priority'[i] \in Vision => i = j
    BY <2>1, ShorterList
  <2> QED BY <1>1, <2>1, <2>2 DEF ListMirrorsBoxes
<1>4. CASE SelectColour
  BY <1>2, <1>4, BoxesAssumption DEF SelectColour
<1>5. CASE DefModeOn
  <2>1. checked' = checked /\ show_priority' = Append(show_priority, Main)
    BY <1>5 DEF DefModeOn
  <2>2. /\ show_priority' \in Seq(Tabs) /\ ToSet(show_priority') = ToSet(show_priority) \cup {Main}
        /\ Len(show_priority) \in Nat /\ DOMAIN show_priority = 1 .. Len(show_priority)
        /\ DOMAIN show_priority' = 1 .. Len(show_priority) + 1
        /\ \A i \in DOMAIN show_priority : show_priority'[i] = show_priority[i]
        /\ show_priority'[Len(show_priority) + 1] = Main
    BY <1>1, <2>1, AppendedList
  <2>3. \A i, j \in DOMAIN show_priority' :
          show_priority'[i] = show_priority'[j] /\ show_priority'[i] \in Vision => i = j
    BY <1>1, <2>2
  <2> QED BY <1>1, <2>1, <2>2, <2>3 DEF ListMirrorsBoxes
<1>6. CASE DefModeOff
  <2>1. checked' = checked /\ defMode' = FALSE /\ show_priority' = Without(show_priority, {Main})
    BY <1>6 DEF DefModeOff
  <2>2. /\ show_priority' \in Seq(Tabs) /\ ToSet(show_priority') = ToSet(show_priority) \ {Main}
        /\ \A i, j \in DOMAIN show_priority' :
             show_priority'[i] = show_priority'[j] /\ show_priority'[i] \in Vision => i = j
    BY <2>1, ShorterList
  <2> QED BY <1>1, <2>1, <2>2 DEF ListMirrorsBoxes
<1>7. CASE Disconnect
  <2>1. checked' = {} /\ defMode' = FALSE /\ show_priority' = Without(show_priority, Vision)
    BY <1>7 DEF Disconnect, Unchecked
  <2>2. /\ show_priority' \in Seq(Tabs) /\ ToSet(show_priority') = ToSet(show_priority) \ Vision
        /\ \A i, j \in DOMAIN show_priority' :
             show_priority'[i] = show_priority'[j] /\ show_priority'[i] \in Vision => i = j
    BY <2>1, ShorterList
  <2> QED BY <2>1, <2>2 DEF ListMirrorsBoxes
<1>8. CASE \/ Pause \/ Play \/ SetIp \/ CompleteLog \/ UNCHANGED vars
           \/ \E m \in Modes : SelectMode(m)
  <2>1. UNCHANGED <<checked, defMode, show_priority>>
    BY <1>8 DEF Pause, Play, SetIp, CompleteLog, vars, SelectMode
  <2> QED BY <1>1, <2>1 DEF ListMirrorsBoxes
<1> QED BY <1>2, <1>3, <1>4, <1>5, <1>6, <1>7, <1>8 DEF Next

LEMMA SpecListInv == Spec => []ListInv
  BY ListInit, ListStep, SpecIInv, PTL DEF Spec

\* The panel's variables keep their types (dialog.h:54-76 and the widgets the
\* slots read), the list of tabs included.
THEOREM PanelTypeCorrect == Spec => []TypeOK
<1>1. ListInv => TypeOK
  BY DEF ListInv, IInv, TypeOK, Tabs
<1> QED BY <1>1, SpecListInv, PTL

\* show_priority holds the tab of each box that is checked once and of none
\* that is not, whatever list::remove meets in it (dialog.cpp:577-582 and the
\* box slots, 709-950).
THEOREM ListMirrorsBoxesAlways == Spec => []ListMirrorsBoxes
<1>1. ListInv => ListMirrorsBoxes
  BY DEF ListInv
<1> QED BY <1>1, SpecListInv, PTL
=============================================================================
