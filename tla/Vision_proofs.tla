--------------------------- MODULE Vision_proofs ---------------------------
(***************************************************************************)
(* Proofs about Vision: its properties hold for every set of cameras,      *)
(* every picture size, threshold, set of rates and width of the chart, and *)
(* the velocity series implements SlidingWindow.                           *)
(***************************************************************************)
EXTENDS Vision, SequenceTheorems, TLAPS

USE TrackerAssumption, VisionAssumption DEF TrackerAssumption, VisionAssumption

(***************************************************************************)
(* The tracker and the list of codes.  Two facts are added to make the     *)
(* properties inductive: the list and its counter agree until the list is  *)
(* cleared, and the last picture is known once points were looked for.     *)
(***************************************************************************)
TrackerTypeOK ==
  /\ tracked \in 0 .. MaxCount
  /\ prevGray \in Cameras \cup {NoPicture}
  /\ rate \in Rates
  /\ items \in Nat /\ lstQrCodeIndexCounter \in Nat
  /\ camera \in Cameras
  /\ ended \in {"no", "corners", "sizes", "item"}

FlagsOK ==
  /\ needToInit \in BOOLEAN /\ motionOn \in BOOLEAN
  /\ switched \in BOOLEAN /\ cleared \in BOOLEAN /\ measured \in BOOLEAN

CounterMatchesList == cleared \/ lstQrCodeIndexCounter = items

\* Without a request for points the last picture is one of a camera.
PictureKnown == ~needToInit => prevGray \in Cameras

FeaturesInv ==
  /\ FlagsOK
  /\ TrackerTypeOK
  /\ NeverIdle
  /\ PictureKnown
  /\ ComparesOneCamera
  /\ CounterMatchesList
  /\ ColoursEntriesItHas
  /\ RateIsCurrent

LEMMA FeaturesInit == Init => FeaturesInv
<1> SUFFICES ASSUME Init PROVE FeaturesInv
  OBVIOUS
<1> USE DEF Init, TrackerInit, QrInit
<1>0. FlagsOK
  BY DEF FlagsOK
<1>1. TrackerTypeOK
  BY DEF TrackerTypeOK
<1>2. NeverIdle /\ PictureKnown /\ ComparesOneCamera
  BY DEF NeverIdle, PictureKnown, ComparesOneCamera
<1>3. CounterMatchesList /\ ColoursEntriesItHas /\ RateIsCurrent
  BY DEF CounterMatchesList, ColoursEntriesItHas, RateIsCurrent
<1> QED BY <1>0, <1>1, <1>2, <1>3 DEF FeaturesInv

\* What a tick leaves: a request for points exactly when too few are left.
LEMMA TickFinishes ==
  ASSUME FlagsOK, MotionTick
  PROVE  /\ needToInit' \in BOOLEAN
         /\ ~needToInit' => tracked' >= Threshold \/ tracked' \notin Nat
         /\ prevGray' = camera
<1>1. PICK n : Finish(camera, n)
  BY DEF MotionTick, TrackerTick, Detect, Follow
<1>2. prevGray' = camera /\ tracked' = n /\ needToInit' = (n < Threshold)
  BY <1>1 DEF Finish, AskAgain
<1>3. needToInit' \in BOOLEAN
  <2>1. (n < Threshold) \in BOOLEAN
    OBVIOUS
  <2> QED BY <1>2, <2>1, Zenon
<1>4. ~needToInit' => ~(n < Threshold)
  BY <1>2, Zenon
<1>5. n \in Nat /\ ~(n < Threshold) => n >= Threshold
  OBVIOUS
<1> QED BY <1>2, <1>3, <1>4, <1>5

LEMMA FlagsStep == FlagsOK /\ [Next]_vars => FlagsOK'
<1> SUFFICES ASSUME FlagsOK, [Next]_vars PROVE FlagsOK'
  OBVIOUS
<1> USE DEF FlagsOK, trackerVars
<1>1. CASE MotionTick
  <2>1. needToInit' \in BOOLEAN
    BY <1>1, TickFinishes
  <2> QED BY <1>1, <2>1, Zenon DEF MotionTick
<1>2. CASE MotionTickThrows \/ QrTick \/ UNCHANGED vars
  BY <1>2, Zenon DEF MotionTickThrows, QrTick, vars
<1>3. CASE MotionOn \/ MotionOff \/ MotionButton \/ Clear
  BY <1>3, Zenon DEF MotionOn, MotionOff, MotionButton, AskForPoints, Clear
<1>4. ASSUME NEW c \in Cameras, SwitchCamera(c) PROVE FlagsOK'
  BY <1>4, Zenon DEF SwitchCamera
<1> QED BY <1>1, <1>2, <1>3, <1>4 DEF Next

LEMMA FeaturesStep == FeaturesInv /\ [Next]_vars => FeaturesInv'
<1> SUFFICES ASSUME FeaturesInv, [Next]_vars PROVE FeaturesInv'
  OBVIOUS
<1>0. FlagsOK'
  BY FlagsStep DEF FeaturesInv
<1> USE DEF TrackerTypeOK, NeverIdle, PictureKnown, ComparesOneCamera,
            CounterMatchesList, ColoursEntriesItHas, RateIsCurrent, qrVars, trackerVars
<1>1. CASE MotionTick
  <2>1. ~needToInit' => tracked' >= Threshold \/ tracked' \notin Nat
    BY <1>1, TickFinishes DEF FeaturesInv
  <2>2. prevGray' = camera
    BY <1>1, TickFinishes DEF FeaturesInv
  <2>3. tracked' \in 0 .. MaxCount /\ rate' \in Rates
    BY <1>1 DEF FeaturesInv, MotionTick, TrackerTick, Detect, Follow, Finish
  <2>4. measured' <=> measured \/ ~needToInit
    BY <1>1, Zenon DEF MotionTick
  <2>5. needToInit => rate' = rate
    BY <1>1 DEF MotionTick, TrackerTick, Detect, Follow
  <2> QED BY <1>0, <1>1, <2>1, <2>2, <2>3, <2>4, <2>5 DEF FeaturesInv, MotionTick, Running
<1>2. CASE MotionTickThrows
  <2>1. CASE ended' = "sizes"
    <3>1. prevGray # camera /\ ~needToInit
      BY <1>2, <2>1 DEF MotionTickThrows, Throws
    <3> QED BY <1>0, <1>2, <2>1, <3>1 DEF FeaturesInv, MotionTickThrows, Running
  <2>2. CASE ended' = "corners"
    BY <1>0, <1>2, <2>2 DEF FeaturesInv, MotionTickThrows, Running
  <2> QED BY <1>2, <2>1, <2>2 DEF MotionTickThrows
<1>3. CASE QrTick
  BY <1>0, <1>3 DEF FeaturesInv, QrTick, Running, AddCode, CountAdded, MissesItem
<1>4. CASE MotionOn
  BY <1>0, <1>4 DEF FeaturesInv, MotionOn, Running, AskForPoints
<1>5. CASE MotionOff
  BY <1>0, <1>5 DEF FeaturesInv, MotionOff, Running, RateForgotten
<1>6. CASE MotionButton
  BY <1>0, <1>6 DEF FeaturesInv, MotionButton, Running, AskForPoints
<1>7. CASE Clear
  <2>1. cleared' <=> cleared \/ items > 0
    BY <1>7, Zenon DEF Clear
  <2> QED BY <1>0, <1>7, <2>1 DEF FeaturesInv, Clear, Running, ClearList, RateForgotten
<1>8. ASSUME NEW c \in Cameras, SwitchCamera(c) PROVE FeaturesInv'
  <2>1. switched' <=> switched \/ motionOn
    BY <1>8, Zenon DEF SwitchCamera
  <2> QED BY <1>0, <1>8, <2>1 DEF FeaturesInv, SwitchCamera, Running
<1>9. CASE UNCHANGED vars
  BY <1>0, <1>9 DEF FeaturesInv, vars
<1> QED BY <1>1, <1>2, <1>3, <1>4, <1>5, <1>6, <1>7, <1>8, <1>9 DEF Next

THEOREM FeaturesAlways == Spec => []FeaturesInv
  BY FeaturesInit, FeaturesStep, PTL DEF Spec

\* Motion always looks for points or has some to follow.
THEOREM NeverIdleAlways == Spec => []NeverIdle
<1>1. FeaturesInv => NeverIdle
  BY DEF FeaturesInv
<1> QED BY <1>1, FeaturesAlways, PTL

\* Points are followed within the pictures of one camera, or the camera was
\* changed while motion was on.
THEOREM ComparesOneCameraAlways == Spec => []ComparesOneCamera
<1>1. FeaturesInv => ComparesOneCamera
  BY DEF FeaturesInv
<1> QED BY <1>1, FeaturesAlways, PTL

\* Only after a list with entries was cleared is a missing entry coloured.
THEOREM ColoursEntriesItHasAlways == Spec => []ColoursEntriesItHas
<1>1. FeaturesInv => ColoursEntriesItHas
  BY DEF FeaturesInv
<1> QED BY <1>1, FeaturesAlways, PTL

\* A charted rate was measured since the feature was turned on or cleared.
THEOREM RateIsCurrentAlways == Spec => []RateIsCurrent
<1>1. FeaturesInv => RateIsCurrent
  BY DEF FeaturesInv
<1> QED BY <1>1, FeaturesAlways, PTL

(***************************************************************************)
(* The velocity series.                                                    *)
(***************************************************************************)
ChartInv == x_rate_average \in Seq(Rates) /\ ShowsLastRates

LEMMA ChartInit == Init => ChartInv
  BY DEF Init, Velocity!Init, ChartInv, ShowsLastRates, Velocity!LagsByOne

\* A tick of a series that is not full yet.
LEMMA AppendStep ==
  ASSUME ChartInv, pointCounter_velocity_x < Width,
         NEW v \in Rates, Velocity!Tick(v)
  PROVE  ChartInv'
<1> DEFINE n == Len(x_rate_average)
<1>1. n \in Nat /\ pointCounter_velocity_x = n /\ n < Width
  BY LenProperties DEF ChartInv, ShowsLastRates, Velocity!LagsByOne
<1>2. axisX_counter1_velocity_x = n + 1
  BY <1>1 DEF ChartInv, ShowsLastRates, Velocity!LagsByOne
<1>3. /\ x_rate_average' = Append(x_rate_average, v)
      /\ pointCounter_velocity_x' = n + 1
      /\ axisX_counter1_velocity_x' = n + 2
      /\ velocitySeries_x' = [x \in 0 .. n + 1 |->
                               IF x = n + 1 THEN x_rate_average'[n + 1]
                               ELSE velocitySeries_x[x]]
  BY <1>1, <1>2 DEF Velocity!Tick, Velocity!AppendPoint
<1>4. /\ x_rate_average' \in Seq(Rates)
      /\ Len(x_rate_average') = n + 1
      /\ \A k \in 1 .. n : x_rate_average'[k] = x_rate_average[k]
  BY <1>3 DEF ChartInv
<1>5. \A k \in 1 .. n : velocitySeries_x[k] = x_rate_average[k]
  BY <1>1, <1>2 DEF ChartInv, ShowsLastRates, Velocity!LagsByOne
<1>6. \A k \in 1 .. n + 1 : velocitySeries_x'[k] = x_rate_average'[k]
  BY <1>1, <1>3, <1>4, <1>5
<1> QED BY <1>1, <1>3, <1>4, <1>6 DEF ChartInv, ShowsLastRates, Velocity!LagsByOne

\* A tick of a full series: every point holds the value the walk replaces.
LEMMA ShiftStep ==
  ASSUME ChartInv, pointCounter_velocity_x >= Width,
         NEW v \in Rates, Velocity!Tick(v)
  PROVE  ChartInv'
<1> DEFINE n == Len(x_rate_average)
<1>1. n \in Nat /\ pointCounter_velocity_x = n /\ n >= Width
  BY LenProperties DEF ChartInv, ShowsLastRates, Velocity!LagsByOne
<1>2. axisX_counter1_velocity_x = Width + 1 /\ DOMAIN velocitySeries_x = 0 .. Width
  BY <1>1 DEF ChartInv, ShowsLastRates, Velocity!LagsByOne
<1>3. PICK junk \in Rates : Velocity!ShiftPoints(junk)
  BY <1>1 DEF Velocity!Tick
<1>4. /\ x_rate_average' = Append(x_rate_average, v)
      /\ pointCounter_velocity_x' = n + 1
      /\ axisX_counter1_velocity_x' = Width + 1
  BY <1>1, <1>2, <1>3 DEF Velocity!Tick, Velocity!ShiftPoints
<1>5. /\ x_rate_average' \in Seq(Rates)
      /\ Len(x_rate_average') = n + 1
      /\ \A k \in 1 .. n : x_rate_average'[k] = x_rate_average[k]
  BY <1>4 DEF ChartInv
<1>6. DOMAIN velocitySeries_x' = 0 .. Width
  BY <1>2, <1>3 DEF Velocity!ShiftPoints
<1>7. ASSUME NEW k \in 1 .. Width
      PROVE  velocitySeries_x'[k] = x_rate_average'[n - Width + k]
  <2> DEFINE i == n - (Width + 1 - k)
             old == IF i = 0 THEN junk ELSE x_rate_average'[i]
  <2>1. velocitySeries_x'[k] = IF i >= 0 /\ velocitySeries_x[k] = old
                               THEN x_rate_average'[i + 1] ELSE velocitySeries_x[k]
    BY <1>1, <1>2, <1>3 DEF Velocity!ShiftPoints, Velocity!IndexAt
  <2>2. i \in Nat /\ i + 1 = n - Width + k
    BY <1>1
  <2>3. CASE n > Width
    <3>1. velocitySeries_x[k] = x_rate_average[i]
      BY <1>1, <1>2, <2>3 DEF ChartInv, ShowsLastRates, Velocity!LagsByOne
    <3>2. i \in 1 .. n
      BY <1>1, <2>3
    <3>3. velocitySeries_x[k] = old
      BY <1>5, <3>1, <3>2
    <3> QED BY <2>1, <2>2, <3>3
  <2>4. CASE n = Width
    <3>1. velocitySeries_x[k] = x_rate_average[k] /\ k \in 1 .. n /\ i + 1 = k
      BY <1>1, <1>2, <2>4 DEF ChartInv, ShowsLastRates, Velocity!LagsByOne
    <3> QED BY <1>5, <2>1, <2>2, <3>1
  <2> QED BY <1>1, <2>3, <2>4
<1>8. ASSUME NEW k \in 1 .. Width
      PROVE  velocitySeries_x'[k] = x_rate_average'[(n + 1) - 1 - Width + k]
  <2>1. (n + 1) - 1 - Width + k = n - Width + k
    BY <1>1
  <2> QED BY <1>7, <2>1
<1> QED BY <1>1, <1>4, <1>5, <1>6, <1>8 DEF ChartInv, ShowsLastRates, Velocity!LagsByOne

LEMMA ChartStep == FeaturesInv' /\ ChartInv /\ [Next]_vars => ChartInv'
<1> SUFFICES ASSUME FeaturesInv', ChartInv, [Next]_vars PROVE ChartInv'
  OBVIOUS
<1>1. CASE MotionTick
  <2>1. rate' \in Rates /\ Velocity!Tick(rate')
    BY <1>1 DEF MotionTick, FeaturesInv, TrackerTypeOK
  <2>2. pointCounter_velocity_x \in Nat
    BY LenProperties DEF ChartInv, ShowsLastRates, Velocity!LagsByOne
  <2> QED BY <2>1, <2>2, AppendStep, ShiftStep
<1>2. CASE UNCHANGED velocityVars
  BY <1>2 DEF velocityVars, ChartInv, ShowsLastRates, Velocity!LagsByOne
<1>3. MotionTick \/ UNCHANGED velocityVars
  BY DEF Next, vars, MotionTickThrows, QrTick, MotionOn, MotionOff, MotionButton, Clear,
         SwitchCamera
<1> QED BY <1>1, <1>2, <1>3

\* Once it is full, the velocity series shows the Width rates before the newest.
THEOREM ShowsLastRatesAlways == Spec => []ShowsLastRates
<1>1. ChartInv => ShowsLastRates
  BY DEF ChartInv
<1> QED BY <1>1, ChartInit, ChartStep, FeaturesAlways, PTL DEF Spec

(***************************************************************************)
(* The velocity series implements SlidingWindow.                           *)
(***************************************************************************)
LEMMA WindowInit == Init => Velocity!Window!Init
<1> SUFFICES ASSUME Init PROVE Velocity!Window!Init
  OBVIOUS
<1>1. axisX_counter1_velocity_x = 1 /\ Len(x_rate_average) = 0
  BY DEF Init, Velocity!Init
<1>2. Velocity!Shown = <<>>
  BY <1>1 DEF Velocity!Shown
<1>3. Velocity!Pending = <<>>
  BY <1>1 DEF Velocity!Pending
<1> QED BY <1>2, <1>3 DEF Velocity!Window!Init

\* What the abstract window is while the invariant holds.
Filled == IF Len(x_rate_average) < Width THEN Len(x_rate_average) ELSE Width

WindowIsLast ==
  /\ Len(x_rate_average) \in Nat
  /\ Velocity!Shown =
       [k \in 1 .. Filled |->
          IF Len(x_rate_average) <= Width THEN x_rate_average[k]
          ELSE x_rate_average[Len(x_rate_average) - 1 - Width + k]]
  /\ Velocity!Shown \in Seq(Rates)
  /\ Len(Velocity!Shown) = Filled
  /\ Velocity!Pending = IF Len(x_rate_average) > Width
                        THEN <<x_rate_average[Len(x_rate_average)]>> ELSE <<>>

LEMMA WindowIs == ChartInv => WindowIsLast
<1> SUFFICES ASSUME ChartInv PROVE WindowIsLast
  OBVIOUS
<1> DEFINE n == Len(x_rate_average)
           w == IF n < Width THEN n ELSE Width
<1>1. n \in Nat /\ w \in Nat
  BY LenProperties DEF ChartInv
<1>2. axisX_counter1_velocity_x - 1 = w
  BY <1>1 DEF ChartInv, ShowsLastRates, Velocity!LagsByOne
<1>3. Velocity!Shown =
        [k \in 1 .. w |-> IF n <= Width THEN x_rate_average[k]
                          ELSE x_rate_average[n - 1 - Width + k]]
  BY <1>1, <1>2 DEF ChartInv, ShowsLastRates, Velocity!LagsByOne, Velocity!Shown
<1>4. ASSUME NEW k \in 1 .. w
      PROVE  (IF n <= Width THEN x_rate_average[k]
              ELSE x_rate_average[n - 1 - Width + k]) \in Rates
  <2>1. CASE n <= Width
    BY <1>1, <2>1 DEF ChartInv
  <2>2. CASE n > Width
    <3>1. n - 1 - Width + k \in 1 .. n
      BY <1>1, <2>2
    <3> QED BY <1>1, <2>2, <3>1 DEF ChartInv
  <2> QED BY <1>1, <2>1, <2>2
<1>5. Velocity!Shown \in Seq(Rates) /\ Len(Velocity!Shown) = w
  <2> HIDE DEF w, n
  <2> QED BY <1>1, <1>3, <1>4
<1>6. Velocity!Pending = IF n > Width THEN <<x_rate_average[n]>> ELSE <<>>
  BY DEF Velocity!Pending
<1> QED BY <1>1, <1>3, <1>5, <1>6 DEF WindowIsLast, Filled

\* A tick is a step of the abstract window.
LEMMA WindowTick ==
  ASSUME WindowIsLast, WindowIsLast', pointCounter_velocity_x = Len(x_rate_average),
         x_rate_average \in Seq(Rates), NEW v \in Rates, Velocity!Tick(v)
  PROVE  Velocity!Window!Next
<1> DEFINE n == Len(x_rate_average)
           shown == Velocity!Shown
<1>1. x_rate_average' = Append(x_rate_average, v)
  BY DEF Velocity!Tick
<1>2. /\ n \in Nat
      /\ Len(x_rate_average') = n + 1
      /\ x_rate_average'[n + 1] = v
      /\ \A k \in 1 .. n : x_rate_average'[k] = x_rate_average[k]
  BY <1>1 DEF WindowIsLast
<1>3. CASE n < Width
  <2>1. /\ shown = [k \in 1 .. n |-> x_rate_average[k]]
        /\ shown \in Seq(Rates) /\ Len(shown) = n
        /\ Velocity!Pending = <<>>
    BY <1>2, <1>3 DEF WindowIsLast, Filled
  <2>2. /\ shown' = [k \in 1 .. n + 1 |-> x_rate_average'[k]]
        /\ Velocity!Pending' = <<>>
    BY <1>2, <1>3 DEF WindowIsLast, Filled
  <2>3. shown' = Append(shown, v)
    <3> HIDE DEF n, shown
    <3> QED BY <1>2, <2>1, <2>2
  <2>4. Velocity!Window!Grow(v)
    BY <1>3, <2>1, <2>2, <2>3 DEF Velocity!Window!Grow
  <2> QED BY <2>4 DEF Velocity!Window!Next
<1>4. CASE n >= Width
  <2>1. /\ shown = [k \in 1 .. Width |-> IF n <= Width THEN x_rate_average[k]
                                         ELSE x_rate_average[n - 1 - Width + k]]
        /\ shown \in Seq(Rates) /\ Len(shown) = Width
        /\ Velocity!Pending = IF n > Width THEN <<x_rate_average[n]>> ELSE <<>>
    BY <1>2, <1>4 DEF WindowIsLast, Filled
  <2>2. /\ shown' = [k \in 1 .. Width |-> x_rate_average'[n - Width + k]]
        /\ Velocity!Pending' = <<v>>
    BY <1>2, <1>4 DEF WindowIsLast, Filled
  <2>3. CASE n = Width
    <3>1. \A k \in 1 .. Width : x_rate_average'[n - Width + k] = x_rate_average[k]
      BY <1>2, <2>3
    <3>2. shown' = shown
      BY <2>1, <2>2, <2>3, <3>1
    <3>3. Velocity!Window!Slide(v)
      BY <2>1, <2>2, <2>3, <3>2 DEF Velocity!Window!Slide
    <3> QED BY <3>3 DEF Velocity!Window!Next
  <2>4. CASE n > Width
    <3>1. \A k \in 1 .. Width : x_rate_average'[n - Width + k] = x_rate_average[n - Width + k]
      BY <1>2, <2>4
    <3>2. shown = [k \in 1 .. Width |-> x_rate_average[n - 1 - Width + k]]
      BY <2>1, <2>4
    <3>3. shown' = [k \in 1 .. Width |-> x_rate_average[n - Width + k]]
      BY <2>2, <3>1
    <3>4. /\ Tail(shown) \in Seq(Rates) /\ Len(Tail(shown)) = Width - 1
          /\ \A k \in 1 .. Width - 1 : Tail(shown)[k] = x_rate_average[n - Width + k]
      <4>1. \A k \in 1 .. Width - 1 : shown[k + 1] = x_rate_average[n - Width + k]
        BY <1>2, <2>4, <3>2
      <4> HIDE DEF shown, n
      <4> QED BY <2>1, <4>1
    <3>5. shown' = Append(Tail(shown), x_rate_average[n])
      <4>1. n - Width + Width = n
        BY <1>2
      <4> HIDE DEF shown, n
      <4> QED BY <3>3, <3>4, <4>1
    <3>6. Velocity!Pending # <<>> /\ Velocity!Pending[1] = x_rate_average[n]
      BY <2>1, <2>4
    <3>7. Velocity!Window!Slide(v)
      BY <2>1, <2>2, <3>5, <3>6 DEF Velocity!Window!Slide
    <3> QED BY <3>7 DEF Velocity!Window!Next
  <2> QED BY <1>2, <1>4, <2>3, <2>4
<1> QED BY <1>2, <1>3, <1>4

\* The velocity chart implements SlidingWindow: it never skips a rate and
\* trails the newest by one tick.
THEOREM ShowsAWindowAlways == Spec => ShowsAWindow
<1>1. FeaturesInv /\ FeaturesInv' /\ ChartInv /\ ChartInv' /\ WindowIsLast /\ WindowIsLast'
        /\ [Next]_vars => [Velocity!Window!Next]_<<Velocity!Shown, Velocity!Pending>>
  <2> SUFFICES ASSUME FeaturesInv', ChartInv, WindowIsLast, WindowIsLast', [Next]_vars
               PROVE  [Velocity!Window!Next]_<<Velocity!Shown, Velocity!Pending>>
    OBVIOUS
  <2>1. CASE MotionTick
    <3>1. rate' \in Rates /\ Velocity!Tick(rate')
      BY <2>1 DEF MotionTick, FeaturesInv, TrackerTypeOK
    <3>2. pointCounter_velocity_x = Len(x_rate_average) /\ x_rate_average \in Seq(Rates)
      BY DEF ChartInv, ShowsLastRates, Velocity!LagsByOne
    <3> QED BY <3>1, <3>2, WindowTick
  <2>2. CASE UNCHANGED velocityVars
    BY <2>2 DEF velocityVars, Velocity!Shown, Velocity!Pending
  <2>3. MotionTick \/ UNCHANGED velocityVars
    BY DEF Next, vars, MotionTickThrows, QrTick, MotionOn, MotionOff, MotionButton, Clear,
           SwitchCamera
  <2> QED BY <2>1, <2>2, <2>3
<1>2. Spec => []ChartInv
  BY ChartInit, ChartStep, FeaturesAlways, PTL DEF Spec
<1> QED
  BY <1>1, <1>2, WindowIs, WindowInit, FeaturesAlways, PTL
     DEF Spec, ShowsAWindow, Velocity!Window!Spec

\* Every variable keeps its type.
THEOREM VisionTypeOK == Spec => []TypeOK
<1>1. FeaturesInv /\ ChartInv => TypeOK
  <2> SUFFICES ASSUME FeaturesInv, ChartInv PROVE TypeOK
    OBVIOUS
  <2>1. {switched, cleared, measured} \subseteq BOOLEAN /\ needToInit \in BOOLEAN
          /\ motionOn \in BOOLEAN
    BY DEF FeaturesInv, FlagsOK
  <2>2. x_rate_average \in Seq(Rates)
    BY DEF ChartInv
  <2> QED BY <2>1, <2>2 DEF TypeOK, FeaturesInv, TrackerTypeOK
<1>2. Spec => []ChartInv
  BY ChartInit, ChartStep, FeaturesAlways, PTL DEF Spec
<1> QED BY <1>1, <1>2, FeaturesAlways, PTL

=============================================================================
