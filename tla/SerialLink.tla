----------------------------- MODULE SerialLink -----------------------------
(***************************************************************************)
(* The serial side of the R2Lab window (dialog.cpp): the buffer ba, which  *)
(* the PID and reserve spin boxes and the Control check box write at any   *)
(* moment, and the 1 ms serialWrite_timer, which puts ONE byte of it on    *)
(* the wire per tick and recomputes the two checksum bytes every time.     *)
(* Read and Write set the message id, lock the window and leave it to the  *)
(* 3 s refresher_timer to undo both.                                       *)
(*                                                                         *)
(* The layout of the buffer and the two tick counts are parameters, so     *)
(* that TLC can run a shorter frame than the code's; bytes are numbers     *)
(* modulo Base.  A definition marked "mutant" is a deliberately wrong      *)
(* variant of the one that follows it.                                     *)
(***************************************************************************)
EXTENDS Integers, Sequences

CONSTANTS
  Base,        (* values of a byte: 256 in the code                        *)
  ConfigLen,   (* bytes of a configuration frame: 31                       *)
  SendTicks,   (* ticks that send the configuration: 3000                  *)
  StopTicks,   (* ticks after which the timer stops itself: 4000           *)
  Fields16,    (* offsets of the two-byte fields of a configuration        *)
  Fields8,     (* offsets of its one-byte fields                           *)
  Values16,    (* what a two-byte field's spin box may hold, scaled        *)
  Values8,     (* what a one-byte field's spin box may hold                *)
  Coords,      (* circle centres <<x, y>>, scaled by 100                   *)
  Junk,        (* what a byte QByteArray leaves uninitialised may hold     *)
  MaxClicks    (* bound on what the operator does                          *)

ControlLen == 10          \* bytes of a control frame
LogLen   == 7             \* bytes of ba_log

Start    == 85 % Base     \* 0x55
Default  == 0             \* message ids
WriteId  == 1
ReadId   == 2
ControlId == 3
NoCircle == <<-100, -100>>   \* getX = getY = -1

Offsets == 0 .. ConfigLen - 1

ASSUME BaseAssumption == Base \in Nat /\ Base > 3
\* The length byte of a configuration frame is not that of a trailer, 0, and a
\* trailer has the time to end the frame it interrupts: 25, and 1000 ticks.
ASSUME LengthsAssumption ==
  /\ ConfigLen \in Nat /\ ControlLen < ConfigLen
  /\ (ConfigLen - 6) % Base # 0
ASSUME TicksAssumption ==
  SendTicks \in Nat /\ StopTicks \in Nat /\ SendTicks + LogLen < StopTicks
ASSUME FieldsAssumption ==
  /\ Fields16 \subseteq 4 .. ConfigLen - 4
  /\ Fields8 \subseteq 4 .. ConfigLen - 3
ASSUME ValuesAssumption ==
  /\ Values16 \subseteq Nat /\ Values8 \subseteq Nat
  /\ Coords \subseteq Int \X Int
  /\ Junk \subseteq 0 .. Base - 1 /\ Junk # {}
  /\ MaxClicks \in Nat

VARIABLES
  ba,              (* the bytes of the buffer; those from size on mean nothing *)
  size,            (* ba.size()                                            *)
  ba_log,          (* contents of ba_log: "unset", "command" or "trailer"  *)
  send_counter,    (* next byte to send                                    *)
  serial_counter,  (* ticks spent outside Control                          *)
  writing,         (* serialWrite_timer is active                          *)
  refreshing,      (* refresher_timer is active                            *)
  locked,          (* the window is disabled                               *)
  control,         (* chckBoxControl is checked                            *)
  log,             (* chckBoxLog is checked                                *)
  connected,       (* the serial port is open                              *)
  spin,            (* spin[p]: what the spin box of the field at p shows   *)
  circleOn,        (* circleColorRec_timer is active                       *)
  circle,          (* the circle's centre, scaled                          *)
  clicks,          (* operator actions so far; bounded by MaxClicks        *)
  sent,            (* history: bytes on the wire since send_counter was 0  *)
  before,          (* history: ba when send_counter was last reset         *)
  changes          (* history: changes of ba since then, 2 standing for more *)

bufferVars  == <<ba, size>>
counterVars == <<send_counter, serial_counter>>
timerVars   == <<writing, refreshing, locked>>
panelVars   == <<control, log, spin>>
circleVars  == <<circleOn, circle>>
frameVars   == <<sent, before, changes>>
vars == <<bufferVars, ba_log, counterVars, timerVars, panelVars, connected,
          circleVars, clicks, frameVars>>

Byte(n) == n % Base

\* C's division and remainder truncate toward zero; stored in a byte, the
\* remainder of a negative number is its residue.
HiNotStoredInAByte(n) == n \div Base                      \* mutant
Hi(n) == IF n >= 0 THEN Byte(n \div Base) ELSE Byte(-((-n) \div Base))
Lo(n) == Byte(n)

---------------------------------------------------------------------------
(* The transmitter.                                                        *)

SumOfTheTail(b, last) ==                                  \* mutant
  LET sum[n \in 0 .. last] == IF n < 5 THEN 0 ELSE sum[n - 1] + b[n]
  IN  sum[last]

\* The sum of b[1] .. b[last].
Sum(b, last) ==
  LET sum[n \in 0 .. last] == IF n = 0 THEN 0 ELSE sum[n - 1] + b[n]
  IN  sum[last]

\* ba with the checksums of bytes 1 .. size-3 stored at p and p+1.
Sealed(p) ==
  LET a == Byte(Sum(ba, size - 3))
  IN  [ba EXCEPT ![p] = a, ![p + 1] = Byte(ba[0] + a)]

TrailerByte(n) == IF n \in {0, LogLen - 1} THEN Start ELSE 0

\* Either the next of len bytes goes out, or the frame is over.
SendOrWrap(next, len) ==
  IF send_counter < len
  THEN /\ send_counter' = send_counter + 1
       /\ sent' = IF connected THEN Append(sent, next) ELSE sent
       /\ UNCHANGED <<before, changes>>
  ELSE /\ send_counter' = 0
       /\ sent' = <<>>
       /\ before' = ba'
       /\ changes' = 0

TransmitControl ==
  /\ ba' = Sealed(8)
  /\ SendOrWrap(ba'[send_counter], size)
  /\ UNCHANGED <<serial_counter, ba_log, writing>>

TransmitConfig ==
  /\ serial_counter < SendTicks
  /\ ba' = Sealed(ConfigLen - 2)
  /\ SendOrWrap(ba'[send_counter], size)
  /\ serial_counter' = serial_counter + 1
  /\ UNCHANGED <<ba_log, writing>>

TransmitTrailer ==
  /\ serial_counter >= SendTicks
  /\ serial_counter < StopTicks
  /\ ba_log' = "trailer"
  /\ UNCHANGED ba
  /\ SendOrWrap(TrailerByte(send_counter), LogLen)
  /\ serial_counter' = serial_counter + 1
  /\ UNCHANGED writing

KeepTicking ==                                            \* mutant
  /\ serial_counter >= StopTicks
  /\ UNCHANGED <<writing, serial_counter, ba, ba_log, send_counter, frameVars>>

StopItself ==
  /\ serial_counter >= StopTicks
  /\ writing' = FALSE
  /\ serial_counter' = 0
  /\ UNCHANGED <<ba, ba_log, send_counter, frameVars>>

\* timer_serialWrite.  Its third branch, which would send ba_log while the Log
\* box is checked, follows "control" and "not control" and is never taken.
SerialTick ==
  /\ writing
  /\ IF control THEN TransmitControl
                ELSE TransmitConfig \/ TransmitTrailer \/ StopItself
  /\ UNCHANGED <<size, refreshing, locked, panelVars, connected, circleVars, clicks>>

\* One more change of the buffer since the frame began.
OneChange == changes' = IF changes = 0 THEN 1 ELSE 2

IdKept == UNCHANGED ba                                    \* mutant
IdCleared == ba' = [ba EXCEPT ![3] = Default]

OverWhileSending == refreshing /\ writing                 \* mutant
Over == refreshing

WindowGivenBack == refreshing' = FALSE /\ locked' = FALSE

\* timer_refresher: the request is over, the window is given back.
Refresh ==
  /\ Over
  /\ IdCleared
  /\ WindowGivenBack
  /\ OneChange
  /\ UNCHANGED <<size, ba_log, counterVars, writing, panelVars, connected, circleVars,
                 clicks, sent, before>>

---------------------------------------------------------------------------
(* The operator, while the window is enabled.                              *)

Click == ~locked /\ clicks < MaxClicks /\ clicks' = clicks + 1

\* on_btnRead_clicked and on_btnWrite_clicked; unchecking Control enables them.
Request(id) ==
  /\ Click
  /\ ~control
  /\ ba' = [ba EXCEPT ![3] = id]
  /\ writing' = TRUE
  /\ refreshing' = TRUE
  /\ locked' = TRUE
  /\ OneChange
  /\ UNCHANGED <<size, ba_log, counterVars, panelVars, connected, circleVars, sent, before>>

Read  == Request(ReadId)
Write == Request(WriteId)

\* What chckBoxControl's slot makes of the buffer: a header, the centre as it
\* is now (zeros when the circle timer is stopped) and, in place of checksums,
\* whatever the resize leaves there until the next tick.
ControlHeader == <<Start, Byte(4), 2, ControlId>>
ConfigHeader  == <<Start, Byte(ConfigLen - 6), 1, Default>>

Centre(c) == <<Hi(c[1]), Lo(c[1]), Hi(c[2]), Lo(c[2])>>

ControlBuffer ==
  [i \in Offsets |->
     IF i < 4 THEN ControlHeader[i + 1]
     ELSE IF i < 8 THEN (IF circleOn THEN Centre(circle)[i - 3] ELSE 0)
     ELSE IF i < ControlLen THEN ba[i] ELSE 0]

ConfigBuffer(junk) ==
  [i \in Offsets |->
     IF i < 4 THEN ConfigHeader[i + 1] ELSE IF i < ConfigLen - 2 THEN 0 ELSE junk]

ControlOn ==
  /\ Click
  /\ ~control
  /\ control' = TRUE
  /\ size' = ControlLen
  /\ ba' = ControlBuffer
  /\ changes' = 2
  /\ UNCHANGED <<ba_log, counterVars, timerVars, log, spin, connected, circleVars, sent, before>>

ControlOff ==
  /\ Click
  /\ control
  /\ control' = FALSE
  /\ size' = ConfigLen
  /\ \E j \in Junk : ba' = ConfigBuffer(j)
  /\ changes' = 2
  /\ UNCHANGED <<ba_log, counterVars, timerVars, log, spin, connected, circleVars, sent, before>>

\* A spin box's slot stores its bytes whatever the buffer's size is: QByteRef
\* grows the array to reach its index and leaves the gap uninitialised.
StoreBytes(p, bytes) ==
  LET last == p + Len(bytes) - 1
      grown == IF last < size THEN size ELSE last + 1
  IN  /\ size' = grown
      /\ \E j \in Junk :
           ba' = [i \in Offsets |->
                    IF i \in p .. last THEN bytes[i - p + 1]
                    ELSE IF i \in size .. grown - 1 THEN j
                    ELSE ba[i]]

Edit(p, v, bytes) ==
  /\ Click
  /\ v # spin[p]
  /\ spin' = [spin EXCEPT ![p] = v]
  /\ StoreBytes(p, bytes)
  /\ OneChange
  /\ UNCHANGED <<ba_log, counterVars, timerVars, control, log, connected, circleVars,
                 sent, before>>

Edit16(p, v) == p \in Fields16 /\ Edit(p, v, <<Hi(v), Lo(v)>>)
Edit8(p, v)  == p \in Fields8 /\ Edit(p, v, <<Lo(v)>>)

\* on_chckBoxLog_stateChanged: ba_log is filled in, the timer started or stopped.
ToggleLog ==
  /\ Click
  /\ log' = ~log
  /\ ba_log' = "command"
  /\ writing' = log'
  /\ UNCHANGED <<bufferVars, counterVars, refreshing, locked, control, spin, connected,
                 circleVars, frameVars>>

Connect ==
  /\ Click
  /\ ~connected
  /\ connected' \in BOOLEAN
  /\ UNCHANGED <<bufferVars, ba_log, counterVars, timerVars, panelVars, circleVars, frameVars>>

Disconnect ==
  /\ Click
  /\ connected
  /\ connected' = FALSE
  /\ writing' = FALSE
  /\ UNCHANGED <<bufferVars, ba_log, counterVars, refreshing, locked, panelVars, circleVars,
                 frameVars>>

---------------------------------------------------------------------------
(* The circle's centre, which the Control box reads.  Pausing stops its     *)
(* timer and keeps it, turning the feature off forgets it.                 *)

CircleTimer ==
  /\ circleOn' = ~circleOn
  /\ circle' \in IF circleOn THEN {circle, NoCircle} ELSE {circle}
  /\ UNCHANGED <<bufferVars, ba_log, counterVars, timerVars, panelVars, connected,
                 clicks, frameVars>>

\* CircleColorRec::operation: the centre of the only circle of the frame; none
\* counts when there are several.
CircleTick(c) ==
  /\ circleOn
  /\ circle' = c
  /\ UNCHANGED <<bufferVars, ba_log, counterVars, timerVars, panelVars, connected, circleOn,
                 clicks, frameVars>>

\* on_btnClear_clicked, as far as the circle goes, and the box turned off while
\* paused.
Clear ==
  /\ ~locked
  /\ circle' = NoCircle
  /\ UNCHANGED <<bufferVars, ba_log, counterVars, timerVars, panelVars, connected, circleOn,
                 clicks, frameVars>>

---------------------------------------------------------------------------
Init ==
  /\ \E j \in Junk : ba = ConfigBuffer(j)
  /\ size = ConfigLen
  /\ ba_log = "unset"
  /\ send_counter = 0 /\ serial_counter = 0
  /\ writing = FALSE /\ refreshing = FALSE /\ locked = FALSE
  /\ control = FALSE /\ log = FALSE
  /\ connected = FALSE
  /\ spin = [p \in Fields16 \cup Fields8 |-> 0]
  /\ circleOn = FALSE /\ circle = NoCircle
  /\ clicks = 0
  /\ sent = <<>> /\ before = ba /\ changes = 0

Next ==
  \/ SerialTick
  \/ Refresh
  \/ Read \/ Write
  \/ ControlOn \/ ControlOff
  \/ \E p \in Fields16, v \in Values16 : Edit16(p, v)
  \/ \E p \in Fields8, v \in Values8 : Edit8(p, v)
  \/ ToggleLog
  \/ Connect \/ Disconnect
  \/ CircleTimer
  \/ \E c \in Coords \cup {NoCircle} : CircleTick(c)
  \/ Clear

Spec == Init /\ [][Next]_vars

\* Qt delivers the timeout of an active timer whenever the event loop is free,
\* and no slot of the program keeps it forever.
Fairness == WF_vars(SerialTick) /\ WF_vars(Refresh)
FairSpec == Spec /\ Fairness

---------------------------------------------------------------------------
(* Properties.                                                             *)

TypeOK ==
  /\ ba \in [Offsets -> 0 .. Base - 1]
  /\ size \in ControlLen .. ConfigLen
  /\ ba_log \in {"unset", "command", "trailer"}
  /\ send_counter \in 0 .. ConfigLen
  /\ serial_counter \in 0 .. StopTicks
  /\ writing \in BOOLEAN /\ refreshing \in BOOLEAN /\ locked \in BOOLEAN
  /\ control \in BOOLEAN /\ log \in BOOLEAN
  /\ connected \in BOOLEAN /\ circleOn \in BOOLEAN
  /\ spin \in [Fields16 \cup Fields8 -> Values16 \cup Values8 \cup {0}]
  /\ circle \in Coords \cup {NoCircle}
  /\ clicks \in 0 .. MaxClicks
  /\ changes \in 0 .. 2

\* A read or write id stays in the buffer exactly while the request that put
\* it there holds the window locked; a control frame always says it is one.
RequestHoldsWindow ==
  /\ (ba[3] \in {ReadId, WriteId}) <=> refreshing
  /\ refreshing <=> locked
  /\ control <=> ba[3] = ControlId

\* What the autopilot reassembles byte by byte passes its checks.
Complete == size = (IF control THEN ControlLen ELSE ConfigLen) /\ Len(sent) = size
Received == [i \in 0 .. size - 1 |-> sent[i + 1]]
Accepted ==
  /\ Complete
  /\ Received[0] = Start
  /\ Received[1] = Byte(size - 6)
  /\ Received[size - 2] = Byte(Sum(Received, size - 3))
  /\ Received[size - 1] = Byte(Received[0] + Received[size - 2])

\* The buffer changes under the transmitter, which sends a byte per tick.  A
\* frame during which it changed at most once and which the autopilot accepts
\* is nevertheless the buffer of one moment: as the frame began or as it ended.
FrameNotTorn ==
  Accepted /\ changes <= 1 =>
    \E b \in {before, ba} : \A i \in 0 .. size - 3 : Received[i] = b[i]

\* The window that Read and Write lock is given back.
WindowReturns == locked ~> ~locked

\* Outside Control the transmitter always falls silent: no request or Log tick
\* keeps it on the line for ever.
TransmissionEnds == []<>(~writing \/ control)

---------------------------------------------------------------------------
(* What the window's own hint says of the protocol and the code does not do.*)

\* "Not Control: messages ---> pRoll - iRoll - dRoll ..." (dialog.ui:3733): the
\* frame carries what the spin boxes show.
ConfigCarriesFields ==
  ~control =>
    /\ \A p \in Fields16 : <<ba[p], ba[p + 1]>> = <<Hi(spin[p]), Lo(spin[p])>>
    /\ \A p \in Fields8 : ba[p] = Lo(spin[p])
=============================================================================
