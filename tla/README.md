# R2Lab ground control station: TLA+ models, checks and proofs

The repository is a Qt desktop program with which an operator watches and
steers a UAV: one camera feeds five vision features, a serial line carries gains
and set points to the autopilot, and a face recogniser keeps a small database of
people. About 2,700 lines under `src/R2Lab` are the program's own
(`dialog.cpp`, `facerec.cpp`, `savenewface.cpp`, `motion.cpp`, `qrcode.cpp`,
`circlecolorrec.cpp`); the other 1,470 files are a vendored copy of dlib. There
are no tests, so the models are translated from the code, and the hints and
comments it contains are what the findings compare it with.

The program has one thread. A Qt slot runs to its end before the next signal is
delivered, so one slot is one atomic action, with two exceptions: a slot that
changes a check box or calls another slot runs that slot inside itself, and a
slot that opens a modal dialog (`exec()`, `getSaveFileName()`) runs a nested event
loop in which timers still fire. What is hard about this program is therefore
not threads but the ORDER in which an operator, nine timers and the devices take
their turns, and state that one slot leaves behind for another.

## Parts of the system

| part | state | operations | interacts with | must hold |
|---|---|---|---|---|
| camera panel (`dialog.cpp` 136-170, 488-950, 1019-1052) | the `VideoCapture`, the mode, six 30 ms timers, five check boxes, the default-mode and Pause buttons by their label, `show_priority`, `set_cap_check`, `is_cap_open` | turn a feature on or off, default mode, Pause/Play, Disconnect, change of source, Set IP, Complete | face box unchecks the Load box; circle timer is read by Control; Complete of either log stops all timers | no timer without its feature; camera open while someone uses it and released when nobody does; what is on can be stopped |
| serial transmitter (364-436, 1135-1386) | `ba`, `ba_log`, `send_counter`, `serial_counter`, two timers, the lock of the window | spin boxes, Control, Log, Read, Write, connect, disconnect, the 1 ms tick, the 3 s refresher | circle centre for the control frame | a frame is of one moment; a request ends and returns the window |
| serial receiver (438-486, 1310-1325) | `recieve`, the signal connection | `read_data`, Freeze | shows what arrives | only whole frames are interpreted |
| face tracking (`facerec.cpp` 41-280) | `trackers`, `detected_person_name`, `labels`, `database_face_descriptors` | one `operation` per tick, load, unload, reload | file `db.csv`, Load box | names follow their trackers; labels follow their descriptors |
| face database (`facerec.cpp` 15-39, 282-459, `savenewface.cpp`) | `db.csv`, `faces`, `detected_person_name_from_photo` | save from image or photo through a modal dialog, delete; write a name and read it back | shares `faces` with face tracking, whose timer fires during the dialog | a row's label is the name typed for that face |
| motion tracker (`motion.cpp`) and QR list (`dialog.cpp` 254-283) | points, `needToInit`, `prevGray`, the rate; the list and a counter beside it | one call per tick, the check box, the Motion button, Clear | the camera it is given, charts, logs | no stale picture, rate or index is used; motion does not go quiet |
| circle detector (`circlecolorrec.cpp`) | the centre | one call per tick, forgotten by Clear and the check box | Control reads the centre | several circles count as none |
| charts (`dialog.cpp` 191-250, 291-340) | four vectors, their counters, four series | a point per tick; past 49 points the walk that moves every value | circle and motion ticks | a full chart shows consecutive measurements |
| XML logs (`dialog.cpp` 1388-1456, 1669-1809) | two paths, `QFile`s, stream writers and counters, and the files themselves, which outlive the program | header, entry, Browse, Complete, Reset | circle and motion ticks; Complete stops all timers | the file of a log is a whole document |

OCR is an empty stub. Style sheets, axes, fonts and settings sliders are layout
or single assignments. `PROJECT.json` lists every part with its status, and under
`hazards` each place where the code is hard to test.

## Modules

| module | models | state and actions |
|---|---|---|
| `CameraPanel` | the camera panel | a variable per piece of state above (`timers` is the set of features whose `QTimer` is active, `buttons` the set of enabled buttons); one action per slot. Disconnect, which runs other slots inside itself, is one action with their joint effect |
| `CameraLease` | what the panel promises about the shared camera | features join and leave; the last one to leave releases |
| `MCCameraPanel` | TLC values: what `cap.open` may answer | |
| `CameraPanel_proofs` | theorems | |
| `SerialLink` | the serial transmitter | `ba` is a function on all 31 offsets with `size` beside it, as a `QByteArray` that shrinks and grows; `SerialTick` is `timer_serialWrite`; `sent`, `before`, `changes` are history variables |
| `MCSerialLink`, `SerialLink_proofs` | TLC values; theorems | |
| `SerialReceive`, `MCSerialReceive` | the serial receiver | `wire` and `buffer` hold bytes sent and bytes the port has received; `Arrive(k)` is one `readyRead` with `read_data` and `allocate` inside; `sent`, `pieces`, `regular` are history variables |
| `SerialReceive_proofs` | theorems | |
| `FaceTracking` | `FaceRec::operation`, `recognize`, loading | the loops of `operation` run an iteration per step under `pc`, since they index one vector with the bounds of another; `"undefined"` is an index past the end; `unnamed`, `several` are history variables |
| `FaceTracking_proofs` | theorems | |
| `FaceDatabase` | both save functions, the name dialog, deletion, the Load box, the combo box of labels | `pc` walks a save from face to face; the dialog is a state of its own, in which `FaceRecTicks` may happen; `typed` is `detected_person_name_from_photo` and remembers the face each name was typed for; `disturbed` is a history variable |
| `LabelCodec` | `find_and_replace` and the clean-up of labels | an algorithm: what a name is read back as, beside what the code promises of it (`ReadsBackAs`); `Round` is one round of the loop of `find_and_replace`, `Erase` all of them |
| `MCFaceDatabase` | composes `FaceDatabase` with `LabelCodec` | the labels are those the codec computes |
| `FaceDatabase_proofs` | theorems | |
| `SlidingWindow` | what a chart promises | the curve grows, then slides |
| `Chart` | one series of a chart: the tick that appends or walks | a module without a `Next`, as its timers are elsewhere |
| `MotionTracker` | `Motion::operation` | `Detect`, `Follow`; `DetectThrows` without a point, `Throws` when the pictures differ in size |
| `QrList` | the list of codes and its counter | `AddCode`, `ClearList`; `MissesItem` is the null pointer |
| `Vision`, `MCVision` | composes `MotionTracker`, `QrList` and `Chart` | `timer_motion`, `timer_qrCode`, the check box, Clear and the choice of a camera; `switched`, `cleared`, `measured` are history variables |
| `Vision_proofs` | theorems | |
| `XmlLogs`, `MCXmlLogs` | both XML logs | a file is the sequence of what was written to it; a log is a path, a file, a writer and a counter; `intact`, `begun`, `headless` are history variables |
| `XmlLogs_proofs` | theorems | |
| `Induction` | induction on the natural numbers, and that a set of them has a least one | stated about a set, since the provers cannot instantiate the library's theorems, which are about an operator; used by the proofs |

A definition marked `mutant` is a wrong variant of the definition below it: with
it in place, one of the properties fails. It documents what the property can see.

### How the state corresponds to the code

*Camera panel.* A feature is the index of its tab. `Enabled` is what `start_timers`
tests. `VisionOn(f)` and `VisionOff(f)` are the two branches of the five
`on_chckBox..._stateChanged` slots, which are alike up to the tab index, the
button the feature owns and the pictures. `NothingElseOn(f)` is the six-fold
condition each of them ends with. `cap.open` is nondeterministic per device
(`CamOpens`, `IpOpens`), and closes what was open before. `set_cap_check` is not
initialised in the code and takes either value in `Init`.

*Serial transmitter.* Numbers are stored in bytes by C's truncating division and
remainder (`Hi`, `Lo`). Spin boxes write into `ba` whatever its size; what
`QByteArray` leaves uninitialised is a choice from `Junk`. The operator's slots are
guarded by `~locked`, since `Dialog::setEnabled(false)` disables all of them, and
Read and Write by `~control`, which disables them. The third branch of
`timer_serialWrite` cannot be reached and has no action. The circle's centre may be
found (`CircleTick`), kept or forgotten when its timer stops, which depends on
whether the panel was paused, and forgotten by Clear.

*Serial receiver.* The bytes are modelled one by one, since cutting them wrongly is
what can go wrong; a frame is as far filled as `read_data` looks at it. A `readyRead`
brings any number of bytes of what is on its way. Freeze disconnects the slot, so
that the port's buffer grows, and the next `readyRead` after Unfreeze reads all of
it. Connecting clears what came before, but the rest of a frame may follow.

*Face tracking.* A tracker is represented by the set of labels its face was
recognised as (empty: none), which is what `detected_person_name` is compared
with, and a descriptor by the label of the row it was loaded from: which label
`recognize` then finds at its place is the question. A frame brings 0 to `MaxFaces` faces (0 is also a skipped frame). Reading the
file always finds it and finds it well formed; the error path of a missing file
ends the program. A save adds rows, a delete removes one, and both end in
`Reload`, which is `load_labels_only` or `load_database` by whether any descriptor
is loaded.

*Face database.* A descriptor is the person whose face it was computed from. Both
save functions fill `faces` and ask for a name per face, so that one set of
actions stands for them. While the dialog is open the operator reaches nothing
else, and `operation` replaces `faces` if descriptors are loaded and the frame is
not skipped. What `load_labels_only` makes of a name is the constant function
`LabelOf`, of which the proofs assume only that it maps names to labels; the runs take it from `LabelCodec`, in
which a name is a sequence of symbols and `Erase` follows the loop of
`find_and_replace`, which looks for a zero after each erasure whatever it erases. A database that
cannot be read ends the program and has no action. A save that finds no face or throws
leaves the labels alone, but its slot fills the combo box again, which deselects
(`SelectNone`). No action refuses a name: the list the dialog compares it with
(`savenewface.cpp` 31-34) belongs to a `Dialog` made on the spot and is empty.

*Motion, QR codes, charts.* A picture is the camera it comes from, with a size per
camera: that is what `calcOpticalFlowPyrLK` compares. In a picture without a point
`cornerSubPix` is given none, and may throw (`DetectThrows`) or not, by the version
of OpenCV. How many points are found and kept, and at what rate they moved, is free. The y direction and the circle's two
series are copies of what `Chart` models. Abscissae are counted in steps of 20;
the walk of a full chart is one step ahead of the points, so its first `replace`
finds no point, and every `replace` is conditional on the old value, as in
`QXYSeries::replace(oldX, oldY, newX, newY)`. Every walk ends at index 0 and reads
`vect[-1]` there (`dialog.cpp` 298-300), which is any value; only in the first two
walks of a full chart is there a point at the abscissa it asks for.

*XML logs.* The text of an entry is its index. A stream writer whose file could not be
opened for the header has no device and drops what it is given; one that was
given a document goes on from what it has begun, whatever its file is called or
holds by then. Restart forgets everything but the files.

## Properties and runs

| run | shows | instance |
|---|---|---|
| `camera_local` | `NeverReadsClosed`: no timer and no photo button meets a closed camera. `TurnedOnRuns`: what is turned on is polled at once. `StopsOnlyOnRequest`: nothing but Pause and Complete stops a feature that stays on | two local cameras that always open, all five boxes, up to six entries of `show_priority`; 0.5 million states |
| `camera_faulty` | `NoStrayTimer`, `ListMirrorsBoxes`, `ControlsReachable`, `ButtonsNeedFeature`, `SourceMatchesMode`, and `LeaseSpec`, the refinement of `CameraLease` | a local and an IP camera that may each fail, four boxes; 0.26 million states |
| `serial` | `RequestHoldsWindow`: read or write id in the buffer, refresher running and window locked are one condition. `FrameNotTorn`: an accepted frame during which the buffer changed once at most is the buffer of one moment. `WindowReturns`, `TransmissionEnds`: the window comes back and the line falls silent | base 9, a 14-byte configuration frame with one two-byte and one one-byte field, two frames of configuration and one of trailer, three clicks; 0.31 million states |
| `receive` | `ShownWasSent`: whatever is shown was sent, in that order. `RegularLinkShowsAll`: a link that delivers frame by frame loses none | 13-byte frames of real bytes, two reports whose data hold start and end bytes and a negative number, three frames, four clicks; 1.5 million states |
| `faces_safety` | `LabelsMatchDescriptors`, `NamesInBounds`, `ShowsRecognisedPerson` | two persons, at most two rows, two faces per frame, three trackers; 1.9 million states |
| `faces_database` | `SavedAsNamed`: a save adds each face with the name typed for it. `NoNameLeft`: no name leaks into a later save. `DescriptorForEveryName`: no index past the end. `DeletesWhatIsShown`: the row removed is the one whose label is chosen in the combo box. `NamesReadBack`: the label is the name as typed but for its first run of zeros, also for every name of up to four symbols | two persons, three names of which two are read back alike and one has zeros around a blank, pictures of at most two faces, three rows; 0.2 million states |
| `vision` | `NeverIdle`: with motion on a tick always has something to do. `ComparesOneCamera`: pictures of two cameras are compared only if the camera changed with motion on. `ColoursEntriesItHas`: the list is asked for a missing entry only after a Clear. `RateIsCurrent`: the rate charted is never one of an earlier use. `ShowsLastRates`, `ShowsAWindow`: the velocity chart shows consecutive rates and implements `SlidingWindow` | three cameras of two sizes, two points, a chart of three, seven ticks, three codes; 0.34 million states |
| `logs` | `IntactLog`: the file of an undisturbed log ends with the whole document of this run. `EntriesInOrder`: nothing is written twice or out of order in any file. `BeginsWithHeader`: what makes a file begin without its header | two default files and one that cannot be written, three ticks per log, two runs of the program, three clicks; 2.1 million states |
| `serial_config_fields`, `faces_two_rows`, `faces_unload`, `logs_reset` | findings, see below | as the runs above |

**Bounds.** The camera panel has no data: two modes show every transition between
sources, and the slots of the boxes do not compare boxes with one another, so
four of them already include each kind (with its own button, without, circle).
`MaxTabs` cuts only `DefModeOn`, because the list grows only through default
mode; each cycle of it repeats the same states with one more zero. In
`SerialLink` the length of the frame only multiplies states: 14 bytes leave the
header, the offsets the control frame uses, a two-byte and a one-byte field and
the checksums, and 9 as the base makes sums wrap (8 would
make the length byte of the frame that of a trailer, which the assumptions exclude). The tick counts let two full
frames and their wrap-around ticks pass before the trailer begins and before the
self-stop. Three clicks are enough for a request, a toggle of Control and an edit.
The centre of a circle enters the buffer only when Control is checked, in one
step like any other field, so the run has none; with one it passes as well, taking
three times as long. In `SerialReceive` three frames let a piece hold the end of one, a
whole one and the start of another, and four clicks are a connect, a freeze, an
unfreeze and one more.
In `FaceTracking` two rows are needed for a face that matches several, and three
trackers for a loss in front of, between and behind others. In `FaceDatabase` two
faces per picture let one be named and one dismissed, and three rows let a save
follow one that left a name behind. In `Vision` seven ticks push a chart of three
through growing and sliding, the two walks that may find a point for what lies before
the vector included; a threshold of two points tells apart enough, too few and none. In
`XmlLogs` three ticks are the header, the entry that closes the root's tag and one
that does not, per run; three clicks allow a Browse away, one back and a Complete.

**Why the runs may stop.** Deadlock checking is off where the system or its bounds
end: in `FaceTracking`, `FaceDatabase` and `Vision`, because after an index past the end, a
null pointer or an exception nobody catches the program is gone and the model
stops; in `SerialReceive` and `XmlLogs`, because every action is bounded.

**Fairness.** Only `serial` assumes any: weak fairness of the tick of the
write timer and of the refresher. Qt delivers the timeout of an active timer
whenever the event loop is free, and no slot keeps it forever. Nothing is assumed
of the operator, who is bounded by `MaxClicks`; a property such as
`TransmissionEnds` therefore speaks of what happens when the operator at last
leaves the window alone.

**Hypotheses.** `NeverReadsClosed`, `TurnedOnRuns` and `StopsOnlyOnRequest` hold for
cameras that open (`ReliableLocal`). With one that fails, Play and default mode
start timers on a closed camera: `PROJECT.json` lists it as a hazard. Where the code
does go wrong and a property therefore has to except the case, the hazard there
names no property and its note says so.
`FrameNotTorn` needs its clause on changes: two changes in one frame can cancel
in the checksum, and without the clause TLC finds an accepted frame that was
never in the buffer. `NamesInBounds` and `ShowsRecognisedPerson` say "until a
tracker was left without a name" (`unnamed`) and "until a face pushed several"
(`several`), and hold again after the next load. In `FaceDatabase` the
properties say which of a dismissed dialog, a tick in the dialog and a network
that throws (`disturbed`) they do without; the next rows written end it. In `Vision`
`switched` and `cleared` record the one way in which pictures of two sizes and an
index past the list come about, which is what the properties say; the third end,
`cornerSubPix` without a point, needs nothing but a picture without one. `RegularLinkShowsAll` is about a link that was open
before the first frame and cuts none (`regular`); `ShownWasSent` needs no such clause,
but that no frame holds the two end bytes in a row before its end
(`MessagesAssumption`), since no checksum is looked at. `IntactLog` stops speaking of a
log once its file was renamed, reset or shared, or written after its end (`intact`),
and speaks of it again after the next header; `BeginsWithHeader` excepts the files
that were reset or given to a log that had begun (`headless`). Names in `LabelCodec` have
no comma; one would end the label early.

## Findings

* `serial_config_fields`: unchecking Control zeroes the gains in the buffer
  (`dialog.cpp` 1364) while the spin boxes still show them; the next Write sends
  zeros. The window's hints say the frame carries the gains (`dialog.ui` 3733).
* `faces_two_rows`: a person with two rows in `db.csv` pushes two names for one
  tracker (`facerec.cpp` 142), and later trackers show their predecessor's name
  (comment at 265).
* `faces_unload`: after the database is unloaded, new trackers push no name, and
  losing one erases past the end of the names (`facerec.cpp` 246, comment at 241).
* `logs_reset`: the "Reset Log" button of the motion's tab (`dialog.ui` 2368) names the
  circle's path (`dialog.cpp` 1806): it empties the circle's log and makes the motion's
  go on there, although `dialog.h` 145 gives it a file of its own.

Other divergences met while modelling are recorded as hazards: a control frame
grows when a spin box is edited during Control, a transmission may start in
the middle of a frame, a change of camera with motion on may end the program, and
so may the next code read after the list was cleared. The dialog's "Entered name exists
in database!" can never appear (`savenewface.cpp` 31), so that one name may get
several rows, which is what `faces_two_rows` starts from.

## Proofs

All theorems are proved from the assumptions the modules state about their
constants, for every instance.

*`CameraPanel_proofs`.* `ControlsReachable`, `ButtonsNeedFeature` and
`SourceMatchesMode` are inductive; `NoStrayTimer` needs the types, which keep the
default mode's timer apart from those of the boxes. `IInv` is their conjunction,
and one lemma per slot shows that the slot keeps it. `PanelImplementsLease`
maps each slot to a step of `CameraLease` or a stutter: turning a feature on is a
Join that does not close the camera, because `set_cap` is only called when it is
closed; turning one off is a Leave, whose release is decided by `NothingElseOn`.
The three properties of reliable local cameras need a second invariant, that an
open camera goes with `is_cap_open` and that something on means an open camera;
they carry `ReliableLocal` as a hypothesis.
`ListMirrorsBoxes` is about a list of any length: a box that is checked appends its
tab, one that is unchecked erases every copy of it, as the loops over `show_priority`
do. What erasing leaves (`Without`) is shown by induction on the length, and each slot
then keeps "each checked box exactly once"; `PanelTypeCorrect` needs it, as the list's
entries must stay tabs.

*`SerialLink_proofs`.* `RequestHoldsWindow` is inductive once it is known that `ba` is
a function on its offsets (a store elsewhere leaves the id alone), that the id
is one of four, that the buffer is at least as long as a control frame, and that
no request is under way while Control is checked (`IInv`). The lemmas
`SealedKeepsId` and `StoreKeepsId` say that checksums and fields lie behind the header.

`TypeCorrect` needs that a sum of bytes is an integer, by induction on its length, and
that checksums are taken modulo the base. `FrameNotTorn` is the hardest of all: the
invariant (`FrameInv`) has to know at every offset of a transmission what has been sent
and what may still come. A frame that the buffer changed under at most once is in one of
three stages: all of it from the buffer as it began (`FromOld`), all of it from the
buffer as it is (`FromNew`), or sent up to a cut before the change and from there on
after it, so that it agrees with the buffer but for one byte (`Straddled`). In the last
stage the checksum decides: two sequences of bytes that differ in one place and have the
same sum modulo the base are equal (`SumOfOneOff`, `SameResidue`), so a frame the
receiver accepts is the new buffer after all. The rest of the invariant is what the code
leaves to luck: a control frame that an edit has made longer (`Odd`), a frame that
begins with a trailer's length (`BeganAsTrailer`) and one that a trailer cuts in on
(`TrailerCutsIn`). The first and the third do not have the length the receiver
completes, the second not the length byte it expects: that of a trailer is 0, which is
not that of a configuration frame (`LengthsAssumption`: 25 in the code), and a trailer
that cuts in has ended before the write timer stops (`TicksAssumption`: 7 bytes, 1000
ticks).

*`SerialReceive_proofs`.* The argument is about one stream, the bytes of all frames sent. `StreamOK`
says that the buffer and then the wire are its end, after the `Gone` bytes that were
read, dropped or cleared, and `ShownIsGone` that every line shown is a frame sent that has
left the stream, in order. That a piece which `read_data` accepts is one frame, whole
and unshifted (`PieceIsFrame`), follows from its last two bytes: a frame holds them in a
row nowhere else (`MessagesAssumption`), and across two frames they cannot stand, as a
frame ends with the second of them and the next begins with a third. Which byte of which
frame an offset is, is division by the frame's length (`Position`); `DecodedBack` says
that the signed and unsigned numbers come out as they went in. `PiecesOK` and `RegularOK` count the
pieces against the stream and give `RegularLinkShowsAll`.

*`FaceTracking_proofs`.* `TypeInv` adds to the types that the labels are
those of the rows the descriptors were loaded from and that recognition has a
tracker to work for; it gives
`FaceTrackingTypeCorrect` and `LabelsMatchDescriptorsAlways`. `NamesInv` adds the
inequality that explains `NamesInBounds`: as many names as trackers, one fewer
while `recognize` still owes a name. `PairedInv` turns it, for the time no face pushed
several names, into an equality and says name by name that each fits its tracker,
the one still being recognised having no label yet; `RemoveAtElements` moves names and
trackers up together when one is lost. It gives `ShowsRecognisedPersonAlways`.

*`FaceDatabase_proofs`.* Four facts make the invariant: the dialog is open for some
face; the combo box shows the file row by row; there are enough faces for the
names, one more while a dialog is open (`EnoughFaces`, under "no throw, no
tick"); and face by face they are those the names were typed for
(`FacesAsShown`, under "not even a dismissal"). `WrittenProperties` turns the last
into the equality of the rows written and the names typed.

`NamesReadBackAlways` rests on what `find_and_replace` does to a text of any length. A round
erases the first symbol it finds and goes on only if a zero has taken its place
(`RoundAt`, `RoundEnds`), so that a run of m zeros is erased in m rounds (`EraseRun`, by
induction on the rounds) and nothing behind it. Applied to the field behind the last
comma (`FieldIs`), the zeros first and the blanks next, this takes the name's first run
of zeros and then the blank in front of it (`ZerosErased`, `LabelIs`): `LabelReadsBack` is the theorem
for every name over every set of symbols, and the invariant that the combo box mirrors the
file carries it over to the program.

*`Vision_proofs`.* The features' invariant (`FeaturesInv`) adds three facts to the
properties: the list's counter is its length unless it was cleared; once points
are followed there is a picture to follow them from; and the number of points is
within bounds. The chart's (`ChartInv`) is `LagsByOne`, which says where every value of
the series stands in the vector; that every `replace` of the walk finds its point
follows from it and is the core of `ShiftStep`. `WindowIsLast` then gives the curve as a
slice of the vector, from which each tick is a `Grow` or a `Slide` of `SlidingWindow`
and every other action a stutter.

*`XmlLogs_proofs`.* The library has no lemmas on suffixes, so three come first
(`SuffixIs`, `SuffixGrows`, `LastIsSuffix`). `BeginsWithHeader` needs to know which file a log
writes to once it has begun (`BegunOK`). For `IntactLog` the invariant has to survive
entries of the log itself: `BodyBegins` and `BodyGrows` say how a document with n entries
becomes one with n + 1, and one lemma per action shows that the others either do
not touch the file or end `intact`. `EntriesInOrder` (`OrderInv`) needs that what this run of the
program has written carries this run's number and no entry beyond the log's counter
(`StampsPast`), so that what is appended comes after everything in the file
that is its log's.

*Only model-checked.* The two liveness properties, `WindowReturns` and `TransmissionEnds`:
they rest on ENABLED and fairness, which are beyond the prover. Every
other property of a run that passes is a theorem. What the runs add to the proofs is
that the invariants are not empty: each property has a mutant of the code that
violates it on the run's instance.

## Not modelled, and why

*The components side by side.* They meet in few places: the centre of the circle
feeds Control, the face box unchecks the Load box, the lock of the window covers
everything, Complete stops the timers, a switch of source changes the tracker's
camera. Each module lets the other side do what it may do at any time
(`CircleTimer`, `CircleTick` and `Clear` in `SerialLink`, `UncheckLoadBox` in `FaceTracking`,
`SwitchCamera` in `Vision`, `Complete` in both `CameraPanel` and `XmlLogs`), which allows more
than their product would, while its states are the product of theirs, which are
hundreds of thousands each.

*Time.* The models order ticks and do not count milliseconds. Whether a request
reaches the line before the 3 s refresher clears its id, when the counter of the
write timer was left past 3000, needs both timers on one clock and is listed as
a hazard without a property.

*The rest of the window.* The tab on view, the place and rate of a QR code, sliders and
their reset: assignments no other state depends on. OCR is an empty stub, of
which the box and the timer are modelled. A missing `db.csv` ends the program, and
the picture written beside each row is never read. Layout, style sheets, `main.cpp`,
the build file and the installation script have no behaviour to model.

*Details of data.* The spin boxes scale what they show in floating point and truncate
(`dialog.cpp` 1137); the models take the truncated number. Unchecking the last box
reads the head of an empty `show_priority` for the tab on view (`dialog.cpp` 528, 736). The name of a picture is
put together in a buffer too short for it (`facerec.cpp` 398-401). A log's path can be
written always or never, so that a failure that passes is not there. A name with a
comma is not.

*Libraries.* dlib, OpenCV, zbar and Qt are not this program's: what the code gets from
them is a free choice. dlib is 99 percent of the lines in the repository, a
vendored copy of a release; the models cover the program's own code.
