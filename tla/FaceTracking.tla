---------------------------- MODULE FaceTracking ----------------------------
(***************************************************************************)
(* FaceRec (facerec.cpp): the trackers that follow faces from frame to     *)
(* frame and the vector detected_person_name that is meant to run parallel *)
(* to them, the descriptors loaded from Database/db.csv, and the calls     *)
(* that load, unload and change the database between two ticks.            *)
(*                                                                         *)
(* One tick of faceRec_timer is one call of operation.  Its loops are      *)
(* modelled an iteration at a time, under a program counter, because they  *)
(* index one vector with the bounds of the other; nothing else runs until  *)
(* the call returns.  Whether a face is found, matched, recognised or lost,*)
(* and whether a network throws, is the networks' choice.  Indices count   *)
(* from 1.                                                                 *)
(***************************************************************************)
EXTENDS Naturals, Sequences, SequencesExt

CONSTANTS
  Persons,      (* the labels in db.csv; a label may have several rows     *)
  MaxRows,      (* bound on the rows of db.csv                             *)
  MaxFaces,     (* bound on the faces found in one frame                   *)
  MaxTrackers,  (* bound on trackers.size()                                *)
  MaxNames      (* bound on the names a face's further matches may push    *)

Unknown == "unknown"

ASSUME BoundsAssumption == /\ {MaxRows, MaxFaces, MaxTrackers, MaxNames} \subseteq Nat
                           /\ MaxTrackers > 0
ASSUME PersonsAssumption == Unknown \notin Persons

VARIABLES
  rows,         (* labels of the rows of Database/db.csv                   *)
  descriptors,  (* database_face_descriptors: whose face each was made of  *)
  labels,       (* labels of the rows when they were last read             *)
  loadBox,      (* chckBoxLoadDatabase is checked                          *)
  trackers,     (* per tracker, the persons whose descriptors it was close to *)
  detected_person_name,
  pc,           (* where operation is; "idle" between two calls            *)
  todo,         (* faces of this frame still to handle                     *)
  index,        (* the next row in "recognize", the next tracker in "update" *)
  is_set,       (* is_set_detected_person_name                             *)
  unnamed,      (* history: why, since trackers was last cleared, one was  *)
                (* pushed and no name: "unloaded", "thrown"; or "none"  *)
  several       (* history: since then, a face pushed more than one name   *)

dbVars == <<rows, descriptors, labels, loadBox>>
faultVars == <<unnamed, several>>
vars == <<dbVars, trackers, detected_person_name, pc, todo, index, is_set, faultVars>>

Files == SeqOf(Persons, MaxRows)

Init ==
  /\ rows \in Files
  /\ labels = rows
  /\ descriptors = <<>>
  /\ loadBox = FALSE
  /\ trackers = <<>>
  /\ detected_person_name = <<>>
  /\ pc = "idle" /\ todo = 0 /\ index = 1
  /\ is_set = FALSE
  /\ unnamed = "none" /\ several = FALSE

---------------------------------------------------------------------------
(* operation: first the faces of the frame, when this frame is not skipped.*)

BeginTick(faces) ==
  /\ pc = "idle"
  /\ pc' = "detect"
  /\ todo' = faces
  /\ UNCHANGED <<dbVars, trackers, detected_person_name, index, is_set, faultVars>>

FaceMatchesTracker ==
  /\ pc = "detect" /\ todo > 0
  /\ trackers # <<>>
  /\ todo' = todo - 1
  /\ UNCHANGED <<dbVars, trackers, detected_person_name, pc, index, is_set, faultVars>>

\* A new tracker; with a database loaded, recognize names it.
StartTracker ==
  /\ pc = "detect" /\ todo > 0
  /\ Len(trackers) < MaxTrackers
  /\ trackers' = Append(trackers, {})
  /\ todo' = todo - 1
  /\ index' = 1
  /\ pc' = IF descriptors # <<>> THEN "recognize" ELSE pc
  /\ unnamed' = IF descriptors = <<>> /\ unnamed = "none" THEN "unloaded" ELSE unnamed
  /\ UNCHANGED <<dbVars, detected_person_name, is_set, several>>

\* A network throws, be it the detector, the pose model or recognize's before it
\* has pushed a name; operation's handler ends the call.
NetThrows ==
  /\ \/ pc = "detect" /\ todo > 0
     \/ pc = "recognize" /\ index = 1
  /\ pc' = "idle"
  /\ unnamed' = IF pc = "recognize" THEN "thrown" ELSE unnamed
  /\ UNCHANGED <<dbVars, trackers, detected_person_name, todo, index, is_set, several>>

\* recognize: every descriptor that is close enough pushes the label that stands
\* at its place.
RowMatches ==
  /\ pc = "recognize" /\ index <= Len(descriptors)
  /\ is_set => Len(detected_person_name) < MaxNames
  /\ detected_person_name' = Append(detected_person_name, labels[index])
  /\ trackers' = [trackers EXCEPT ![Len(trackers)] = @ \cup {descriptors[index]}]
  /\ is_set' = TRUE
  /\ several' = (several \/ is_set)
  /\ index' = index + 1
  /\ UNCHANGED <<dbVars, pc, todo, unnamed>>

RowDiffers ==
  /\ pc = "recognize" /\ index <= Len(descriptors)
  /\ index' = index + 1
  /\ UNCHANGED <<dbVars, trackers, detected_person_name, pc, todo, is_set, faultVars>>

NamesNothing == detected_person_name                      \* mutant
NamesUnknown == IF is_set THEN detected_person_name
                ELSE Append(detected_person_name, Unknown)

RecognizeEnds ==
  /\ pc = "recognize" /\ index > Len(descriptors)
  /\ detected_person_name' = NamesUnknown
  /\ is_set' = FALSE
  /\ pc' = "detect"
  /\ UNCHANGED <<dbVars, trackers, todo, index, faultVars>>

---------------------------------------------------------------------------
(* operation: then every tracker is moved to this frame.                   *)

BeginUpdate ==
  /\ pc = "detect" /\ todo = 0
  /\ pc' = "update"
  /\ index' = 1
  /\ UNCHANGED <<dbVars, trackers, detected_person_name, todo, is_set, faultVars>>

\* Indexing or erasing past the end of detected_person_name is undefined; the
\* model stops there.
NoSuchName == index > Len(detected_person_name)

KeepTracker ==
  /\ pc = "update" /\ index <= Len(trackers)
  /\ IF descriptors # <<>> /\ NoSuchName
     THEN pc' = "undefined" /\ UNCHANGED index
     ELSE index' = index + 1 /\ UNCHANGED pc
  /\ UNCHANGED <<dbVars, trackers, detected_person_name, todo, is_set, faultVars>>

\* The loop that has erased an element looks at the same place again.
IndexAfterErase == index

LoseTracker ==
  /\ pc = "update" /\ index <= Len(trackers)
  /\ trackers' = RemoveAt(trackers, index)
  /\ index' = IndexAfterErase
  /\ IF detected_person_name = <<>>
     THEN UNCHANGED <<detected_person_name, pc>>
     ELSE IF NoSuchName
          THEN pc' = "undefined" /\ UNCHANGED detected_person_name
          ELSE /\ detected_person_name' = RemoveAt(detected_person_name, index)
               /\ UNCHANGED pc
  /\ UNCHANGED <<dbVars, todo, is_set, faultVars>>

EndTick ==
  /\ pc = "update" /\ index > Len(trackers)
  /\ pc' = "idle"
  /\ UNCHANGED <<dbVars, trackers, detected_person_name, todo, index, is_set, faultVars>>

---------------------------------------------------------------------------
(* Between two ticks.                                                      *)

trackVars == <<pc, todo, index, is_set>>

\* load_database reads every row and forgets who is being tracked.
LoadReadsPastEnd(file) ==                                 \* mutant
  /\ labels' = file
  /\ descriptors' = Append(file, Unknown)
  /\ detected_person_name' = <<>>
  /\ trackers' = <<>>
  /\ unnamed' = "none" /\ several' = FALSE

LoadForgetsNames(file) ==                                 \* mutant
  /\ labels' = file
  /\ descriptors' = file
  /\ detected_person_name' = <<>>
  /\ unnamed' = "none" /\ several' = FALSE
  /\ UNCHANGED trackers

LoadDatabase(file) ==
  /\ labels' = file
  /\ descriptors' = file
  /\ detected_person_name' = <<>>
  /\ trackers' = <<>>
  /\ unnamed' = "none" /\ several' = FALSE

\* load_labels_only reads the labels and nothing else.
LoadLabelsOnly(file) ==
  /\ labels' = file
  /\ UNCHANGED <<descriptors, detected_person_name, trackers, faultVars>>

CheckLoadBox ==
  /\ pc = "idle" /\ ~loadBox
  /\ loadBox' = TRUE
  /\ LoadDatabase(rows)
  /\ UNCHANGED <<rows, trackVars>>

\* Unchecking the box, which turning the face box off does too, clears the
\* descriptors only.
UncheckLoadBox ==
  /\ pc = "idle" /\ loadBox
  /\ loadBox' = FALSE
  /\ descriptors' = <<>>
  /\ UNCHANGED <<rows, labels, trackers, detected_person_name, trackVars, faultVars>>

\* How saving and deleting faces end: the file has changed and is read again,
\* by load_database only if some descriptor is loaded.
ReloadsLabels(file) == LoadLabelsOnly(file)               \* mutant
Reload(file) == IF descriptors = <<>> THEN LoadLabelsOnly(file) ELSE LoadDatabase(file)

SaveFaces(saved) ==
  /\ pc = "idle"
  /\ rows' = rows \o saved
  /\ Reload(rows')
  /\ UNCHANGED <<loadBox, trackVars>>

\* The row chosen in the combo box, whose first entry is no row, is left out.
DeleteFace(row) ==
  /\ pc = "idle"
  /\ rows' = IF row = 0 THEN rows ELSE RemoveAt(rows, row)
  /\ Reload(rows')
  /\ UNCHANGED <<loadBox, trackVars>>

---------------------------------------------------------------------------
Operation ==
  \/ FaceMatchesTracker \/ StartTracker
  \/ NetThrows \/ RowMatches \/ RowDiffers \/ RecognizeEnds
  \/ BeginUpdate \/ KeepTracker \/ LoseTracker \/ EndTick

Next ==
  \/ \E faces \in 0 .. MaxFaces : BeginTick(faces)
  \/ Operation
  \/ CheckLoadBox \/ UncheckLoadBox
  \/ \E saved \in SeqOf(Persons, MaxRows - Len(rows)) : SaveFaces(saved)
  \/ \E row \in 0 .. Len(rows) : DeleteFace(row)

Spec == Init /\ [][Next]_vars

---------------------------------------------------------------------------
(* Properties.                                                             *)

TypeOK ==
  /\ rows \in Files /\ labels \in Files /\ descriptors \in Files
  /\ loadBox \in BOOLEAN /\ is_set \in BOOLEAN
  /\ trackers \in Seq(SUBSET Persons) /\ Len(trackers) <= MaxTrackers
  /\ detected_person_name \in Seq(Persons \cup {Unknown})
  /\ pc \in {"idle", "detect", "recognize", "update", "undefined"}
  /\ todo \in 0 .. MaxFaces
  /\ index \in Nat
  /\ unnamed \in {"none", "unloaded", "thrown"} /\ several \in BOOLEAN

\* What recognize finds at the place of a descriptor in labels is the name of
\* its own row, although load_labels_only replaces labels alone.
LabelsMatchDescriptors == descriptors # <<>> => labels = descriptors

\* No call of operation indexes or erases a name that is not there, unless a
\* tracker was left without one: because no database was loaded, or because
\* the network threw between the pushes of the tracker and of its name.
NamesInBounds == unnamed = "none" => pc # "undefined"

\* The names tracker by tracker: one the face was recognised as, or "unknown"
\* if it was not recognised.
NamedRight ==
  \A t \in 1 .. Len(trackers) :
    /\ t <= Len(detected_person_name)
    /\ detected_person_name[t] \in (IF trackers[t] = {} THEN {Unknown} ELSE trackers[t])

\* Between two ticks every tracker is shown with the name of its own face,
\* whatever has been lost, reloaded, saved or deleted, unless a tracker was
\* left without a name or a face pushed several.
ShowsRecognisedPerson == pc = "idle" /\ unnamed = "none" /\ ~several => NamedRight

---------------------------------------------------------------------------
(* What comments of operation say and the code does not do.                *)

\* "Show recognized person" (facerec.cpp:265), while a database is loaded and
\* every tracker has pushed a name.
ShowsEveryPerson == pc = "idle" /\ descriptors # <<>> /\ unnamed = "none" => NamedRight

\* "Delete if the quality is not good enough or the rectangle's going outside
\* the screen" (facerec.cpp:241): a bad tracker is erased, with its name if it
\* has one, when the networks work.
DeletesWithName == unnamed # "thrown" => pc # "undefined"
=============================================================================
