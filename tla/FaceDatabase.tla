---------------------------- MODULE FaceDatabase ----------------------------
(***************************************************************************)
(* Saving and deleting faces (facerec.cpp 282-459, savenewface.cpp and     *)
(* the slots of dialog.cpp that call them).                                *)
(*                                                                         *)
(* A save walks over the faces found in a picture.  For each of them it    *)
(* pushes the face onto the vector faces and opens a modal dialog, whose   *)
(* event loop lets faceRec_timer tick: with descriptors loaded, operation  *)
(* clears and refills the same vector.  At the end the i-th name typed is  *)
(* written beside the descriptor of the i-th face.  The operator can reach *)
(* nothing but the dialog until then.  The two save functions differ only  *)
(* in where the picture comes from and in the copy of it that one of them  *)
(* writes.                                                                 *)
(*                                                                         *)
(* Ticks between two saves are left out: they change faces, which a save   *)
(* clears first, and what else they change is FaceTracking.  The duplicate *)
(* check of the dialog asks a Dialog made on the spot, which has read no   *)
(* labels, and so refuses no name.                                         *)
(***************************************************************************)
EXTENDS Naturals, Sequences, SequencesExt

CONSTANTS
  People,     (* whose face it is                                          *)
  Names,      (* what the operator types                                   *)
  Labels,     (* what is read back from the file                           *)
  LabelOf,    (* LabelOf[n]: what find_and_replace leaves of name n        *)
  MaxFaces,   (* bound on the faces in one picture                         *)
  MaxRows     (* bound on the rows of db.csv and on the names waiting      *)

ASSUME CleanUpAssumption == LabelOf \in [Names -> Labels]
ASSUME SizesAssumption == MaxFaces \in Nat /\ MaxRows \in Nat

Named == [face : People, name : Names]

VARIABLES
  rows,         (* Database/db.csv: a descriptor's person, and the name    *)
  descriptors,  (* database_face_descriptors.size()                        *)
  loadBox,      (* chckBoxLoadDatabase is checked                          *)
  shown,        (* the labels in cmbDatabaseLabels, below "Select"         *)
  choice,       (* its current index, where 0 is "Select"                  *)
  pc,           (* where the save is; "idle" when there is none            *)
  photo,        (* the faces of the picture the save has not finished      *)
  faces,        (* faces                                                   *)
  typed,        (* detected_person_name_from_photo, and as history the face*)
                (* the dialog showed when the name was typed               *)
  disturbed     (* history: what happened since typed was last cleared     *)

fileVars == <<rows, descriptors, loadBox, shown, choice>>
saveVars == <<pc, photo, faces, typed, disturbed>>
vars == <<fileVars, saveVars>>

Pictures == SeqOf(People, MaxFaces)

LabelsUncleaned(file) == [i \in DOMAIN file |-> file[i].name]   \* mutant
LabelsIn(file) == [i \in DOMAIN file |-> LabelOf[file[i].name]]

Init ==
  /\ rows \in SeqOf(Named, MaxRows)
  /\ descriptors = 0 /\ loadBox = FALSE
  /\ shown = LabelsIn(rows)
  /\ choice = 0
  /\ pc = "idle" /\ photo = <<>> /\ faces = <<>>
  /\ typed = <<>> /\ disturbed = {}

---------------------------------------------------------------------------
(* The file is read again, and the combo box filled, which selects its     *)
(* first entry.                                                            *)

FillComboBox(file) == shown' = LabelsIn(file) /\ choice' = 0

\* The slots of the two save buttons fill it again also when no file was read.
SelectNone == choice' = 0 /\ UNCHANGED <<rows, descriptors, loadBox, shown>>

\* load_database if some descriptor is loaded, load_labels_only if not.
Reload(file) ==
  /\ descriptors' = IF descriptors = 0 THEN 0 ELSE Len(file)
  /\ FillComboBox(file)

CheckLoadBox ==
  /\ pc = "idle" /\ ~loadBox
  /\ loadBox' = TRUE
  /\ descriptors' = Len(rows)
  /\ FillComboBox(rows)
  /\ UNCHANGED <<rows, saveVars>>

UncheckLoadBox ==
  /\ pc = "idle" /\ loadBox
  /\ loadBox' = FALSE
  /\ descriptors' = 0
  /\ UNCHANGED <<rows, shown, choice, saveVars>>

Choose(entry) ==
  /\ pc = "idle"
  /\ choice' = entry
  /\ UNCHANGED <<rows, descriptors, loadBox, shown, saveVars>>

\* Every line is copied but the one whose number is the current index.
CopiedFromZero ==                                         \* mutant
  IF choice < Len(rows) THEN RemoveAt(rows, choice + 1) ELSE rows
Copied == IF choice = 0 THEN rows ELSE RemoveAt(rows, choice)

DeleteFace ==
  /\ pc = "idle"
  /\ rows' = Copied
  /\ Reload(rows')
  /\ UNCHANGED <<loadBox, saveVars>>

---------------------------------------------------------------------------
(* Saving the faces of a picture.                                          *)

BeginSave(picture) ==
  /\ pc = "idle"
  /\ Len(rows) + Len(typed) + Len(picture) <= MaxRows
  /\ pc' = "next"
  /\ photo' = picture
  /\ faces' = <<>>
  /\ UNCHANGED <<fileVars, typed, disturbed>>

ShowFace ==
  /\ pc = "next" /\ photo # <<>>
  /\ faces' = Append(faces, Head(photo))
  /\ pc' = "dialog"
  /\ UNCHANGED <<fileVars, photo, typed, disturbed>>

\* Save in the dialog sends the name and closes the dialog.
NameFace(name) ==
  /\ pc = "dialog"
  /\ typed' = Append(typed, [face |-> Head(photo), name |-> name])
  /\ photo' = Tail(photo)
  /\ pc' = "next"
  /\ UNCHANGED <<fileVars, faces, disturbed>>

\* Closed by its frame or Escape, the dialog sends nothing.
DismissDialog ==
  /\ pc = "dialog"
  /\ photo' = Tail(photo)
  /\ pc' = "next"
  /\ disturbed' = disturbed \cup {"dismissed"}
  /\ UNCHANGED <<fileVars, faces, typed>>

\* operation in the dialog's event loop, on a frame that is not skipped.
FaceRecTicks(found) ==
  /\ pc = "dialog"
  /\ descriptors # 0
  /\ faces' = found
  /\ disturbed' = disturbed \cup {"ticked"}
  /\ UNCHANGED <<fileVars, pc, photo, typed>>

FewFaces == Len(faces) <= 1                               \* mutant
NoFaces == faces = <<>>

\* "No face detected."
SaveNothing ==
  /\ pc = "next" /\ photo = <<>>
  /\ NoFaces
  /\ pc' = "idle"
  /\ SelectNone
  /\ UNCHANGED <<photo, faces, typed, disturbed>>

\* A network throws: pose_model before a dialog, net after the last one.  The
\* handler ends the save.
NetThrows ==
  /\ pc = "next"
  /\ photo # <<>> \/ ~NoFaces
  /\ pc' = "idle"
  /\ photo' = <<>>
  /\ disturbed' = disturbed \cup {"thrown"}
  /\ SelectNone
  /\ UNCHANGED <<faces, typed>>

LastDescriptor(i) == faces[Len(faces)]                    \* mutant
Descriptor(i) == faces[i]

\* With fewer faces than names an index of face_descriptors is past the end, and
\* what follows is undefined.
PastTheEndByOne == typed # <<>> /\ Len(typed) >= Len(faces)   \* mutant
PastTheEnd == Len(typed) > Len(faces)

\* face_descriptors = net(faces), and a row for every name.
WriteRows ==
  /\ pc = "next" /\ photo = <<>>
  /\ ~NoFaces
  /\ IF PastTheEnd
     THEN /\ pc' = "undefined"
          /\ UNCHANGED <<fileVars, photo, faces, typed, disturbed>>
     ELSE /\ rows' = rows \o [i \in DOMAIN typed |->
                        [face |-> Descriptor(i), name |-> typed[i].name]]
          /\ Reload(rows')
          /\ faces' = <<>>
          /\ typed' = <<>>
          /\ disturbed' = {}
          /\ pc' = "idle"
          /\ UNCHANGED <<loadBox, photo>>

---------------------------------------------------------------------------
Next ==
  \/ CheckLoadBox \/ UncheckLoadBox \/ DeleteFace
  \/ \E entry \in 0 .. Len(shown) : Choose(entry)
  \/ \E picture \in Pictures : BeginSave(picture)
  \/ ShowFace \/ DismissDialog
  \/ \E name \in Names : NameFace(name)
  \/ \E found \in Pictures : FaceRecTicks(found)
  \/ SaveNothing \/ NetThrows \/ WriteRows

Spec == Init /\ [][Next]_vars

---------------------------------------------------------------------------
(* Properties.                                                             *)

TypeOK ==
  /\ rows \in Seq(Named) /\ typed \in Seq(Named)
  /\ shown \in Seq(Labels)
  /\ descriptors \in Nat /\ loadBox \in BOOLEAN /\ choice \in 0 .. Len(shown)
  /\ pc \in {"idle", "next", "dialog", "undefined"}
  /\ photo \in Seq(People) /\ faces \in Seq(People)
  /\ disturbed \subseteq {"dismissed", "ticked", "thrown"}

\* A save that nothing disturbed adds to the file each face with the name typed
\* while that face was shown, and nothing else, whatever earlier saves left
\* behind.  Only a dismissed dialog, a network that throws, or a tick with
\* descriptors loaded disturbs it.
SavedAsNamed ==
  [][disturbed = {} /\ Len(rows') > Len(rows) => rows' = rows \o typed]_vars

\* No name waits for another save, which would write it beside a face of its own
\* picture, unless a network threw or a tick emptied the vector of faces.
NoNameLeft == pc = "idle" /\ disturbed \subseteq {"dismissed"} => typed = <<>>

\* There is a descriptor for every name, even when dialogs were dismissed.
DescriptorForEveryName == disturbed \subseteq {"dismissed"} => pc # "undefined"

\* The row that disappears from the file is the one whose label the combo box
\* shows as chosen, after any sequence of saves, loads and deletions.
DeletesWhatIsShown ==
  [][Len(rows') < Len(rows) =>
       /\ choice \in 1 .. Len(rows)
       /\ shown[choice] = LabelOf[rows[choice].name]
       /\ rows' = RemoveAt(rows, choice)]_vars
=============================================================================
