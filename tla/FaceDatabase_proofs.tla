------------------------ MODULE FaceDatabase_proofs ------------------------
(***************************************************************************)
(* Proofs about FaceDatabase, for all people, names and pictures, and of    *)
(* what LabelCodec makes of every name.                                    *)
(***************************************************************************)
EXTENDS MCFaceDatabase, SequenceTheorems, Induction

LEMMA PicturesAreSequences ==
  ASSUME NEW S, NEW n \in Nat, NEW s \in SeqOf(S, n)
  PROVE  s \in Seq(S)
<1>1. PICK m \in 0 .. n : s \in [1 .. m -> S]
  BY DEF SeqOf
<1> QED BY <1>1

LEMMA RemoveAtProperties ==
  ASSUME NEW S, NEW s \in Seq(S), NEW i \in 1 .. Len(s)
  PROVE  /\ RemoveAt(s, i) \in Seq(S)
         /\ Len(RemoveAt(s, i)) = Len(s) - 1
<1>1. /\ SubSeq(s, 1, i - 1) \in Seq(S)
      /\ Len(SubSeq(s, 1, i - 1)) = i - 1
  BY SubSeqProperties
<1>2. /\ SubSeq(s, i + 1, Len(s)) \in Seq(S)
      /\ Len(SubSeq(s, i + 1, Len(s))) = Len(s) - i
  BY SubSeqProperties
<1>3. ASSUME NEW a \in Seq(S), NEW b \in Seq(S)
      PROVE  a \o b \in Seq(S) /\ Len(a \o b) = Len(a) + Len(b)
  BY ConcatProperties
<1>4. /\ RemoveAt(s, i) \in Seq(S)
      /\ Len(RemoveAt(s, i)) = (i - 1) + (Len(s) - i)
  BY <1>1, <1>2, <1>3, Zenon DEF RemoveAt
<1>5. Len(s) \in Nat
  BY LenProperties
<1> QED BY <1>4, <1>5

\* The combo box gets one label for every row.
LEMMA LabelsInProperties ==
  ASSUME NEW file \in Seq(Named)
  PROVE  /\ LabelsIn(file) \in Seq(Labels)
         /\ Len(LabelsIn(file)) = Len(file)
         /\ \A i \in 1 .. Len(file) : LabelsIn(file)[i] = LabelOf[file[i].name]
<1>1. DOMAIN file = 1 .. Len(file) /\ Len(file) \in Nat
  BY LenProperties
<1>2. \A i \in 1 .. Len(file) : file[i] \in Named
  BY ElementOfSeq
<1>3. \A i \in 1 .. Len(file) : LabelOf[file[i].name] \in Labels
  BY <1>2, CleanUpAssumption DEF Named
<1>4. LabelsIn(file) = [i \in 1 .. Len(file) |-> LabelOf[file[i].name]]
  BY <1>1, Zenon DEF LabelsIn
<1>5. LabelsIn(file) \in [1 .. Len(file) -> Labels]
  BY <1>3, <1>4
<1> QED BY <1>1, <1>4, <1>5

---------------------------------------------------------------------------
(* The invariant.                                                          *)

\* The dialog is open for a face.
DialogHasFace == pc = "dialog" => photo # <<>>

\* The combo box shows the file, row by row.
ShownIsFile == shown = LabelsIn(rows)

\* Unless a network threw or a tick changed faces, there are enough of them for
\* the names, with one more while a dialog is open; and no name is left over.
EnoughFaces ==
  disturbed \subseteq {"dismissed"} =>
    /\ pc # "undefined"
    /\ pc = "idle" => typed = <<>>
    /\ pc = "next" => Len(typed) <= Len(faces)
    /\ pc = "dialog" => Len(typed) < Len(faces)

\* If not even a dialog was dismissed, the faces are those the names were typed
\* for, and then the face whose dialog is open.
FacesAsShown ==
  disturbed = {} =>
    /\ \A i \in 1 .. Len(typed) : faces[i] = typed[i].face
    /\ pc = "next" => Len(faces) = Len(typed)
    /\ pc = "dialog" => /\ Len(faces) = Len(typed) + 1
                        /\ faces[Len(faces)] = Head(photo)

IInv == TypeOK /\ DialogHasFace /\ ShownIsFile /\ EnoughFaces /\ FacesAsShown

---------------------------------------------------------------------------
LEMMA InitIInv == Init => IInv
<1> SUFFICES ASSUME Init PROVE IInv
  OBVIOUS
<1>1. rows \in Seq(Named)
  BY PicturesAreSequences, SizesAssumption DEF Init
<1>2. shown \in Seq(Labels) /\ Len(shown) \in Nat
  BY <1>1, LabelsInProperties, LenProperties DEF Init
<1>3. typed \in Seq(Named) /\ photo \in Seq(People) /\ faces \in Seq(People)
  BY DEF Init
<1>4. loadBox \in BOOLEAN /\ disturbed \subseteq {"dismissed", "ticked", "thrown"}
  BY Zenon DEF Init
<1>5. descriptors \in Nat /\ choice \in 0 .. Len(shown) /\ pc = "idle"
  BY <1>2 DEF Init
<1>6. TypeOK
  BY <1>1, <1>2, <1>3, <1>4, <1>5, Zenon DEF TypeOK
<1>7. DialogHasFace /\ EnoughFaces /\ FacesAsShown
  BY DEF Init, DialogHasFace, EnoughFaces, FacesAsShown
<1>8. ShownIsFile
  BY Zenon DEF Init, ShownIsFile
<1> QED BY <1>6, <1>7, <1>8 DEF IInv

\* Filling the combo box from what the file now holds.
LEMMA FillKeepsTypes ==
  ASSUME rows' \in Seq(Named), FillComboBox(rows')
  PROVE  shown' \in Seq(Labels) /\ choice' \in 0 .. Len(shown') /\ ShownIsFile'
<1>1. shown' \in Seq(Labels) /\ choice' = 0
  BY LabelsInProperties DEF FillComboBox
<1>2. Len(shown') \in Nat
  BY <1>1, LenProperties
<1>3. ShownIsFile'
  BY Zenon DEF FillComboBox, ShownIsFile, LabelsIn
<1> QED BY <1>1, <1>2, <1>3

\* What the slots outside a save leave alone.
LEMMA SaveUntouched ==
  ASSUME IInv, UNCHANGED saveVars
  PROVE  DialogHasFace' /\ EnoughFaces' /\ FacesAsShown'
BY DEF IInv, saveVars, DialogHasFace, EnoughFaces, FacesAsShown

\* And what the steps of a save leave alone.
LEMMA FileUntouched ==
  ASSUME IInv, UNCHANGED fileVars \/ SelectNone
  PROVE  /\ ShownIsFile'
         /\ rows' \in Seq(Named) /\ shown' \in Seq(Labels)
         /\ descriptors' \in Nat /\ loadBox' \in BOOLEAN /\ choice' \in 0 .. Len(shown')
<1>1. UNCHANGED <<rows, descriptors, loadBox, shown>> /\ choice' \in {0, choice}
  BY Zenon DEF fileVars, SelectNone
<1>2. ShownIsFile'
  BY <1>1, Zenon DEF IInv, ShownIsFile, LabelsIn
<1>3. shown \in Seq(Labels) /\ Len(shown) \in Nat /\ choice \in 0 .. Len(shown)
  BY LenProperties DEF IInv, TypeOK
<1>4. choice' \in 0 .. Len(shown')
  BY <1>1, <1>3
<1> QED BY <1>1, <1>2, <1>4 DEF IInv, TypeOK

\* A deletion leaves a file, and the row left out is one the combo box shows.
LEMMA DeleteProperties ==
  ASSUME IInv, DeleteFace
  PROVE  /\ rows' \in Seq(Named)
         /\ \/ rows' = rows
            \/ /\ choice \in 1 .. Len(rows)
               /\ shown[choice] = LabelOf[rows[choice].name]
               /\ rows' = RemoveAt(rows, choice)
               /\ Len(rows') = Len(rows) - 1
<1>1. rows \in Seq(Named) /\ choice \in 0 .. Len(shown)
  BY DEF IInv, TypeOK
<1>2. Len(shown) = Len(rows) /\ \A i \in 1 .. Len(rows) : shown[i] = LabelOf[rows[i].name]
  BY <1>1, LabelsInProperties DEF IInv, ShownIsFile
<1>3. rows' = IF choice = 0 THEN rows ELSE RemoveAt(rows, choice)
  BY Zenon DEF DeleteFace, Copied
<1>4. CASE choice = 0
  BY <1>1, <1>3, <1>4
<1>5. CASE choice # 0
  <2>1. choice \in 1 .. Len(rows)
    BY <1>1, <1>2, <1>5, LenProperties
  <2>2. RemoveAt(rows, choice) \in Seq(Named) /\ Len(RemoveAt(rows, choice)) = Len(rows) - 1
    BY <1>1, <2>1, RemoveAtProperties
  <2> QED BY <1>2, <1>3, <1>5, <2>1, <2>2
<1> QED BY <1>4, <1>5

LEMMA PanelKeepsIInv ==
  ASSUME IInv,
         CheckLoadBox \/ UncheckLoadBox \/ DeleteFace \/ \E e \in 0 .. Len(shown) : Choose(e)
  PROVE  IInv'
<1>1. UNCHANGED saveVars
  BY DEF CheckLoadBox, UncheckLoadBox, DeleteFace, Choose
<1>2. DialogHasFace' /\ EnoughFaces' /\ FacesAsShown'
  BY <1>1, SaveUntouched
<1>3. /\ typed' \in Seq(Named) /\ photo' \in Seq(People) /\ faces' \in Seq(People)
      /\ pc' \in {"idle", "next", "dialog", "undefined"}
      /\ disturbed' \subseteq {"dismissed", "ticked", "thrown"}
  BY <1>1, Zenon DEF IInv, TypeOK, saveVars
<1>4. ASSUME rows' \in Seq(Named), shown' \in Seq(Labels), choice' \in 0 .. Len(shown'),
             descriptors' \in Nat, loadBox' \in BOOLEAN, ShownIsFile'
      PROVE  IInv'
  <2>1. TypeOK'
    BY <1>3, <1>4, Zenon DEF TypeOK
  <2> QED BY <1>2, <1>4, <2>1, Zenon DEF IInv
<1>5. CASE CheckLoadBox
  <2>1. rows' = rows /\ rows' \in Seq(Named) /\ FillComboBox(rows')
    BY <1>5 DEF CheckLoadBox, IInv, TypeOK, FillComboBox
  <2>2. descriptors' \in Nat /\ loadBox' \in BOOLEAN
    BY <1>5, <2>1, LenProperties DEF CheckLoadBox
  <2> QED BY <1>4, <2>1, <2>2, FillKeepsTypes
<1>6. CASE UncheckLoadBox
  <2>1. ShownIsFile'
    BY <1>6, Zenon DEF UncheckLoadBox, IInv, ShownIsFile, LabelsIn
  <2> QED BY <1>4, <1>6, <2>1 DEF UncheckLoadBox, IInv, TypeOK
<1>7. CASE DeleteFace
  <2>1. rows' \in Seq(Named)
    BY <1>7, DeleteProperties
  <2>2. FillComboBox(rows')
    BY <1>7, Zenon DEF DeleteFace, Reload
  <2>3. descriptors' \in Nat
    BY <1>7, <2>1, LenProperties DEF DeleteFace, Reload
  <2>4. loadBox' \in BOOLEAN
    BY <1>7 DEF DeleteFace, IInv, TypeOK
  <2> QED BY <1>4, <2>1, <2>2, <2>3, <2>4, FillKeepsTypes
<1>8. CASE \E e \in 0 .. Len(shown) : Choose(e)
  <2>1. ShownIsFile'
    BY <1>8, Zenon DEF Choose, IInv, ShownIsFile, LabelsIn
  <2> QED BY <1>4, <1>8, <2>1 DEF Choose, IInv, TypeOK
<1> QED BY <1>5, <1>6, <1>7, <1>8

---------------------------------------------------------------------------
(* The steps of a save.                                                    *)

\* The rows a save writes: as many as names, and those that were typed if the
\* faces are the ones they were typed for.
Written == [i \in DOMAIN typed |-> [face |-> Descriptor(i), name |-> typed[i].name]]

LEMMA WrittenProperties ==
  ASSUME IInv, Len(typed) <= Len(faces)
  PROVE  /\ Written \in Seq(Named)
         /\ (\A i \in 1 .. Len(typed) : faces[i] = typed[i].face) => Written = typed
<1>1. typed \in Seq(Named) /\ faces \in Seq(People) /\ Len(typed) \in Nat /\ Len(faces) \in Nat
  BY LenProperties DEF IInv, TypeOK
<1>2. DOMAIN typed = 1 .. Len(typed) /\ \A i \in 1 .. Len(typed) : typed[i] \in Named
  BY <1>1
<1>3. \A i \in 1 .. Len(typed) : faces[i] \in People
  BY <1>1
<1>4. Written = [i \in 1 .. Len(typed) |-> [face |-> faces[i], name |-> typed[i].name]]
  BY <1>2, Zenon DEF Written, Descriptor
<1>5. Written \in [1 .. Len(typed) -> Named]
  BY <1>2, <1>3, <1>4 DEF Named
<1>6. ASSUME \A i \in 1 .. Len(typed) : faces[i] = typed[i].face
      PROVE  Written = typed
  <2>1. \A i \in 1 .. Len(typed) : [face |-> faces[i], name |-> typed[i].name] = typed[i]
    BY <1>2, <1>6 DEF Named
  <2>2. typed = [i \in 1 .. Len(typed) |-> typed[i]]
    BY <1>1
  <2> QED BY <1>4, <2>1, <2>2
<1> QED BY <1>1, <1>5, <1>6

LEMMA WriteRowsProperties ==
  ASSUME IInv, WriteRows
  PROVE  /\ rows' \in Seq(Named)
         /\ disturbed = {} => rows' = rows \o typed
<1>1. rows \in Seq(Named) /\ typed \in Seq(Named) /\ faces \in Seq(People)
  BY DEF IInv, TypeOK
<1>2. Len(typed) \in Nat /\ Len(faces) \in Nat
  BY <1>1, LenProperties
<1>3. CASE PastTheEnd
  <2>1. rows' = rows
    BY <1>3 DEF WriteRows, fileVars
  <2>2. disturbed # {}
    BY <1>1, <1>2, <1>3 DEF WriteRows, PastTheEnd, IInv, EnoughFaces
  <2> QED BY <1>1, <2>1, <2>2
<1>4. CASE ~PastTheEnd
  <2>1. Len(typed) <= Len(faces)
    BY <1>2, <1>4 DEF PastTheEnd
  <2>2. rows' = rows \o Written
    BY <1>4, Zenon DEF WriteRows, Written
  <2>3. Written \in Seq(Named)
    BY <2>1, WrittenProperties
  <2>4. rows' \in Seq(Named)
    BY <1>1, <2>2, <2>3, ConcatProperties
  <2>5. disturbed = {} => Written = typed
    BY <2>1, WrittenProperties DEF IInv, FacesAsShown
  <2> QED BY <2>2, <2>4, <2>5
<1> QED BY <1>3, <1>4

LEMMA SaveKeepsIInv ==
  ASSUME IInv,
         \/ \E picture \in Pictures : BeginSave(picture)
         \/ ShowFace \/ DismissDialog
         \/ \E name \in Names : NameFace(name)
         \/ \E found \in Pictures : FaceRecTicks(found)
         \/ SaveNothing \/ NetThrows
  PROVE  IInv'
<1>1. UNCHANGED fileVars \/ SelectNone
  BY Zenon DEF BeginSave, ShowFace, DismissDialog, NameFace, FaceRecTicks, SaveNothing, NetThrows
<1>2. ASSUME /\ typed' \in Seq(Named) /\ photo' \in Seq(People) /\ faces' \in Seq(People)
             /\ pc' \in {"idle", "next", "dialog"}
             /\ disturbed' \subseteq {"dismissed", "ticked", "thrown"},
             DialogHasFace', EnoughFaces', FacesAsShown'
      PROVE  IInv'
  <2>1. TypeOK'
    BY <1>1, <1>2, FileUntouched, Zenon DEF TypeOK
  <2> QED BY <1>1, <1>2, <2>1, FileUntouched, Zenon DEF IInv
<1>3. /\ typed \in Seq(Named) /\ photo \in Seq(People) /\ faces \in Seq(People)
      /\ Len(typed) \in Nat /\ Len(faces) \in Nat
      /\ disturbed \subseteq {"dismissed", "ticked", "thrown"}
  BY LenProperties DEF IInv, TypeOK
<1> USE DEF IInv, DialogHasFace, EnoughFaces, FacesAsShown
<1>4. ASSUME NEW picture \in Pictures, BeginSave(picture)
      PROVE  IInv'
  <2>1. picture \in Seq(People)
    BY PicturesAreSequences, SizesAssumption DEF Pictures
  <2>2. disturbed \subseteq {"dismissed"} => typed = <<>>
    BY <1>4 DEF BeginSave
  <2> QED BY <1>2, <1>3, <1>4, <2>1, <2>2 DEF BeginSave
<1>5. CASE ShowFace
  <2>1. Head(photo) \in People
    BY <1>3, <1>5, HeadTailProperties DEF ShowFace
  <2>2. /\ faces' \in Seq(People) /\ Len(faces') = Len(faces) + 1
        /\ \A i \in 1 .. Len(faces) : faces'[i] = faces[i]
        /\ faces'[Len(faces')] = Head(photo)
    BY <1>3, <1>5, <2>1, AppendProperties DEF ShowFace
  <2> QED BY <1>2, <1>3, <1>5, <2>2 DEF ShowFace
<1>6. CASE DismissDialog
  <2>1. Tail(photo) \in Seq(People)
    BY <1>3, <1>6, HeadTailProperties DEF DismissDialog
  <2>2. disturbed' # {} /\ (disturbed' \subseteq {"dismissed"} => disturbed \subseteq {"dismissed"})
    BY <1>6, Zenon DEF DismissDialog
  <2> QED BY <1>2, <1>3, <1>6, <2>1, <2>2 DEF DismissDialog
<1>7. ASSUME NEW name \in Names, NameFace(name)
      PROVE  IInv'
  <2>1. Head(photo) \in People /\ Tail(photo) \in Seq(People)
    BY <1>3, <1>7, HeadTailProperties DEF NameFace
  <2> DEFINE entry == [face |-> Head(photo), name |-> name]
  <2>2. entry \in Named /\ entry.face = Head(photo)
    BY <2>1 DEF Named
  <2> HIDE DEF entry
  <2>3. typed' = Append(typed, entry)
    BY <1>7 DEF NameFace, entry
  <2>4. /\ typed' \in Seq(Named) /\ Len(typed') = Len(typed) + 1
        /\ \A i \in 1 .. Len(typed) : typed'[i] = typed[i]
        /\ typed'[Len(typed')] = entry
    BY <1>3, <2>2, <2>3, AppendProperties
  <2> QED BY <1>2, <1>3, <1>7, <2>1, <2>2, <2>4 DEF NameFace
<1>8. ASSUME NEW found \in Pictures, FaceRecTicks(found)
      PROVE  IInv'
  <2>1. found \in Seq(People)
    BY PicturesAreSequences, SizesAssumption DEF Pictures
  <2>2. ~(disturbed' \subseteq {"dismissed"}) /\ disturbed' # {}
    BY <1>8 DEF FaceRecTicks
  <2> QED BY <1>2, <1>3, <1>8, <2>1, <2>2 DEF FaceRecTicks
<1>9. CASE SaveNothing
  <2>1. Len(faces) = 0
    BY <1>9 DEF SaveNothing, NoFaces
  <2>2. disturbed \subseteq {"dismissed"} => typed = <<>>
    BY <1>3, <1>9, <2>1 DEF SaveNothing
  <2> QED BY <1>2, <1>3, <1>9, <2>2 DEF SaveNothing
<1>10. CASE NetThrows
  <2>1. ~(disturbed' \subseteq {"dismissed"}) /\ disturbed' # {}
    BY <1>10 DEF NetThrows
  <2>2. photo' \in Seq(People)
    BY <1>10 DEF NetThrows
  <2> QED BY <1>2, <1>3, <1>10, <2>1, <2>2 DEF NetThrows
<1> QED BY <1>4, <1>5, <1>6, <1>7, <1>8, <1>9, <1>10

LEMMA WriteRowsKeepsIInv ==
  ASSUME IInv, WriteRows
  PROVE  IInv'
<1>1. CASE PastTheEnd
  <2>1. UNCHANGED <<fileVars, photo, faces, typed, disturbed>> /\ pc' = "undefined"
    BY <1>1, Zenon DEF WriteRows
  <2>2. ~(disturbed \subseteq {"dismissed"})
    <3>1. Len(typed) \in Nat /\ Len(faces) \in Nat
      BY LenProperties DEF IInv, TypeOK
    <3> QED BY <1>1, <3>1 DEF WriteRows, PastTheEnd, IInv, EnoughFaces
  <2>3. UNCHANGED fileVars
    BY <2>1
  <2>4. /\ typed' \in Seq(Named) /\ photo' \in Seq(People) /\ faces' \in Seq(People)
        /\ disturbed' \subseteq {"dismissed", "ticked", "thrown"}
    BY <2>1, Zenon DEF IInv, TypeOK
  <2>5. TypeOK'
    BY <2>1, <2>3, <2>4, FileUntouched, Zenon DEF TypeOK
  <2>6. DialogHasFace' /\ EnoughFaces' /\ FacesAsShown'
    BY <2>1, <2>2 DEF DialogHasFace, EnoughFaces, FacesAsShown
  <2> QED BY <2>3, <2>5, <2>6, FileUntouched, Zenon DEF IInv
<1>2. CASE ~PastTheEnd
  <2>1. rows' \in Seq(Named)
    BY WriteRowsProperties
  <2>2. FillComboBox(rows')
    BY <1>2, Zenon DEF WriteRows, Reload
  <2>3. descriptors' \in Nat
    BY <1>2, <2>1, LenProperties DEF WriteRows, Reload
  <2>4. /\ pc' = "idle" /\ faces' = <<>> /\ typed' = <<>> /\ disturbed' = {}
        /\ loadBox' = loadBox /\ photo' = photo
    BY <1>2, Zenon DEF WriteRows
  <2>5. typed' \in Seq(Named) /\ faces' \in Seq(People) /\ photo' \in Seq(People)
    BY <2>4 DEF IInv, TypeOK
  <2>6. loadBox' \in BOOLEAN /\ disturbed' \subseteq {"dismissed", "ticked", "thrown"}
    BY <2>4, Zenon DEF IInv, TypeOK
  <2>7. TypeOK'
    BY <2>1, <2>2, <2>3, <2>4, <2>5, <2>6, FillKeepsTypes, Zenon DEF TypeOK
  <2>8. DialogHasFace' /\ EnoughFaces' /\ FacesAsShown'
    BY <2>4 DEF DialogHasFace, EnoughFaces, FacesAsShown
  <2> QED BY <2>1, <2>2, <2>7, <2>8, FillKeepsTypes, Zenon DEF IInv
<1> QED BY <1>1, <1>2

LEMMA NextKeepsIInv == IInv /\ [Next]_vars => IInv'
<1> SUFFICES ASSUME IInv, [Next]_vars PROVE IInv'
  OBVIOUS
<1>1. CASE UNCHANGED vars
  <2>1. UNCHANGED fileVars /\ UNCHANGED saveVars
    BY <1>1, Zenon DEF vars
  <2>2. /\ typed' \in Seq(Named) /\ photo' \in Seq(People) /\ faces' \in Seq(People)
        /\ pc' \in {"idle", "next", "dialog", "undefined"}
        /\ disturbed' \subseteq {"dismissed", "ticked", "thrown"}
    BY <2>1, Zenon DEF IInv, TypeOK, saveVars
  <2>3. TypeOK'
    BY <2>1, <2>2, FileUntouched, Zenon DEF TypeOK
  <2> QED BY <2>1, <2>3, FileUntouched, SaveUntouched, Zenon DEF IInv
<1>2. CASE Next
  BY <1>2, PanelKeepsIInv, SaveKeepsIInv, WriteRowsKeepsIInv DEF Next
<1> QED BY <1>1, <1>2

LEMMA SpecIInv == Spec => []IInv
BY InitIInv, NextKeepsIInv, PTL DEF Spec

---------------------------------------------------------------------------
\* The variables keep their types; above all the chosen entry of the combo box
\* exists.
THEOREM FaceDatabaseTypeCorrect == Spec => []TypeOK
<1>1. IInv => TypeOK
  BY DEF IInv
<1> QED BY <1>1, SpecIInv, PTL

\* No name typed in one save reaches a later one, unless a network threw or
\* faceRec ticked with descriptors loaded.
THEOREM NoNameLeftAlways == Spec => []NoNameLeft
<1>1. IInv => NoNameLeft
  BY DEF IInv, EnoughFaces, NoNameLeft
<1> QED BY <1>1, SpecIInv, PTL

\* Writing a row never runs past the descriptors under the same condition, even
\* with dialogs dismissed.
THEOREM DescriptorForEveryNameAlways == Spec => []DescriptorForEveryName
<1>1. IInv => DescriptorForEveryName
  BY DEF IInv, EnoughFaces, DescriptorForEveryName
<1> QED BY <1>1, SpecIInv, PTL

\* Deleting makes the file shorter, and nothing else does.
LEMMA OnlyDeleteShortens ==
  ASSUME IInv, [Next]_vars, Len(rows') < Len(rows)
  PROVE  DeleteFace
<1>1. rows \in Seq(Named) /\ Len(rows) \in Nat
  BY LenProperties DEF IInv, TypeOK
<1>2. rows' # rows
  BY <1>1
<1>3. CASE WriteRows
  <2>1. Len(typed) \in Nat /\ Len(faces) \in Nat
    BY LenProperties DEF IInv, TypeOK
  <2>2. ~PastTheEnd
    BY <1>2, <1>3 DEF WriteRows, fileVars
  <2>3. rows' = rows \o Written
    BY <1>3, <2>2, Zenon DEF WriteRows, Written
  <2>4. Written \in Seq(Named)
    BY <2>1, <2>2, WrittenProperties DEF PastTheEnd
  <2>5. Len(rows') = Len(rows) + Len(Written) /\ Len(Written) \in Nat
    BY <1>1, <2>3, <2>4, ConcatProperties, LenProperties
  <2> QED BY <1>1, <2>5
<1> QED BY <1>2, <1>3 DEF Next, vars, fileVars, CheckLoadBox, UncheckLoadBox, Choose,
      BeginSave, ShowFace, DismissDialog, NameFace, FaceRecTicks, SaveNothing,
      NetThrows, SelectNone

\* What disappears from the file is the row whose label was shown as chosen.
THEOREM DeletesWhatIsShownAlways == Spec => DeletesWhatIsShown
<1>1. ASSUME IInv, [Next]_vars, Len(rows') < Len(rows)
      PROVE  /\ choice \in 1 .. Len(rows)
             /\ shown[choice] = LabelOf[rows[choice].name]
             /\ rows' = RemoveAt(rows, choice)
  <2>1. rows' # rows
    BY <1>1, LenProperties DEF IInv, TypeOK
  <2> QED BY <1>1, <2>1, OnlyDeleteShortens, DeleteProperties
<1> QED BY <1>1, SpecIInv, PTL DEF Spec, DeletesWhatIsShown

\* A save nothing disturbed stores each face with the name typed for it.
THEOREM SavedAsNamedAlways == Spec => SavedAsNamed
<1>1. ASSUME IInv, [Next]_vars, disturbed = {}, Len(rows') > Len(rows)
      PROVE  rows' = rows \o typed
  <2>0. rows \in Seq(Named)
    BY <1>1, Zenon DEF IInv, TypeOK
  <2>1. Len(rows) \in Nat
    BY <2>0, LenProperties
  <2>2. ~DeleteFace
    <3>1. SUFFICES ASSUME DeleteFace PROVE FALSE
      OBVIOUS
    <3>2. rows' = rows \/ Len(rows') = Len(rows) - 1
      BY <1>1, <3>1, DeleteProperties
    <3> QED BY <1>1, <2>1, <3>2
  <2>3. rows' # rows
    BY <1>1, <2>1
  <2>4. WriteRows
    BY <1>1, <2>2, <2>3 DEF Next, vars, fileVars, CheckLoadBox, UncheckLoadBox, Choose,
      BeginSave, ShowFace, DismissDialog, NameFace, FaceRecTicks, SaveNothing,
      NetThrows, SelectNone
  <2> QED BY <1>1, <2>4, WriteRowsProperties
<1> QED BY <1>1, SpecIInv, PTL DEF Spec, SavedAsNamed

---------------------------------------------------------------------------
(* LabelCodec: sequences with a part cut out.                              *)

\* s without the n symbols from position i on.
Cut(s, i, n) == [k \in 1 .. Len(s) - n |-> IF k < i THEN s[k] ELSE s[k + n]]

\* It is a sequence of the same symbols.
LEMMA CutIs ==
  ASSUME NEW S, NEW s \in Seq(S), NEW i \in 1 .. Len(s) + 1, NEW n \in Nat,
         i + n <= Len(s) + 1
  PROVE  /\ Cut(s, i, n) \in Seq(S)
         /\ Len(Cut(s, i, n)) = Len(s) - n
         /\ \A k \in 1 .. Len(s) - n : Cut(s, i, n)[k] = IF k < i THEN s[k] ELSE s[k + n]
<1>0. Len(s) \in Nat /\ Len(s) - n \in Nat
  OBVIOUS
<1>1. ASSUME NEW k \in 1 .. Len(s) - n
      PROVE  (IF k < i THEN s[k] ELSE s[k + n]) \in S
  <2>1. CASE k < i
    <3>1. k \in 1 .. Len(s)
      BY <1>0
    <3> QED BY <2>1, <3>1, ElementOfSeq
  <2>2. CASE ~(k < i)
    <3>1. k + n \in 1 .. Len(s)
      BY <1>0
    <3> QED BY <2>2, <3>1, ElementOfSeq
  <2> QED BY <2>1, <2>2
<1>2. Cut(s, i, n) \in [1 .. Len(s) - n -> S]
  BY <1>1 DEF Cut
<1>3. Cut(s, i, n) \in Seq(S) /\ Len(Cut(s, i, n)) = Len(s) - n
  BY <1>0, <1>2
<1> QED BY <1>3 DEF Cut

LEMMA CutNothing ==
  ASSUME NEW S, NEW s \in Seq(S), NEW i \in 1 .. Len(s) + 1
  PROVE  Cut(s, i, 0) = s
<1>1. /\ Cut(s, i, 0) \in Seq(S) /\ Len(Cut(s, i, 0)) = Len(s)
      /\ \A k \in 1 .. Len(s) : Cut(s, i, 0)[k] = IF k < i THEN s[k] ELSE s[k + 0]
  BY CutIs
<1>2. \A k \in 1 .. Len(s) : Cut(s, i, 0)[k] = s[k]
  BY <1>1
<1> QED BY <1>1, <1>2, SeqEqual

\* To erase the symbol at i is to cut one symbol more.
LEMMA CutOneMore ==
  ASSUME NEW S, NEW s \in Seq(S), NEW i \in 1 .. Len(s), NEW n \in Nat, i + n <= Len(s)
  PROVE  RemoveAt(Cut(s, i, n), i) = Cut(s, i, n + 1)
<1> DEFINE c == Cut(s, i, n)
           l == SubSeq(c, 1, i - 1)
           r == SubSeq(c, i + 1, Len(c))
<1>0. /\ Len(s) \in Nat /\ i \in 1 .. Len(s) + 1 /\ n + 1 \in Nat
      /\ i + n <= Len(s) + 1 /\ i + (n + 1) <= Len(s) + 1
  OBVIOUS
<1>1. /\ c \in Seq(S) /\ Len(c) = Len(s) - n
      /\ \A k \in 1 .. Len(s) - n : c[k] = IF k < i THEN s[k] ELSE s[k + n]
  BY <1>0, CutIs
<1>2. /\ Cut(s, i, n + 1) \in Seq(S) /\ Len(Cut(s, i, n + 1)) = Len(s) - (n + 1)
      /\ \A k \in 1 .. Len(s) - (n + 1) :
           Cut(s, i, n + 1)[k] = IF k < i THEN s[k] ELSE s[k + (n + 1)]
  BY <1>0, CutIs
<1> HIDE DEF c
<1>3. /\ l \in Seq(S) /\ Len(l) = i - 1
      /\ \A k \in 1 .. i - 1 : l[k] = c[k]
  BY <1>0, <1>1, SubSeqProperties
<1>4. /\ r \in Seq(S) /\ Len(r) = Len(c) - i
      /\ \A k \in 1 .. Len(c) - i : r[k] = c[k + i]
  BY <1>0, <1>1, SubSeqProperties
<1> HIDE DEF l, r
<1>5. /\ l \o r \in Seq(S) /\ Len(l \o r) = Len(l) + Len(r)
      /\ \A k \in 1 .. Len(l) + Len(r) : (l \o r)[k] = IF k <= Len(l) THEN l[k] ELSE r[k - Len(l)]
  BY <1>3, <1>4, ConcatProperties
<1>6. Len(l \o r) = Len(s) - (n + 1)
  BY <1>0, <1>1, <1>3, <1>4, <1>5
<1>7. ASSUME NEW k \in 1 .. Len(s) - (n + 1)
      PROVE  (l \o r)[k] = Cut(s, i, n + 1)[k]
  <2>1. CASE k < i
    <3>1. k \in 1 .. i - 1 /\ k <= Len(l) /\ k \in 1 .. Len(l) + Len(r) /\ k \in 1 .. Len(s) - n
      BY <1>0, <1>1, <1>3, <1>4, <2>1
    <3> QED BY <1>1, <1>2, <1>3, <1>5, <2>1, <3>1
  <2>2. CASE ~(k < i)
    <3>1. /\ k - Len(l) = k - (i - 1) /\ ~(k <= Len(l)) /\ k \in 1 .. Len(l) + Len(r)
          /\ k - (i - 1) \in 1 .. Len(c) - i
      BY <1>0, <1>1, <1>3, <1>4, <2>2
    <3>2. (l \o r)[k] = r[k - (i - 1)]
      BY <1>5, <3>1
    <3>3. r[k - (i - 1)] = c[k - (i - 1) + i]
      BY <1>4, <3>1
    <3>4. k - (i - 1) + i = k + 1 /\ k + 1 \in 1 .. Len(s) - n /\ ~(k + 1 < i)
      BY <1>0, <2>2
    <3>5. c[k + 1] = s[k + 1 + n]
      BY <1>1, <3>4
    <3>6. Cut(s, i, n + 1)[k] = s[k + (n + 1)] /\ k + (n + 1) = k + 1 + n
      BY <1>2, <2>2
    <3> QED BY <3>2, <3>3, <3>4, <3>5, <3>6
  <2> QED BY <2>1, <2>2
<1>8. l \o r = Cut(s, i, n + 1)
  BY <1>2, <1>5, <1>6, <1>7, SeqEqual
<1> QED BY <1>8 DEF RemoveAt, l, r, c

---------------------------------------------------------------------------
(* LabelCodec: what find_and_replace erases.                               *)

\* What find_and_replace finds and erases: the first symbol it looks for, at i,
\* and as many more as follow it if they are zeros, m in all.
Run(s, find, i, m) ==
  /\ \A k \in 1 .. i - 1 : s[k] # find
  /\ \A k \in i .. i + m - 1 : s[k] = find
  /\ \A k \in i + 1 .. i + m - 1 : s[k] = Zero
  /\ i + m <= Len(s) => s[i + m] # Zero

\* A round that finds nothing, and one that finds the symbol at i.
LEMMA RoundEnds ==
  ASSUME NEW S, NEW t \in Seq(S), NEW from \in Nat, NEW find,
         \A k \in 1 .. Len(t) : k >= from => t[k] # find
  PROVE  Round([text |-> t, from |-> from], find) = [text |-> t, from |-> from]
<1> DEFINE state == [text |-> t, from |-> from]
<1>1. state.text = t /\ state.from = from /\ DOMAIN t = 1 .. Len(t)
  OBVIOUS
<1> HIDE DEF state
<1>2. {k \in DOMAIN state.text : k >= state.from /\ state.text[k] = find} = {}
  BY <1>1
<1>3. Round(state, find) = state
  BY <1>2, Zenon DEF Round
<1> QED BY <1>3 DEF state

LEMMA RoundAt ==
  ASSUME NEW S, NEW t \in Seq(S), NEW from \in Nat, NEW find, NEW i \in 1 .. Len(t),
         from <= i, t[i] = find, \A k \in 1 .. i - 1 : k >= from => t[k] # find
  PROVE  Round([text |-> t, from |-> from], find) =
           [text |-> RemoveAt(t, i),
            from |-> IF i <= Len(RemoveAt(t, i)) /\ RemoveAt(t, i)[i] = Zero
                     THEN i ELSE Len(RemoveAt(t, i)) + 1]
<1> DEFINE state == [text |-> t, from |-> from]
           places == {k \in DOMAIN state.text : k >= state.from /\ state.text[k] = find}
           at == CHOOSE k \in places : \A j \in places : k <= j
<1>1. state.text = t /\ state.from = from /\ DOMAIN t = 1 .. Len(t) /\ Len(t) \in Nat
  OBVIOUS
<1> HIDE DEF state
<1>2. places \subseteq Nat /\ i \in places /\ \A j \in places : i <= j
  BY <1>1
<1> HIDE DEF places
<1>3. at \in places /\ \A j \in places : at <= j
  BY <1>2
<1>4. at = i
  <2> HIDE DEF at
  <2>1. at <= i /\ i <= at /\ at \in Nat /\ i \in Nat
    BY <1>2, <1>3
  <2> QED BY <2>1
<1>5. places # {}
  BY <1>2
<1>6. Round(state, find) =
        [text |-> RemoveAt(state.text, at),
         from |-> IF at <= Len(RemoveAt(state.text, at)) /\ RemoveAt(state.text, at)[at] = Zero
                  THEN at ELSE Len(RemoveAt(state.text, at)) + 1]
  BY <1>5, Zenon DEF Round, places
<1> HIDE DEF at
<1> QED BY <1>1, <1>4, <1>6 DEF state

\* Erase is what its rounds come to, however they are given.
LEMMA EraseIs ==
  ASSUME NEW s, Len(s) \in Nat, NEW find, NEW g,
         g = [n \in 0 .. Len(s) |-> g[n]],
         g[0] = [text |-> s, from |-> 1],
         \A n \in 1 .. Len(s) : g[n] = Round(g[n - 1], find)
  PROVE  Erase(s, find) = g[Len(s)].text
<1> DEFINE Body(f) == [n \in 0 .. Len(s) |->
                        IF n = 0 THEN [text |-> s, from |-> 1] ELSE Round(f[n - 1], find)]
           h == CHOOSE f : f = Body(f)
<1>1. Erase(s, find) = h[Len(s)].text
  BY DEF Erase
<1>2. g = Body(g)
  <2>1. ASSUME NEW n \in 0 .. Len(s) PROVE g[n] = Body(g)[n]
    <3>1. CASE n = 0
      BY <3>1
    <3>2. CASE n \in 1 .. Len(s)
      BY <3>2
    <3> QED BY <3>1, <3>2
  <2> QED BY <2>1
<1>3. h = Body(h)
  <2> HIDE DEF Body
  <2> QED BY <1>2
<1> HIDE DEF h
<1>4. \A n \in 0 .. Len(s) : h[n] = Body(h)[n]
  <2> HIDE DEF Body
  <2> QED BY <1>3
<1> DEFINE T == {n \in Nat : n <= Len(s) => h[n] = g[n]}
<1>5. 0 \in T
  BY <1>4
<1>6. ASSUME NEW n \in Nat, n \in T PROVE n + 1 \in T
  <2> SUFFICES ASSUME n + 1 <= Len(s) PROVE h[n + 1] = g[n + 1]
    OBVIOUS
  <2>1. n + 1 \in 1 .. Len(s) /\ n + 1 \in 0 .. Len(s) /\ n + 1 # 0 /\ n + 1 - 1 = n
        /\ h[n] = g[n]
    BY <1>6
  <2>2. h[n + 1] = Round(h[n], find)
    BY <1>4, <2>1
  <2>3. g[n + 1] = Round(g[n], find)
    <3>1. n + 1 \in 1 .. Len(s) /\ n + 1 - 1 = n
      BY <2>1
    <3> DEFINE m == n + 1
    <3>2. m \in 1 .. Len(s) /\ m - 1 = n
      BY <3>1
    <3> HIDE DEF m, T, h, Body
    <3>3. g[m] = Round(g[m - 1], find)
      BY <3>2, Zenon
    <3> QED BY <3>2, <3>3 DEF m
  <2> QED BY <2>1, <2>2, <2>3
<1> HIDE DEF T
<1>7. Nat \subseteq T
  BY <1>5, <1>6, SetInduction
<1>8. h[Len(s)] = g[Len(s)]
  BY <1>7 DEF T
<1> QED BY <1>1, <1>8

\* A text without the symbol is left alone.
LEMMA EraseNone ==
  ASSUME NEW S, NEW s \in Seq(S), NEW find, \A k \in 1 .. Len(s) : s[k] # find
  PROVE  Erase(s, find) = s
<1> DEFINE state == [text |-> s, from |-> 1]
           g == [n \in 0 .. Len(s) |-> state]
<1>1. Round(state, find) = state
  BY RoundEnds
<1> HIDE DEF state
<1>2. Len(s) \in Nat /\ g = [n \in 0 .. Len(s) |-> g[n]] /\ g[0] = state /\ g[Len(s)] = state
  OBVIOUS
<1>3. \A n \in 1 .. Len(s) : g[n] = Round(g[n - 1], find)
  BY <1>1
<1> HIDE DEF g
<1>4. Erase(s, find) = g[Len(s)].text
  BY <1>2, <1>3, EraseIs DEF state
<1> QED BY <1>2, <1>4 DEF state

\* A run of m symbols is erased in m rounds.
LEMMA EraseRun ==
  ASSUME NEW S, NEW s \in Seq(S), NEW find, NEW i \in 1 .. Len(s), NEW m \in Nat \ {0},
         i + m <= Len(s) + 1, Run(s, find, i, m)
  PROVE  Erase(s, find) = Cut(s, i, m)
<1> DEFINE From(n) == IF n = 0 THEN 1 ELSE IF n < m THEN i ELSE Len(s) - m + 1
           After(n) == [text |-> Cut(s, i, n), from |-> From(n)]
           g == [n \in 0 .. Len(s) |-> IF n <= m THEN After(n) ELSE After(m)]
<1>0. Len(s) \in Nat /\ i \in 1 .. Len(s) + 1
  OBVIOUS
<1>1. ASSUME NEW n \in 0 .. m - 1 PROVE Round(After(n), find) = After(n + 1)
  <2> DEFINE c == Cut(s, i, n)
             d == Cut(s, i, n + 1)
  <2>0. /\ n \in Nat /\ i + n <= Len(s) + 1
        /\ n + 1 \in Nat /\ i + (n + 1) <= Len(s) + 1
    BY <1>0, <1>1
  <2>1. /\ c \in Seq(S) /\ Len(c) = Len(s) - n
        /\ \A k \in 1 .. Len(s) - n : c[k] = IF k < i THEN s[k] ELSE s[k + n]
    BY <1>0, <2>0, CutIs
  <2>2. /\ Len(d) = Len(s) - (n + 1)
        /\ \A k \in 1 .. Len(s) - (n + 1) : d[k] = IF k < i THEN s[k] ELSE s[k + (n + 1)]
    BY <1>0, <2>0, CutIs
  <2>3. RemoveAt(c, i) = d
    BY <1>0, <1>1, CutOneMore
  <2> HIDE DEF c, d
  <2>4. From(n) \in Nat /\ From(n) <= i
    BY <1>0, <1>1
  <2>5. i \in 1 .. Len(c) /\ c[i] = find
    <3>1. i \in 1 .. Len(s) - n /\ i + n \in i .. i + m - 1
      BY <1>0, <1>1
    <3>2. s[i + n] = find
      BY <3>1 DEF Run
    <3>3. c[i] = s[i + n]
      <4>1. ~(i < i)
        OBVIOUS
      <4> QED BY <2>1, <3>1, <4>1
    <3>4. i \in 1 .. Len(c)
      BY <2>1, <3>1
    <3> QED BY <3>2, <3>3, <3>4
  <2>6. \A k \in 1 .. i - 1 : c[k] # find
    <3>1. \A k \in 1 .. i - 1 : k \in 1 .. Len(s) - n /\ k < i
      BY <1>0, <1>1
    <3> QED BY <2>1, <3>1 DEF Run
  <2>7. Round([text |-> c, from |-> From(n)], find) =
          [text |-> d, from |-> IF i <= Len(d) /\ d[i] = Zero THEN i ELSE Len(d) + 1]
    <3> DEFINE from == From(n)
    <3>1. from \in Nat /\ from <= i
      BY <2>4
    <3> HIDE DEF from, From
    <3>2. Round([text |-> c, from |-> from], find) =
            [text |-> RemoveAt(c, i),
             from |-> IF i <= Len(RemoveAt(c, i)) /\ RemoveAt(c, i)[i] = Zero
                      THEN i ELSE Len(RemoveAt(c, i)) + 1]
      BY <2>1, <2>5, <2>6, <3>1, RoundAt
    <3> QED BY <2>3, <3>2 DEF from
  <2>8. (IF i <= Len(d) /\ d[i] = Zero THEN i ELSE Len(d) + 1) = From(n + 1)
    <3>1. CASE n + 1 < m
      <4>1. i <= Len(d) /\ i \in 1 .. Len(s) - (n + 1) /\ i + (n + 1) \in i + 1 .. i + m - 1
        BY <1>0, <1>1, <2>2, <3>1
      <4>2. d[i] = Zero
        BY <2>2, <4>1 DEF Run
      <4> QED BY <1>1, <3>1, <4>1, <4>2
    <3>2. CASE n + 1 = m
      <4>1. i <= Len(d) => d[i] # Zero
        <5>1. i <= Len(d) => i \in 1 .. Len(s) - (n + 1) /\ i + (n + 1) = i + m /\ i + m <= Len(s)
          BY <1>0, <1>1, <2>2, <3>2
        <5> QED BY <2>2, <5>1 DEF Run
      <4>2. From(n + 1) = Len(s) - m + 1 /\ Len(d) + 1 = Len(s) - m + 1
        <5>1. ~(n + 1 = 0) /\ ~(n + 1 < m)
          BY <1>1, <3>2
        <5>2. Len(d) + 1 = Len(s) - m + 1
          BY <1>0, <1>1, <2>2, <3>2
        <5> QED BY <5>1, <5>2
      <4> QED BY <4>1, <4>2
    <3> QED BY <1>1, <3>1, <3>2
  <2> HIDE DEF From
  <2> QED BY <2>7, <2>8 DEF c, d
<1>2. Round(After(m), find) = After(m)
  <2>1. Cut(s, i, m) \in Seq(S) /\ Len(Cut(s, i, m)) = Len(s) - m
    BY <1>0, CutIs
  <2>2. From(m) = Len(s) - m + 1 /\ From(m) \in Nat
    BY <1>0
  <2>3. \A k \in 1 .. Len(Cut(s, i, m)) : ~(k >= From(m))
    BY <1>0, <2>1, <2>2
  <2> HIDE DEF From
  <2> QED BY <2>1, <2>2, <2>3, RoundEnds
<1>3. After(0) = [text |-> s, from |-> 1]
  BY <1>0, CutNothing
<1> HIDE DEF After
<1>4. g = [n \in 0 .. Len(s) |-> g[n]] /\ g[0] = After(0)
  BY <1>0
<1>5. ASSUME NEW n \in 1 .. Len(s) PROVE g[n] = Round(g[n - 1], find)
  <2>1. CASE n <= m
    <3>1. n - 1 \in 0 .. m - 1 /\ n - 1 + 1 = n
      BY <1>0, <1>5, <2>1
    <3>2. g[n] = After(n) /\ g[n - 1] = After(n - 1)
      BY <1>0, <1>5, <2>1
    <3>3. Round(After(n - 1), find) = After(n)
      BY <1>1, <3>1
    <3> QED BY <3>2, <3>3
  <2>2. CASE n > m
    <3>1. g[n] = After(m) /\ g[n - 1] = After(m)
      <4>1. CASE n - 1 = m
        BY <1>0, <1>5, <2>2, <4>1
      <4>2. CASE n - 1 > m
        BY <1>0, <1>5, <2>2, <4>2
      <4> QED BY <1>5, <2>2, <4>1, <4>2
    <3> QED BY <1>2, <3>1
  <2> QED BY <1>5, <2>1, <2>2
<1>6. g[Len(s)] = After(m)
  <2>1. m <= Len(s)
    BY <1>0
  <2>2. CASE m = Len(s)
    BY <1>0, <2>2
  <2>3. CASE m < Len(s)
    BY <1>0, <2>3
  <2> QED BY <1>0, <2>1, <2>2, <2>3
<1> HIDE DEF g
<1>7. Erase(s, find) = g[Len(s)].text
  BY <1>0, <1>3, <1>4, <1>5, EraseIs
<1> QED BY <1>6, <1>7 DEF After

---------------------------------------------------------------------------
(* LabelCodec: the label of a name.                                        *)

\* The symbols a field adds to a name.
Letters == {Blank, ".", "j", "p", "g"}

LEMMA NoLetterIsZero == \A c \in Letters : c # Zero
  BY DEF Letters, Zero, Blank

\* Where the symbols of a name stand in its field.
LEMMA FieldIs ==
  ASSUME NEW S, Letters \subseteq S, NEW name \in Seq(S)
  PROVE  /\ Field(name) \in Seq(S) /\ Len(Field(name)) = Len(name) + 5
         /\ Field(name)[1] = Blank
         /\ \A k \in 1 .. Len(name) : Field(name)[k + 1] = name[k]
         /\ \A k \in Len(name) + 2 .. Len(name) + 5 : Field(name)[k] # Zero
<1> DEFINE front == <<Blank>> \o name
<1>0. Len(name) \in Nat
  OBVIOUS
<1>1. <<Blank>> \in Seq(S) /\ Len(<<Blank>>) = 1 /\ <<Blank>>[1] = Blank
  BY DEF Letters
<1>2. /\ Extension \in Seq(S) /\ Len(Extension) = 4
      /\ \A k \in 1 .. 4 : Extension[k] \in Letters
  BY DEF Letters, Extension
<1>3. /\ front \in Seq(S) /\ Len(front) = 1 + Len(name)
      /\ \A k \in 1 .. 1 + Len(name) :
           front[k] = IF k <= 1 THEN <<Blank>>[k] ELSE name[k - 1]
  BY <1>1, ConcatProperties
<1> HIDE DEF front
<1>4. /\ Field(name) \in Seq(S) /\ Len(Field(name)) = Len(name) + 5
      /\ \A k \in 1 .. Len(name) + 5 :
           Field(name)[k] = IF k <= Len(name) + 1 THEN front[k] ELSE Extension[k - (Len(name) + 1)]
  <2>1. /\ front \o Extension \in Seq(S) /\ Len(front \o Extension) = Len(front) + Len(Extension)
        /\ \A k \in 1 .. Len(front) + Len(Extension) :
             (front \o Extension)[k] = IF k <= Len(front) THEN front[k] ELSE Extension[k - Len(front)]
    BY <1>2, <1>3, ConcatProperties
  <2>2. Field(name) = front \o Extension
    BY DEF Field, front
  <2>3. Len(front) + Len(Extension) = Len(name) + 5 /\ Len(front) = Len(name) + 1
    BY <1>0, <1>2, <1>3
  <2> QED BY <2>1, <2>2, <2>3
<1>5. Field(name)[1] = Blank
  <2>1. 1 \in 1 .. Len(name) + 5 /\ 1 \in 1 .. 1 + Len(name) /\ 1 <= Len(name) + 1
    BY <1>0
  <2> QED BY <1>1, <1>3, <1>4, <2>1
<1>6. ASSUME NEW k \in 1 .. Len(name) PROVE Field(name)[k + 1] = name[k]
  <2>1. /\ k + 1 \in 1 .. Len(name) + 5 /\ k + 1 \in 1 .. 1 + Len(name) /\ k + 1 <= Len(name) + 1
        /\ ~(k + 1 <= 1) /\ k + 1 - 1 = k
    BY <1>0
  <2>2. Field(name)[k + 1] = front[k + 1]
    BY <1>4, <2>1
  <2>3. front[k + 1] = name[k + 1 - 1]
    BY <1>3, <2>1
  <2> QED BY <2>1, <2>2, <2>3
<1>7. ASSUME NEW k \in Len(name) + 2 .. Len(name) + 5 PROVE Field(name)[k] # Zero
  <2>1. /\ k \in 1 .. Len(name) + 5 /\ ~(k <= Len(name) + 1)
        /\ k - (Len(name) + 1) \in 1 .. 4
    BY <1>0
  <2>2. Field(name)[k] = Extension[k - (Len(name) + 1)]
    BY <1>4, <2>1
  <2> QED BY <1>2, <2>1, <2>2, NoLetterIsZero
<1> QED BY <1>4, <1>5, <1>6, <1>7

\* i .. j is the first run of zeros in name, empty and at the end if there is none.
FirstZeros(name, i, j) ==
  /\ i \in 1 .. Len(name) + 1 /\ j \in i - 1 .. Len(name)
  /\ \A k \in 1 .. i - 1 : name[k] # Zero
  /\ \A k \in i .. j : name[k] = Zero
  /\ j < Len(name) => j >= i /\ name[j + 1] # Zero

LEMMA FirstZerosExist ==
  ASSUME NEW name, Len(name) \in Nat
  PROVE  \E i, j \in Nat : FirstZeros(name, i, j)
<1> DEFINE from == {k \in 1 .. Len(name) + 1 : k <= Len(name) => name[k] = Zero}
<1>1. PICK i \in from : \A k \in from : i <= k
  <2>1. Len(name) + 1 \in from /\ from \in SUBSET Nat
    OBVIOUS
  <2> HIDE DEF from
  <2> QED BY <2>1, LeastNumber
<1> DEFINE past == {k \in i .. Len(name) + 1 : k <= Len(name) => name[k] # Zero}
<1>2. PICK e \in past : \A k \in past : e <= k
  <2>1. Len(name) + 1 \in past /\ past \in SUBSET Nat
    OBVIOUS
  <2> HIDE DEF past
  <2> QED BY <2>1, LeastNumber
<1>3. i \in 1 .. Len(name) + 1 /\ e \in i .. Len(name) + 1 /\ e - 1 \in Nat
  OBVIOUS
<1>4. \A k \in 1 .. i - 1 : name[k] # Zero
  BY <1>1, <1>3
<1>5. \A k \in i .. e - 1 : name[k] = Zero
  BY <1>2, <1>3
<1>6. e - 1 < Len(name) => e - 1 >= i /\ name[e - 1 + 1] # Zero
  <2> SUFFICES ASSUME e - 1 < Len(name) PROVE e - 1 >= i /\ name[e - 1 + 1] # Zero
    OBVIOUS
  <2>1. e - 1 + 1 = e /\ e <= Len(name) /\ i <= Len(name)
    BY <1>3
  <2>2. name[e] # Zero /\ name[i] = Zero
    BY <2>1
  <2> QED BY <1>3, <2>1, <2>2
<1>7. FirstZeros(name, i, e - 1)
  BY <1>3, <1>4, <1>5, <1>6 DEF FirstZeros
<1> QED BY <1>3, <1>7

\* Looking for zeros cuts the first run of them out of the field.
LEMMA ZerosErased ==
  ASSUME NEW S, Letters \subseteq S, NEW name \in Seq(S), NEW i \in Nat, NEW j \in Nat,
         FirstZeros(name, i, j)
  PROVE  Erase(Field(name), Zero) = Cut(Field(name), i + 1, j - i + 1)
<1> DEFINE F == Field(name)
<1>0. /\ Len(name) \in Nat /\ i \in 1 .. Len(name) + 1 /\ j \in i - 1 .. Len(name)
      /\ \A k \in 1 .. i - 1 : name[k] # Zero
      /\ \A k \in i .. j : name[k] = Zero
      /\ j < Len(name) => j >= i /\ name[j + 1] # Zero
  BY DEF FirstZeros
<1>1. /\ F \in Seq(S) /\ Len(F) = Len(name) + 5
      /\ F[1] = Blank
      /\ \A k \in 1 .. Len(name) : F[k + 1] = name[k]
      /\ \A k \in Len(name) + 2 .. Len(name) + 5 : F[k] # Zero
  BY FieldIs
<1> HIDE DEF F
<1>2. \A k \in 2 .. Len(name) + 1 : F[k] = name[k - 1]
  <2> SUFFICES ASSUME NEW k \in 2 .. Len(name) + 1 PROVE F[k] = name[k - 1]
    OBVIOUS
  <2>1. k - 1 \in 1 .. Len(name) /\ k - 1 + 1 = k
    BY <1>0
  <2>2. F[k - 1 + 1] = name[k - 1]
    BY <1>1, <2>1
  <2> QED BY <2>1, <2>2
<1>3. \A k \in 1 .. i : F[k] # Zero
  <2> SUFFICES ASSUME NEW k \in 1 .. i PROVE F[k] # Zero
    OBVIOUS
  <2>1. CASE k = 1
    BY <1>1, <2>1, NoLetterIsZero DEF Letters
  <2>2. CASE k # 1
    <3>1. k \in 2 .. Len(name) + 1 /\ k - 1 \in 1 .. i - 1
      BY <1>0, <2>2
    <3> QED BY <1>0, <1>2, <3>1
  <2> QED BY <2>1, <2>2
<1>4. CASE j = i - 1
  <2>1. i = Len(name) + 1
    BY <1>0, <1>4
  <2>2. \A k \in 1 .. Len(F) : F[k] # Zero
    <3> SUFFICES ASSUME NEW k \in 1 .. Len(F) PROVE F[k] # Zero
      OBVIOUS
    <3>1. k \in 1 .. i \/ k \in Len(name) + 2 .. Len(name) + 5
      BY <1>0, <1>1, <2>1
    <3> QED BY <1>1, <1>3, <3>1
  <2>3. Erase(F, Zero) = F
    BY <1>1, <2>2, EraseNone
  <2>4. i + 1 \in 1 .. Len(F) + 1 /\ j - i + 1 = 0
    BY <1>0, <1>1, <1>4, <2>1
  <2>5. Cut(F, i + 1, 0) = F
    BY <1>1, <2>4, CutNothing
  <2> QED BY <2>3, <2>4, <2>5 DEF F
<1>5. CASE j >= i
  <2> DEFINE p == i + 1
             m == j - i + 1
  <2>1. /\ p \in 1 .. Len(F) /\ m \in Nat \ {0} /\ p + m <= Len(F) + 1
        /\ p - 1 = i /\ p + m = j + 2 /\ p + m - 1 = j + 1 /\ m \in Nat /\ m >= 1
    BY <1>0, <1>1, <1>5
  <2>2. \A k \in p .. p + m - 1 : F[k] = Zero
    <3> SUFFICES ASSUME NEW k \in i + 1 .. j + 1 PROVE F[k] = Zero
      BY <2>1
    <3>1. k \in 2 .. Len(name) + 1 /\ k - 1 \in i .. j
      BY <1>0
    <3> QED BY <1>0, <1>2, <3>1
  <2>3. F[p + m] # Zero
    <3>1. CASE j < Len(name)
      <4>1. j + 2 \in 2 .. Len(name) + 1 /\ j + 2 - 1 = j + 1
        BY <1>0, <3>1
      <4>2. F[j + 2] = name[j + 1]
        BY <1>2, <4>1
      <4> QED BY <1>0, <2>1, <3>1, <4>2
    <3>2. CASE j = Len(name)
      <4>1. p + m \in Len(name) + 2 .. Len(name) + 5
        BY <1>0, <2>1, <3>2
      <4> QED BY <1>1, <4>1
    <3> QED BY <1>0, <3>1, <3>2
  <2>4. \A k \in p + 1 .. p + m - 1 : k \in p .. p + m - 1
    BY <2>1, <1>0
  <2> HIDE DEF p, m
  <2>5. Run(F, Zero, p, m)
    <3>1. \A k \in 1 .. p - 1 : F[k] # Zero
      BY <1>3, <2>1
    <3> QED BY <2>2, <2>3, <2>4, <3>1 DEF Run
  <2>6. Erase(F, Zero) = Cut(F, p, m)
    BY <1>1, <2>1, <2>5, EraseRun
  <2> QED BY <2>6 DEF F, p, m
<1> QED BY <1>0, <1>4, <1>5

\* Looking for blanks then takes the one in front, and the extension goes.
LEMMA LabelIs ==
  ASSUME NEW S, Letters \subseteq S, NEW name \in Seq(S), NEW i \in Nat, NEW j \in Nat,
         FirstZeros(name, i, j)
  PROVE  Label(name) = SubSeq(name, 1, i - 1) \o SubSeq(name, j + 1, Len(name))
<1> DEFINE F == Field(name)
           m == j - i + 1
           G == Cut(F, i + 1, m)
           L == Cut(G, 1, 1)
           n == Len(name) - m
<1>0. /\ Len(name) \in Nat /\ i \in 1 .. Len(name) + 1 /\ j \in i - 1 .. Len(name)
      /\ \A k \in 1 .. i - 1 : name[k] # Zero
      /\ j < Len(name) => j >= i /\ name[j + 1] # Zero
  BY DEF FirstZeros
<1>1. /\ F \in Seq(S) /\ Len(F) = Len(name) + 5
      /\ F[1] = Blank
      /\ \A k \in 1 .. Len(name) : F[k + 1] = name[k]
      /\ \A k \in Len(name) + 2 .. Len(name) + 5 : F[k] # Zero
  BY FieldIs
<1>2. Erase(F, Zero) = G
  BY ZerosErased
<1> HIDE DEF F
<1>3. /\ m \in Nat /\ n \in Nat /\ m <= Len(name) /\ i - 1 <= n
      /\ i + 1 \in 1 .. Len(F) + 1 /\ i + 1 + m <= Len(F) + 1
      /\ Len(F) - m = n + 5
  BY <1>0, <1>1
<1>4. /\ G \in Seq(S) /\ Len(G) = n + 5
      /\ \A k \in 1 .. n + 5 : G[k] = IF k < i + 1 THEN F[k] ELSE F[k + m]
  <2> HIDE DEF m, n
  <2>1. /\ G \in Seq(S) /\ Len(G) = Len(F) - m
        /\ \A k \in 1 .. Len(F) - m : G[k] = IF k < i + 1 THEN F[k] ELSE F[k + m]
    BY <1>1, <1>3, CutIs
  <2> QED BY <1>3, <2>1
<1> HIDE DEF G
<1>5. G[1] = Blank
  <2>1. 1 \in 1 .. n + 5 /\ 1 < i + 1
    BY <1>0, <1>3
  <2> HIDE DEF n
  <2>2. G[1] = F[1]
    BY <1>4, <2>1
  <2> QED BY <1>1, <2>2
<1>6. G[2] # Zero
  <2>0. 2 \in 1 .. n + 5
    BY <1>3
  <2>1. CASE i > 1
    <3>1. 2 < i + 1 /\ 1 \in 1 .. i - 1 /\ 1 \in 1 .. Len(name) /\ 1 + 1 = 2
      BY <1>0, <2>1
    <3>2. F[2] = name[1]
      BY <1>1, <3>1
    <3> QED BY <1>0, <1>4, <2>0, <3>1, <3>2
  <2>2. CASE i = 1
    <3>1. ~(2 < i + 1) /\ 2 + m = j + 2
      BY <1>0, <2>2
    <3>2. G[2] = F[j + 2]
      BY <1>4, <2>0, <3>1
    <3>3. CASE j < Len(name)
      <4>1. j + 1 \in 1 .. Len(name) /\ j + 1 + 1 = j + 2
        BY <1>0, <3>3
      <4>2. F[j + 2] = name[j + 1]
        BY <1>1, <4>1
      <4> QED BY <1>0, <3>2, <3>3, <4>2
    <3>4. CASE j = Len(name)
      <4>1. j + 2 \in Len(name) + 2 .. Len(name) + 5
        BY <1>0, <3>4
      <4> QED BY <1>1, <3>2, <4>1
    <3> QED BY <1>0, <3>3, <3>4
  <2> QED BY <1>0, <2>1, <2>2
<1>7. Erase(G, Blank) = L
  <2>1. Run(G, Blank, 1, 1)
    BY <1>5, <1>6 DEF Run
  <2>2. 1 \in 1 .. Len(G) /\ 1 \in Nat \ {0} /\ 1 + 1 <= Len(G) + 1
    BY <1>3, <1>4
  <2> QED BY <1>4, <2>1, <2>2, EraseRun
<1>8. /\ L \in Seq(S) /\ Len(L) = n + 4
      /\ \A k \in 1 .. n + 4 : L[k] = G[k + 1]
  <2>1. 1 \in 1 .. Len(G) + 1 /\ 1 \in Nat /\ 1 + 1 <= Len(G) + 1 /\ Len(G) - 1 = n + 4
    BY <1>3, <1>4
  <2>2. /\ L \in Seq(S) /\ Len(L) = Len(G) - 1
        /\ \A k \in 1 .. Len(G) - 1 : L[k] = IF k < 1 THEN G[k] ELSE G[k + 1]
    BY <1>4, <2>1, CutIs
  <2>3. \A k \in 1 .. n + 4 : ~(k < 1)
    BY <1>3
  <2> QED BY <2>1, <2>2, <2>3
<1> HIDE DEF L
<1>9. /\ Label(name) \in Seq(S) /\ Len(Label(name)) = n
      /\ \A k \in 1 .. n : Label(name)[k] = L[k]
  <2>1. Label(name) = SubSeq(L, 1, n)
    <3>1. Len(L) - Len(Extension) = n
      BY <1>3, <1>8 DEF Extension
    <3> QED BY <1>2, <1>7, <3>1 DEF Label, WithoutExtension, F
  <2>2. \A k \in 1 .. n : L[k] \in S
    <3>1. \A k \in 1 .. n : k \in 1 .. Len(L)
      BY <1>3, <1>8
    <3> QED BY <1>8, <3>1, ElementOfSeq
  <2> HIDE DEF n
  <2>3. /\ SubSeq(L, 1, n) \in Seq(S) /\ Len(SubSeq(L, 1, n)) = IF 1 <= n THEN n - 1 + 1 ELSE 0
        /\ \A k \in 1 .. n - 1 + 1 : SubSeq(L, 1, n)[k] = L[1 + k - 1]
    BY <1>3, <2>2, SubSeqProperties
  <2>4. n - 1 + 1 = n /\ (~(1 <= n) => n = 0) /\ \A k \in 1 .. n : 1 + k - 1 = k
    BY <1>3
  <2> QED BY <1>3, <2>1, <2>3, <2>4
<1>10. ASSUME NEW k \in 1 .. n
       PROVE  Label(name)[k] = IF k < i THEN name[k] ELSE name[k + m]
  <2>1. Label(name)[k] = G[k + 1]
    <3>1. k \in 1 .. n + 4
      BY <1>3
    <3> QED BY <1>8, <1>9, <3>1
  <2>2. k + 1 \in 1 .. n + 5
    BY <1>3
  <2>3. CASE k < i
    <3>1. k + 1 < i + 1 /\ k \in 1 .. Len(name)
      BY <1>0, <1>3, <2>3
    <3>2. G[k + 1] = F[k + 1] /\ F[k + 1] = name[k]
      BY <1>1, <1>4, <2>2, <3>1
    <3> QED BY <2>1, <2>3, <3>2
  <2>4. CASE ~(k < i)
    <3>1. ~(k + 1 < i + 1) /\ k + m \in 1 .. Len(name) /\ k + 1 + m = k + m + 1
      BY <1>0, <1>3, <2>4
    <3>2. G[k + 1] = F[k + 1 + m]
      BY <1>4, <2>2, <3>1
    <3>3. F[k + m + 1] = name[k + m]
      BY <1>1, <3>1
    <3> QED BY <2>1, <2>4, <3>1, <3>2, <3>3
  <2> QED BY <2>3, <2>4
<1> DEFINE l == SubSeq(name, 1, i - 1)
           r == SubSeq(name, j + 1, Len(name))
<1>11. /\ l \in Seq(S) /\ Len(l) = i - 1
       /\ \A k \in 1 .. i - 1 : l[k] = name[k]
  <2>1. \A k \in 1 .. i - 1 : name[k] \in S
    <3>1. \A k \in 1 .. i - 1 : k \in 1 .. Len(name)
      BY <1>0
    <3> QED BY <3>1, ElementOfSeq
  <2>2. /\ l \in Seq(S) /\ Len(l) = IF 1 <= i - 1 THEN i - 1 - 1 + 1 ELSE 0
        /\ \A k \in 1 .. i - 1 - 1 + 1 : l[k] = name[1 + k - 1]
    BY <1>0, <2>1, SubSeqProperties
  <2>3. i - 1 - 1 + 1 = i - 1 /\ (~(1 <= i - 1) => i - 1 = 0) /\ \A k \in 1 .. i - 1 : 1 + k - 1 = k
    BY <1>0
  <2> HIDE DEF l
  <2> QED BY <2>2, <2>3
<1>12. /\ r \in Seq(S) /\ Len(r) = Len(name) - j
       /\ \A k \in 1 .. Len(name) - j : r[k] = name[j + k]
  <2>1. \A k \in j + 1 .. Len(name) : name[k] \in S
    <3>1. \A k \in j + 1 .. Len(name) : k \in 1 .. Len(name)
      BY <1>0
    <3> QED BY <3>1, ElementOfSeq
  <2>2. /\ r \in Seq(S)
        /\ Len(r) = IF j + 1 <= Len(name) THEN Len(name) - (j + 1) + 1 ELSE 0
        /\ \A k \in 1 .. Len(name) - (j + 1) + 1 : r[k] = name[j + 1 + k - 1]
    BY <1>0, <2>1, SubSeqProperties
  <2>3. /\ Len(name) - (j + 1) + 1 = Len(name) - j
        /\ ~(j + 1 <= Len(name)) => Len(name) - j = 0
        /\ \A k \in 1 .. Len(name) - j : j + 1 + k - 1 = j + k
    BY <1>0
  <2> HIDE DEF r
  <2> QED BY <2>2, <2>3
<1> HIDE DEF l, r
<1>13. /\ l \o r \in Seq(S) /\ Len(l \o r) = n
       /\ \A k \in 1 .. n : (l \o r)[k] = IF k <= i - 1 THEN l[k] ELSE r[k - (i - 1)]
  <2>1. /\ l \o r \in Seq(S) /\ Len(l \o r) = Len(l) + Len(r)
        /\ \A k \in 1 .. Len(l) + Len(r) :
             (l \o r)[k] = IF k <= Len(l) THEN l[k] ELSE r[k - Len(l)]
    BY <1>11, <1>12, ConcatProperties
  <2>2. Len(l) + Len(r) = n
    BY <1>0, <1>11, <1>12
  <2> QED BY <1>11, <2>1, <2>2
<1>14. ASSUME NEW k \in 1 .. n PROVE Label(name)[k] = (l \o r)[k]
  <2>1. CASE k < i
    <3>1. k <= i - 1 /\ k \in 1 .. i - 1
      BY <1>0, <1>3, <2>1
    <3> QED BY <1>10, <1>11, <1>13, <2>1, <3>1
  <2>2. CASE ~(k < i)
    <3>1. ~(k <= i - 1) /\ k - (i - 1) \in 1 .. Len(name) - j /\ j + (k - (i - 1)) = k + m
      BY <1>0, <1>3, <2>2
    <3>2. (l \o r)[k] = r[k - (i - 1)]
      BY <1>13, <3>1
    <3>3. r[k - (i - 1)] = name[j + (k - (i - 1))]
      BY <1>12, <3>1
    <3> QED BY <1>10, <2>2, <3>1, <3>2, <3>3
  <2> QED BY <2>1, <2>2
<1>15. Label(name) = l \o r
  <2> HIDE DEF n
  <2> QED BY <1>9, <1>13, <1>14, SeqEqual
<1> QED BY <1>15 DEF l, r

\* Every name, of whatever length and symbols, is read back as it was typed but
\* for its first run of zeros: the blank in front and the extension go, and
\* nothing else (facerec.cpp:29-39).
THEOREM LabelReadsBack ==
  ASSUME NEW Symbols, NEW name \in Seq(Symbols)
  PROVE  ReadsBackAs(name, Label(name))
<1> DEFINE S == Symbols \cup Letters
<1>1. name \in Seq(S) /\ Letters \subseteq S
  <2>1. Symbols \subseteq S
    OBVIOUS
  <2> QED BY <2>1, SeqMonotonic
<1> HIDE DEF S
<1>2. PICK i, j \in Nat : FirstZeros(name, i, j)
  <2>1. Len(name) \in Nat
    OBVIOUS
  <2> QED BY <2>1, FirstZerosExist
<1>3. Label(name) = SubSeq(name, 1, i - 1) \o SubSeq(name, j + 1, Len(name))
  BY <1>1, <1>2, LabelIs
<1> QED BY <1>2, <1>3 DEF ReadsBackAs, FirstZeros

\* The combo box shows every row's name as LabelCodec reads it back, whatever
\* the names, after any sequence of saves, loads and deletions.
THEOREM NamesReadBackAlways ==
  ASSUME NEW Symbols, Names \subseteq Seq(Symbols),
         LabelOf = [n \in Names |-> Label(n)]
  PROVE  Spec => []NamesReadBack
<1>1. ASSUME NEW n \in ShortNames PROVE ReadsBackAs(n, Label(n))
  <2>1. n \in Seq({"b", Zero, Blank})
    BY PicturesAreSequences DEF ShortNames
  <2> QED BY <2>1, LabelReadsBack
<1>2. ShortNamesReadBack
  BY <1>1 DEF ShortNamesReadBack
<1>3. ASSUME IInv PROVE NamesReadBack
  <2>1. rows \in Seq(Named) /\ shown = LabelsIn(rows)
    BY <1>3 DEF IInv, TypeOK, ShownIsFile
  <2>2. /\ shown \in Seq(Labels) /\ Len(shown) = Len(rows)
        /\ \A i \in 1 .. Len(rows) : shown[i] = LabelOf[rows[i].name]
    BY <2>1, LabelsInProperties
  <2>3. DOMAIN shown = 1 .. Len(rows)
    BY <2>2
  <2>4. ASSUME NEW i \in 1 .. Len(rows) PROVE ReadsBackAs(rows[i].name, shown[i])
    <3>0. rows[i] \in Named
      BY <2>1, ElementOfSeq
    <3>1. rows[i].name \in Names
      BY <3>0 DEF Named
    <3>2. shown[i] = Label(rows[i].name) /\ rows[i].name \in Seq(Symbols)
      BY <2>2, <3>1
    <3> QED BY <3>2, LabelReadsBack
  <2> QED BY <1>2, <2>2, <2>3, <2>4 DEF NamesReadBack
<1> QED BY <1>3, SpecIInv, PTL
=============================================================================
