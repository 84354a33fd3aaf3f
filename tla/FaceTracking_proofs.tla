------------------------ MODULE FaceTracking_proofs ------------------------
(***************************************************************************)
(* Proofs about FaceTracking, for every database, every bound and every    *)
(* answer of the networks.                                                 *)
(***************************************************************************)
EXTENDS FaceTracking, SequenceTheorems, TLAPS

LEMMA FilesAreSequences ==
  ASSUME NEW n \in Nat, NEW s
  PROVE  s \in SeqOf(Persons, n) <=> s \in Seq(Persons) /\ Len(s) <= n
<1>1. ASSUME s \in SeqOf(Persons, n)
      PROVE  s \in Seq(Persons) /\ Len(s) <= n
  <2>1. PICK m \in 0 .. n : s \in [1 .. m -> Persons]
    BY <1>1 DEF SeqOf
  <2>2. s \in Seq(Persons)
    BY <2>1
  <2>3. Len(s) = m
    BY <2>1
  <2> QED BY <2>1, <2>2, <2>3
<1>2. ASSUME s \in Seq(Persons), Len(s) <= n
      PROVE  s \in SeqOf(Persons, n)
  <2>1. Len(s) \in 0 .. n /\ s \in [1 .. Len(s) -> Persons]
    BY <1>2, LenProperties
  <2> QED BY <2>1 DEF SeqOf
<1> QED BY <1>1, <1>2

LEMMA EmptyFile == <<>> \in Files
<1>1. <<>> \in Seq(Persons) /\ Len(<<>>) <= MaxRows
  BY BoundsAssumption
<1> QED BY <1>1, BoundsAssumption, FilesAreSequences DEF Files

\* erase takes one element out.
LEMMA RemoveAtProperties ==
  ASSUME NEW S, NEW s \in Seq(S), NEW i \in 1 .. Len(s)
  PROVE  /\ RemoveAt(s, i) \in Seq(S)
         /\ Len(RemoveAt(s, i)) = Len(s) - 1
<1>1. /\ SubSeq(s, 1, i - 1) \in Seq(S)
      /\ Len(SubSeq(s, 1, i - 1)) = i - 1
  BY SubSeqProperties
<1>2. /\ SubSeq(s, i + 1, Len(s)) \in Seq(S)
      /\ Len(SubSeq(s, i + 1, Len(s))) = Len(s) - i
  BY SubSeqProperties
<1>3. ASSUME NEW a \in Seq(S), NEW b \in Seq(S)
      PROVE  a \o b \in Seq(S) /\ Len(a \o b) = Len(a) + Len(b)
  BY ConcatProperties
<1>4. /\ RemoveAt(s, i) \in Seq(S)
      /\ Len(RemoveAt(s, i)) = (i - 1) + (Len(s) - i)
  BY <1>1, <1>2, <1>3, Zenon DEF RemoveAt
<1>5. Len(s) \in Nat
  BY LenProperties
<1> QED BY <1>4, <1>5

---------------------------------------------------------------------------
(* Types.  That recognize reads a label needs LabelsMatchDescriptors, and  *)
(* that it is called for a tracker.                                        *)

RecognizesSome == pc = "recognize" => index > 0 /\ trackers # <<>>

UpdatesFrom1 == pc = "update" => index > 0

TypeInv == TypeOK /\ LabelsMatchDescriptors /\ RecognizesSome /\ UpdatesFrom1

LEMMA InitTypeInv == Init => TypeInv
<1> SUFFICES ASSUME Init PROVE TypeInv
  OBVIOUS
<1>1. trackers \in Seq(SUBSET Persons) /\ Len(trackers) <= MaxTrackers
  BY BoundsAssumption DEF Init
<1>2. detected_person_name \in Seq(Persons \cup {Unknown})
  BY DEF Init
<1>3. rows \in Files /\ labels \in Files
  BY DEF Init
<1>4. /\ pc = "idle" /\ descriptors = <<>> /\ descriptors \in Files
      /\ todo \in 0 .. MaxFaces /\ index \in Nat
  BY BoundsAssumption, EmptyFile DEF Init
<1>4a. /\ loadBox \in BOOLEAN /\ is_set \in BOOLEAN
       /\ unnamed \in {"none", "unloaded", "thrown"} /\ several \in BOOLEAN
  BY Zenon DEF Init
<1>5. LabelsMatchDescriptors /\ RecognizesSome /\ UpdatesFrom1
  BY <1>4 DEF LabelsMatchDescriptors, RecognizesSome, UpdatesFrom1
<1>6. TypeOK
  BY <1>1, <1>2, <1>3, <1>4, <1>4a, Zenon DEF TypeOK
<1> QED BY <1>5, <1>6 DEF TypeInv

LEMMA OperationTypeInv ==
  ASSUME TypeInv, Operation
  PROVE  TypeInv'
<1> USE BoundsAssumption
    DEF TypeInv, TypeOK, LabelsMatchDescriptors, RecognizesSome, UpdatesFrom1, dbVars, faultVars
<1>1. CASE FaceMatchesTracker
  BY <1>1 DEF FaceMatchesTracker
<1>2. CASE StartTracker
  <2>1. trackers' \in Seq(SUBSET Persons) /\ Len(trackers') = Len(trackers) + 1
    BY <1>2, AppendProperties DEF StartTracker
  <2>2. LabelsMatchDescriptors'
    BY <1>2, Zenon DEF StartTracker
  <2>3. RecognizesSome' /\ UpdatesFrom1'
    BY <1>2, <2>1 DEF StartTracker
  <2>4. /\ UNCHANGED dbVars /\ detected_person_name' = detected_person_name
        /\ is_set' = is_set /\ several' = several
        /\ pc' \in {"recognize", pc} /\ todo' \in 0 .. MaxFaces /\ index' = 1
        /\ unnamed' \in {"unloaded", unnamed} /\ Len(trackers') <= MaxTrackers
    BY <1>2, <2>1 DEF StartTracker
  <2>5. TypeOK'
    BY <2>1, <2>4
  <2> QED BY <2>2, <2>3, <2>5
<1>3. CASE NetThrows
  BY <1>3 DEF NetThrows
<1>4. CASE RowMatches
  <2>1. labels[index] \in Persons /\ descriptors[index] \in Persons
    <3>1. labels \in Seq(Persons) /\ index \in 1 .. Len(labels) /\ labels = descriptors
      BY <1>4, FilesAreSequences DEF RowMatches, Files
    <3> QED BY <3>1, ElementOfSeq
  <2>2. detected_person_name' \in Seq(Persons \cup {Unknown})
    BY <1>4, <2>1, AppendProperties DEF RowMatches
  <2>3. trackers' \in Seq(SUBSET Persons) /\ Len(trackers') = Len(trackers)
    BY <1>4, <2>1, ExceptSeq DEF RowMatches
  <2> QED BY <1>4, <2>2, <2>3 DEF RowMatches
<1>5. CASE RowDiffers
  BY <1>5 DEF RowDiffers
<1>6. CASE RecognizeEnds
  <2>1. detected_person_name' \in Seq(Persons \cup {Unknown})
    BY <1>6, AppendProperties DEF RecognizeEnds, NamesUnknown
  <2> QED BY <1>6, <2>1 DEF RecognizeEnds
<1>7. CASE BeginUpdate
  BY <1>7 DEF BeginUpdate
<1>8. CASE KeepTracker
  BY <1>8 DEF KeepTracker
<1>9. CASE LoseTracker
  <2>1. /\ trackers' \in Seq(SUBSET Persons)
        /\ Len(trackers') = Len(trackers) - 1
    BY <1>9, RemoveAtProperties DEF LoseTracker
  <2>2. detected_person_name' \in Seq(Persons \cup {Unknown})
    BY <1>9, RemoveAtProperties DEF LoseTracker, NoSuchName
  <2> QED BY <1>9, <2>1, <2>2 DEF LoseTracker, IndexAfterErase
<1>10. CASE EndTick
  BY <1>10 DEF EndTick
<1> QED
  BY <1>1, <1>2, <1>3, <1>4, <1>5, <1>6, <1>7, <1>8, <1>9, <1>10 DEF Operation

\* The variables that reading the file again leaves behind.
LoadedOK ==
  /\ labels \in Files /\ descriptors \in Files
  /\ descriptors # <<>> => labels = descriptors
  /\ trackers \in Seq(SUBSET Persons) /\ Len(trackers) <= MaxTrackers
  /\ detected_person_name \in Seq(Persons \cup {Unknown})
  /\ unnamed \in {"none", "unloaded", "thrown"} /\ several \in BOOLEAN

LEMMA LoadTypes ==
  ASSUME NEW file \in Files, LoadDatabase(file)
  PROVE  LoadedOK'
<1>1. Len(file) \in 0 .. MaxRows
  BY FilesAreSequences, BoundsAssumption, LenProperties DEF Files
<1>2. trackers' \in Seq(SUBSET Persons) /\ Len(trackers') <= MaxTrackers
  BY BoundsAssumption DEF LoadDatabase
<1>3. detected_person_name' \in Seq(Persons \cup {Unknown})
  BY DEF LoadDatabase
<1>4. unnamed' \in {"none", "unloaded", "thrown"} /\ several' \in BOOLEAN
  BY Zenon DEF LoadDatabase
<1> QED BY <1>1, <1>2, <1>3, <1>4 DEF LoadDatabase, LoadedOK

LEMMA ReloadTypes ==
  ASSUME TypeInv, NEW file \in Files, Reload(file)
  PROVE  LoadedOK'
<1>1. CASE descriptors = <<>>
  BY <1>1 DEF Reload, LoadLabelsOnly, LoadedOK, TypeInv, TypeOK, faultVars
<1>2. CASE descriptors # <<>>
  BY <1>2, LoadTypes DEF Reload
<1> QED BY <1>1, <1>2

LEMMA BetweenTicksTypeInv ==
  ASSUME TypeInv,
         \/ CheckLoadBox \/ UncheckLoadBox
         \/ \E saved \in SeqOf(Persons, MaxRows - Len(rows)) : SaveFaces(saved)
         \/ \E row \in 0 .. Len(rows) : DeleteFace(row)
  PROVE  TypeInv'
<1> USE BoundsAssumption
    DEF TypeInv, TypeOK, LabelsMatchDescriptors, RecognizesSome, UpdatesFrom1, trackVars, faultVars
<1>0. rows \in Seq(Persons) /\ Len(rows) \in 0 .. MaxRows
  BY FilesAreSequences, LenProperties DEF Files
<1>1. CASE CheckLoadBox
  BY <1>1, LoadTypes DEF CheckLoadBox, LoadedOK
<1>2. CASE UncheckLoadBox
  <2>1. descriptors' = <<>> /\ <<>> \in Files
    BY <1>2, EmptyFile DEF UncheckLoadBox
  <2>2. loadBox' \in BOOLEAN
    BY <1>2, Zenon DEF UncheckLoadBox
  <2>3. TypeOK'
    BY <1>2, <2>1, <2>2 DEF UncheckLoadBox
  <2> QED BY <1>2, <2>1, <2>3 DEF UncheckLoadBox
<1>3. ASSUME NEW saved \in SeqOf(Persons, MaxRows - Len(rows)), SaveFaces(saved)
      PROVE  TypeInv'
  <2>1. saved \in Seq(Persons) /\ Len(saved) <= MaxRows - Len(rows)
    BY <1>0, FilesAreSequences
  <2>2. rows \o saved \in Seq(Persons) /\ Len(rows \o saved) <= MaxRows
    BY <1>0, <2>1, ConcatProperties, LenProperties
  <2>3. rows' \in Files
    BY <1>3, <2>2, FilesAreSequences DEF SaveFaces, Files
  <2> QED BY <1>3, <2>3, ReloadTypes DEF SaveFaces, LoadedOK
<1>4. ASSUME NEW row \in 0 .. Len(rows), DeleteFace(row)
      PROVE  TypeInv'
  <2>1. rows' \in Seq(Persons) /\ Len(rows') <= MaxRows
    BY <1>0, <1>4, RemoveAtProperties DEF DeleteFace
  <2>2. rows' \in Files
    BY <2>1, FilesAreSequences DEF Files
  <2> QED BY <1>4, <2>2, ReloadTypes DEF DeleteFace, LoadedOK
<1> QED BY <1>1, <1>2, <1>3, <1>4

LEMMA NextTypeInv == TypeInv /\ [Next]_vars => TypeInv'
<1> SUFFICES ASSUME TypeInv, [Next]_vars
             PROVE  TypeInv'
  OBVIOUS
<1>1. ASSUME NEW faces \in 0 .. MaxFaces, BeginTick(faces)
      PROVE  TypeInv'
  BY <1>1 DEF BeginTick, TypeInv, TypeOK, LabelsMatchDescriptors, RecognizesSome,
              UpdatesFrom1, dbVars, faultVars
<1>2. CASE UNCHANGED vars
  BY <1>2 DEF vars, dbVars, faultVars, TypeInv, TypeOK, LabelsMatchDescriptors, RecognizesSome,
              UpdatesFrom1
<1> QED BY <1>1, <1>2, OperationTypeInv, BetweenTicksTypeInv DEF Next

\* The variables keep their types: labels are read, names and trackers erased,
\* within bounds wherever the model goes on.
THEOREM FaceTrackingTypeCorrect == Spec => []TypeOK
<1>1. TypeInv => TypeOK
  BY DEF TypeInv
<1> QED BY <1>1, InitTypeInv, NextTypeInv, PTL DEF Spec

\* As long as descriptors are loaded each has its own row's label at its place,
\* although saving and deleting faces may replace the labels alone.
THEOREM LabelsMatchDescriptorsAlways == Spec => []LabelsMatchDescriptors
<1>1. TypeInv => LabelsMatchDescriptors
  BY DEF TypeInv
<1> QED BY <1>1, InitTypeInv, NextTypeInv, PTL DEF Spec

---------------------------------------------------------------------------
(* Until a tracker is left without a name there are at least as many names *)
(* as trackers - one fewer in recognize until it has pushed a name.        *)

NameOwed == IF pc = "recognize" /\ ~is_set THEN 1 ELSE 0

EnoughNames == unnamed = "none" => Len(detected_person_name) + NameOwed >= Len(trackers)

NamesInv ==
  /\ TypeInv
  /\ NamesInBounds
  /\ EnoughNames
  /\ is_set => pc = "recognize" /\ index > 1

LEMMA OperationNamesInv ==
  ASSUME NamesInv, TypeInv', Operation
  PROVE  NamesInv'
<1> DEFINE names == detected_person_name
           Others == /\ NamesInBounds'
                     /\ EnoughNames'
                     /\ (is_set => pc = "recognize" /\ index > 1)'
<1> SUFFICES Others
  BY DEF NamesInv
<1>0. /\ names \in Seq(Persons \cup {Unknown}) /\ Len(names) \in Nat
      /\ trackers \in Seq(SUBSET Persons) /\ Len(trackers) \in Nat
      /\ is_set \in BOOLEAN /\ index \in Nat
      /\ pc = "recognize" => index > 0
  BY LenProperties DEF NamesInv, TypeInv, TypeOK, RecognizesSome
<1> USE <1>0 DEF NamesInv, NamesInBounds, EnoughNames, NameOwed, dbVars, faultVars
<1>1. CASE FaceMatchesTracker
  BY <1>1 DEF FaceMatchesTracker
<1>2. CASE StartTracker
  <2>1. Len(trackers') = Len(trackers) + 1
    BY <1>2, AppendProperties DEF StartTracker
  <2> QED BY <1>2, <2>1 DEF StartTracker
<1>3. CASE NetThrows
  BY <1>3 DEF NetThrows
<1>4. CASE RowMatches
  <2>1. Len(names') = Len(names) + 1
    <3>1. labels[index] \in Persons
      <4>1. labels \in Seq(Persons) /\ index \in 1 .. Len(labels)
        BY <1>4, FilesAreSequences, BoundsAssumption
        DEF RowMatches, Files, TypeInv, TypeOK, LabelsMatchDescriptors, RecognizesSome
      <4> QED BY <4>1, ElementOfSeq
    <3> QED BY <1>4, <3>1, AppendProperties DEF RowMatches
  <2>2. Len(trackers') = Len(trackers)
    BY <1>4 DEF RowMatches
  <2> QED BY <1>4, <2>1, <2>2 DEF RowMatches
<1>5. CASE RowDiffers
  BY <1>5 DEF RowDiffers
<1>6. CASE RecognizeEnds
  <2>1. CASE is_set
    BY <1>6, <2>1 DEF RecognizeEnds, NamesUnknown
  <2>2. CASE ~is_set
    <3>1. Len(names') = Len(names) + 1
      BY <1>6, <2>2, AppendProperties DEF RecognizeEnds, NamesUnknown
    <3> QED BY <1>6, <2>2, <3>1 DEF RecognizeEnds
  <2> QED BY <2>1, <2>2
<1>7. CASE BeginUpdate
  BY <1>7 DEF BeginUpdate
<1>8. CASE KeepTracker
  BY <1>8 DEF KeepTracker, NoSuchName, TypeInv, UpdatesFrom1, TypeOK
<1>9. CASE LoseTracker
  <2>0. index \in 1 .. Len(trackers)
    BY <1>9 DEF LoseTracker, TypeInv, UpdatesFrom1, TypeOK
  <2>1. Len(trackers') = Len(trackers) - 1
    BY <1>9, <2>0, RemoveAtProperties DEF LoseTracker
  <2>2. CASE unnamed # "none"
    BY <1>9, <2>2 DEF LoseTracker
  <2>3. CASE unnamed = "none"
    <3>1. index \in 1 .. Len(names) /\ names # <<>>
      BY <1>9, <2>0, <2>3 DEF LoseTracker
    <3>2. names' = RemoveAt(names, index) /\ pc' = pc
      BY <1>9, <3>1 DEF LoseTracker, NoSuchName
    <3>3. Len(names') = Len(names) - 1
      BY <3>1, <3>2, RemoveAtProperties
    <3> QED BY <1>9, <2>1, <3>2, <3>3 DEF LoseTracker
  <2> QED BY <2>2, <2>3
<1>10. CASE EndTick
  BY <1>10 DEF EndTick
<1> QED
  BY <1>1, <1>2, <1>3, <1>4, <1>5, <1>6, <1>7, <1>8, <1>9, <1>10 DEF Operation

LEMMA ReloadNames ==
  ASSUME NamesInv, pc = "idle", NEW file, Reload(file) \/ LoadDatabase(file),
         UNCHANGED trackVars
  PROVE  NamesInBounds' /\ EnoughNames' /\ (is_set => pc = "recognize" /\ index > 1)'
<1>1. /\ Len(trackers) \in Nat /\ Len(detected_person_name) \in Nat
  BY LenProperties DEF NamesInv, TypeInv, TypeOK
<1>2. CASE descriptors = <<>> /\ Reload(file)
  BY <1>1, <1>2 DEF Reload, LoadLabelsOnly, NamesInv, NamesInBounds, EnoughNames, NameOwed,
                       trackVars, faultVars
<1>3. CASE LoadDatabase(file)
  BY <1>3 DEF LoadDatabase, NamesInv, NamesInBounds, EnoughNames, NameOwed, trackVars
<1> QED BY <1>2, <1>3 DEF Reload

LEMMA NextNamesInv ==
  ASSUME NamesInv, [Next]_vars
  PROVE  NamesInv'
<1>0. TypeInv'
  BY NextTypeInv DEF NamesInv
<1> DEFINE Others == NamesInBounds' /\ EnoughNames' /\ (is_set => pc = "recognize" /\ index > 1)'
<1> SUFFICES Others
  BY <1>0 DEF NamesInv
<1>1. ASSUME NEW faces \in 0 .. MaxFaces, BeginTick(faces)
      PROVE  Others
  BY <1>1 DEF BeginTick, NamesInv, NamesInBounds, EnoughNames, NameOwed, dbVars,
              faultVars
<1>2. CASE Operation
  BY <1>0, <1>2, OperationNamesInv DEF NamesInv
<1>3. CASE CheckLoadBox
  BY <1>3, ReloadNames DEF CheckLoadBox
<1>4. CASE UncheckLoadBox
  BY <1>4 DEF UncheckLoadBox, NamesInv, NamesInBounds, EnoughNames, NameOwed, trackVars,
              faultVars
<1>5. ASSUME NEW saved \in SeqOf(Persons, MaxRows - Len(rows)), SaveFaces(saved)
      PROVE  Others
  BY <1>5, ReloadNames DEF SaveFaces
<1>6. ASSUME NEW row \in 0 .. Len(rows), DeleteFace(row)
      PROVE  Others
  BY <1>6, ReloadNames DEF DeleteFace
<1>7. CASE UNCHANGED vars
  BY <1>7 DEF vars, dbVars, faultVars, NamesInv, NamesInBounds, EnoughNames, NameOwed
<1> QED BY <1>1, <1>2, <1>3, <1>4, <1>5, <1>6, <1>7 DEF Next

LEMMA InitNamesInv == Init => NamesInv
<1> SUFFICES ASSUME Init PROVE NamesInv
  OBVIOUS
<1>1. TypeInv
  BY InitTypeInv
<1>2. is_set = FALSE /\ pc = "idle"
  BY DEF Init
<1>3. Len(detected_person_name) = 0 /\ Len(trackers) = 0
  BY DEF Init
<1>4. EnoughNames /\ NamesInBounds
  BY <1>2, <1>3 DEF EnoughNames, NamesInBounds, NameOwed
<1> QED BY <1>1, <1>2, <1>4 DEF NamesInv

\* Until a tracker is left without a name, operation never indexes or erases a
\* name that is not there, however many rows a face matches.
THEOREM NamesInBoundsAlways == Spec => []NamesInBounds
<1>1. NamesInv /\ [Next]_vars => NamesInv'
  BY NextNamesInv
<1>2. NamesInv => NamesInBounds
  BY DEF NamesInv
<1> QED BY <1>1, <1>2, InitNamesInv, PTL DEF Spec

---------------------------------------------------------------------------
(* As long as every tracker has pushed one name, the names are those of    *)
(* the trackers one by one.                                                *)

Fits(name, known) == name \in (IF known = {} THEN {Unknown} ELSE known)

Paired ==
  /\ Len(detected_person_name) + NameOwed = Len(trackers)
  /\ \A t \in 1 .. Len(detected_person_name) : Fits(detected_person_name[t], trackers[t])
  /\ NameOwed = 1 => trackers[Len(trackers)] = {}

PairedInv == unnamed = "none" /\ ~several => Paired

\* What stands behind the erased element moves up.
LEMMA RemoveAtElements ==
  ASSUME NEW S, NEW s \in Seq(S), NEW i \in 1 .. Len(s), NEW t \in 1 .. Len(s) - 1
  PROVE  RemoveAt(s, i)[t] = s[IF t < i THEN t ELSE t + 1]
<1>1. Len(s) \in Nat /\ \A k \in 1 .. Len(s) : s[k] \in S
  BY LenProperties, ElementOfSeq
<1>2. ASSUME NEW m \in 1 .. Len(s) + 1, NEW n \in 0 .. Len(s), m <= n + 1
      PROVE  /\ SubSeq(s, m, n) \in Seq(S)
             /\ Len(SubSeq(s, m, n)) = n - m + 1
             /\ \A k \in 1 .. n - m + 1 : SubSeq(s, m, n)[k] = s[m + k - 1]
  <2>1. m \in Int /\ n \in Int /\ \A k \in m .. n : s[k] \in S
    BY <1>1
  <2>2. Len(SubSeq(s, m, n)) = IF m <= n THEN n - m + 1 ELSE 0
    BY <2>1, SubSeqProperties, Zenon
  <2>3. SubSeq(s, m, n) \in Seq(S)
    BY <2>1, SubSeqProperties, Zenon
  <2>4. \A k \in 1 .. n - m + 1 : SubSeq(s, m, n)[k] = s[m + k - 1]
    BY <2>1, SubSeqProperties
  <2> DEFINE length == Len(SubSeq(s, m, n))
  <2> HIDE DEF length
  <2>5. length = n - m + 1
    <3>1. length = IF m <= n THEN n - m + 1 ELSE 0
      BY <2>2, Zenon DEF length
    <3> QED BY <1>1, <1>2, <3>1
  <2> QED BY <2>3, <2>4, <2>5, Zenon DEF length
<1>3. ASSUME NEW a \in Seq(S), NEW b \in Seq(S), NEW k \in 1 .. Len(a) + Len(b)
      PROVE  (a \o b)[k] = IF k <= Len(a) THEN a[k] ELSE b[k - Len(a)]
  BY ConcatProperties
<1> DEFINE a == SubSeq(s, 1, i - 1)
           b == SubSeq(s, i + 1, Len(s))
<1>4. RemoveAt(s, i) = a \o b
  BY Zenon DEF RemoveAt
<1> HIDE DEF a, b
<1>5. a \in Seq(S) /\ Len(a) = i - 1 /\ \A k \in 1 .. i - 1 : a[k] = s[k]
  <2>1. 1 \in 1 .. Len(s) + 1 /\ i - 1 \in 0 .. Len(s) /\ 1 <= (i - 1) + 1
    BY <1>1
  <2> QED BY <1>1, <1>2, <2>1 DEF a
<1>6. b \in Seq(S) /\ Len(b) = Len(s) - i /\ \A k \in 1 .. Len(s) - i : b[k] = s[i + k]
  <2>1. i + 1 \in 1 .. Len(s) + 1 /\ Len(s) \in 0 .. Len(s) /\ i + 1 <= Len(s) + 1
    BY <1>1
  <2> QED BY <1>1, <1>2, <2>1 DEF b
<1>7. RemoveAt(s, i)[t] = IF t <= i - 1 THEN a[t] ELSE b[t - (i - 1)]
  <2>1. t \in 1 .. Len(a) + Len(b)
    BY <1>1, <1>5, <1>6
  <2>2. (a \o b)[t] = IF t <= Len(a) THEN a[t] ELSE b[t - Len(a)]
    BY <1>3, <1>5, <1>6, <2>1
  <2> QED BY <1>4, <1>5, <2>2
<1> QED BY <1>1, <1>5, <1>6, <1>7

LEMMA OperationPaired ==
  ASSUME NamesInv, PairedInv, TypeInv', Operation
  PROVE  PairedInv'
<1> DEFINE names == detected_person_name
<1> SUFFICES ASSUME unnamed' = "none", several' = FALSE
             PROVE  Paired'
  <2>1. several' \in BOOLEAN
    BY DEF TypeInv, TypeOK
  <2> QED BY <2>1, Zenon DEF PairedInv
<1>0. /\ names \in Seq(Persons \cup {Unknown}) /\ Len(names) \in Nat
      /\ trackers \in Seq(SUBSET Persons) /\ Len(trackers) \in Nat
      /\ is_set \in BOOLEAN /\ index \in Nat /\ several \in BOOLEAN
      /\ is_set => pc = "recognize" /\ index > 1
      /\ pc = "recognize" => index > 0 /\ trackers # <<>>
  BY LenProperties DEF NamesInv, TypeInv, TypeOK, RecognizesSome
<1> USE <1>0
<1>1. CASE FaceMatchesTracker
  BY <1>1 DEF FaceMatchesTracker, dbVars, faultVars, PairedInv, Paired, NameOwed
<1>2. CASE StartTracker
  <2>1. /\ unnamed = "none" /\ ~several /\ pc = "detect" /\ pc' = "recognize"
        /\ is_set = FALSE /\ is_set' = FALSE
        /\ trackers' = Append(trackers, {}) /\ names' = names
    BY <1>2 DEF StartTracker
  <2>2. /\ Len(trackers') = Len(trackers) + 1
        /\ \A t \in 1 .. Len(trackers) : trackers'[t] = trackers[t]
        /\ trackers'[Len(trackers) + 1] = {}
    BY <2>1, AppendProperties
  <2>3. Len(names) = Len(trackers) /\ \A t \in 1 .. Len(names) : Fits(names[t], trackers[t])
    BY <2>1 DEF PairedInv, Paired, NameOwed
  <2>4. NameOwed' = 1
    BY <2>1 DEF NameOwed
  <2> QED BY <2>1, <2>2, <2>3, <2>4 DEF Paired
<1>3. CASE NetThrows
  BY <1>3 DEF NetThrows, dbVars, PairedInv, Paired, NameOwed
<1>4. CASE RowMatches
  <2> DEFINE name == labels[index]
             last == Len(trackers)
  <2>0. labels = descriptors
    BY <1>4, FilesAreSequences, BoundsAssumption
    DEF RowMatches, Files, NamesInv, TypeInv, TypeOK, LabelsMatchDescriptors
  <2>1. /\ unnamed = "none" /\ ~several /\ ~is_set /\ is_set' /\ pc = "recognize"
        /\ names' = Append(names, name)
        /\ trackers' = [trackers EXCEPT ![last] = @ \cup {name}]
    BY <1>4, <2>0 DEF RowMatches
  <2>2. name \in Persons
    <3>1. labels \in Seq(Persons) /\ index \in 1 .. Len(labels)
      BY <1>4, FilesAreSequences, BoundsAssumption
      DEF RowMatches, Files, NamesInv, TypeInv, TypeOK, LabelsMatchDescriptors
    <3> QED BY <3>1, ElementOfSeq
  <2>3. Len(names) + 1 = last /\ trackers[last] = {}
        /\ \A t \in 1 .. Len(names) : Fits(names[t], trackers[t])
    BY <2>1 DEF PairedInv, Paired, NameOwed
  <2>4. /\ Len(names') = last
        /\ names'[last] = name
        /\ \A t \in 1 .. Len(names) : names'[t] = names[t]
    BY <2>1, <2>2, <2>3, AppendProperties
  <2>5. /\ Len(trackers') = last
        /\ trackers'[last] = {name}
        /\ \A t \in 1 .. Len(names) : trackers'[t] = trackers[t]
    <3>1. last \in 1 .. Len(trackers)
      BY <2>3
    <3> QED BY <2>1, <2>3, <3>1, ExceptSeq
  <2>6. NameOwed' = 0
    BY <2>1 DEF NameOwed
  <2>7. ASSUME NEW t \in 1 .. last
        PROVE  Fits(names'[t], trackers'[t])
    <3>1. CASE t = last
      BY <3>1, <2>4, <2>5 DEF Fits
    <3>2. CASE t # last
      BY <3>2, <2>3, <2>4, <2>5
    <3> QED BY <3>1, <3>2
  <2> QED BY <2>4, <2>5, <2>6, <2>7 DEF Paired
<1>5. CASE RowDiffers
  BY <1>5 DEF RowDiffers, dbVars, faultVars, PairedInv, Paired, NameOwed
<1>6. CASE RecognizeEnds
  <2>1. /\ unnamed = "none" /\ ~several /\ pc = "recognize" /\ pc' = "detect"
        /\ names' = NamesUnknown /\ trackers' = trackers
    BY <1>6 DEF RecognizeEnds, faultVars
  <2>2. Paired /\ NameOwed' = 0
    BY <2>1 DEF PairedInv, NameOwed
  <2>3. CASE is_set
    BY <2>1, <2>2, <2>3 DEF Paired, NameOwed, NamesUnknown
  <2>4. CASE ~is_set
    <3>1. NameOwed = 1 /\ names' = Append(names, Unknown)
      BY <2>1, <2>4 DEF NameOwed, NamesUnknown
    <3>2. /\ Len(names') = Len(names) + 1
          /\ names'[Len(names) + 1] = Unknown
          /\ \A t \in 1 .. Len(names) : names'[t] = names[t]
      BY <3>1, AppendProperties
    <3>3. Len(trackers) = Len(names) + 1 /\ trackers[Len(names) + 1] = {}
      BY <2>2, <3>1 DEF Paired
    <3>4. ASSUME NEW t \in 1 .. Len(names')
          PROVE  Fits(names'[t], trackers'[t])
      <4>1. CASE t = Len(names) + 1
        BY <4>1, <2>1, <3>2, <3>3 DEF Fits
      <4>2. CASE t # Len(names) + 1
        BY <4>2, <2>1, <2>2, <3>2 DEF Paired
      <4> QED BY <4>1, <4>2
    <3> QED BY <2>1, <2>2, <3>2, <3>3, <3>4 DEF Paired
  <2> QED BY <2>3, <2>4
<1>7. CASE BeginUpdate
  BY <1>7 DEF BeginUpdate, dbVars, faultVars, PairedInv, Paired, NameOwed
<1>8. CASE KeepTracker
  BY <1>8 DEF KeepTracker, dbVars, faultVars, PairedInv, Paired, NameOwed
<1>9. CASE LoseTracker
  <2>1. unnamed = "none" /\ ~several /\ pc = "update" /\ index <= Len(trackers)
        /\ trackers' = RemoveAt(trackers, index)
    BY <1>9 DEF LoseTracker, faultVars
  <2>2. index \in 1 .. Len(trackers)
    BY <2>1 DEF NamesInv, TypeInv, UpdatesFrom1
  <2>3. /\ Len(names) = Len(trackers)
        /\ \A t \in 1 .. Len(names) : Fits(names[t], trackers[t])
    BY <2>1 DEF PairedInv, Paired, NameOwed
  <2>4. names' = RemoveAt(names, index) /\ pc' = pc
    <3>1. names # <<>> /\ ~NoSuchName
      BY <2>2, <2>3 DEF NoSuchName
    <3> QED BY <1>9, <3>1 DEF LoseTracker
  <2>5. Len(names') = Len(names) - 1 /\ Len(trackers') = Len(names) - 1
    BY <2>1, <2>2, <2>3, <2>4, RemoveAtProperties
  <2>6. ASSUME NEW t \in 1 .. Len(names')
        PROVE  Fits(names'[t], trackers'[t])
    <3> DEFINE was == IF t < index THEN t ELSE t + 1
    <3>1. was \in 1 .. Len(names)
      BY <2>2, <2>3, <2>5
    <3>2. names'[t] = names[was]
      BY <2>2, <2>3, <2>4, <2>5, RemoveAtElements
    <3>3. trackers'[t] = trackers[was]
      BY <2>1, <2>2, <2>3, <2>5, RemoveAtElements
    <3> QED BY <2>3, <3>1, <3>2, <3>3
  <2>7. NameOwed' = 0
    BY <2>1, <2>4 DEF NameOwed
  <2> QED BY <2>5, <2>6, <2>7 DEF Paired
<1>10. CASE EndTick
  BY <1>10 DEF EndTick, dbVars, faultVars, PairedInv, Paired, NameOwed
<1> QED
  BY <1>1, <1>2, <1>3, <1>4, <1>5, <1>6, <1>7, <1>8, <1>9, <1>10 DEF Operation

LEMMA ReloadPaired ==
  ASSUME NamesInv, PairedInv, pc = "idle", NEW file, Reload(file) \/ LoadDatabase(file),
         UNCHANGED trackVars
  PROVE  PairedInv'
<1>1. CASE descriptors = <<>> /\ Reload(file)
  BY <1>1 DEF Reload, LoadLabelsOnly, PairedInv, Paired, NameOwed, trackVars, faultVars
<1>2. CASE LoadDatabase(file)
  <2>1. /\ Len(detected_person_name') = 0 /\ Len(trackers') = 0 /\ NameOwed' = 0
    BY <1>2 DEF LoadDatabase, NameOwed, trackVars
  <2> QED BY <2>1 DEF PairedInv, Paired
<1> QED BY <1>1, <1>2 DEF Reload

LEMMA NextPaired ==
  ASSUME NamesInv, PairedInv, [Next]_vars
  PROVE  PairedInv'
<1>1. ASSUME NEW faces \in 0 .. MaxFaces, BeginTick(faces)
      PROVE  PairedInv'
  BY <1>1 DEF BeginTick, PairedInv, Paired, NameOwed, dbVars, faultVars
<1>2. CASE Operation
  BY <1>2, OperationPaired, NextTypeInv DEF NamesInv
<1>3. CASE CheckLoadBox
  BY <1>3, ReloadPaired DEF CheckLoadBox
<1>4. CASE UncheckLoadBox
  BY <1>4 DEF UncheckLoadBox, PairedInv, Paired, NameOwed, trackVars, faultVars
<1>5. ASSUME NEW saved \in SeqOf(Persons, MaxRows - Len(rows)), SaveFaces(saved)
      PROVE  PairedInv'
  BY <1>5, ReloadPaired DEF SaveFaces
<1>6. ASSUME NEW row \in 0 .. Len(rows), DeleteFace(row)
      PROVE  PairedInv'
  BY <1>6, ReloadPaired DEF DeleteFace
<1>7. CASE UNCHANGED vars
  BY <1>7 DEF vars, dbVars, faultVars, PairedInv, Paired, NameOwed
<1> QED BY <1>1, <1>2, <1>3, <1>4, <1>5, <1>6, <1>7 DEF Next

\* Between two ticks every tracker is shown with the name of its own face,
\* unless a tracker was left without a name or a face pushed several: losing a
\* tracker takes its name along, wherever it stands.
THEOREM ShowsRecognisedPersonAlways == Spec => []ShowsRecognisedPerson
<1>1. Init => NamesInv /\ PairedInv
  <2> SUFFICES ASSUME Init PROVE PairedInv
    BY InitNamesInv
  <2>1. Len(detected_person_name) = 0 /\ Len(trackers) = 0 /\ NameOwed = 0
    BY DEF Init, NameOwed
  <2> QED BY <2>1 DEF PairedInv, Paired
<1>2. NamesInv /\ PairedInv /\ [Next]_vars => NamesInv' /\ PairedInv'
  BY NextNamesInv, NextPaired
<1>3. NamesInv /\ PairedInv => ShowsRecognisedPerson
  BY DEF PairedInv, Paired, NameOwed, Fits, ShowsRecognisedPerson, NamedRight
<1> QED BY <1>1, <1>2, <1>3, PTL DEF Spec

=============================================================================
