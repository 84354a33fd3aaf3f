--------------------------- MODULE MCFaceDatabase ---------------------------
(* FaceDatabase with the labels that LabelCodec reads back: two of the names *)
(* are read back alike, the third has a blank before a zero.                 *)
EXTENDS FaceDatabase, LabelCodec

MCNames == {<<"b">>, <<"b", "0", "0">>, <<"0", " ", "0", "b">>}
MCLabelOf == [n \in MCNames |-> Label(n)]
MCLabels == {MCLabelOf[n] : n \in MCNames}

\* Every name of up to four letters, zeros and blanks.
ShortNames == SeqOf({"b", Zero, Blank}, 4)
ShortNamesReadBack == \A n \in ShortNames : ReadsBackAs(n, Label(n))

\* The combo box shows every name as it was typed but for its first run of zeros:
\* blanks and later zeros are kept, and the extension is gone.
NamesReadBack ==
  /\ ShortNamesReadBack
  /\ Len(shown) = Len(rows)
  /\ \A i \in DOMAIN shown : ReadsBackAs(rows[i].name, shown[i])
=============================================================================
