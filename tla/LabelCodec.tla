----------------------------- MODULE LabelCodec -----------------------------
(***************************************************************************)
(* What becomes of a name between typing it and reading it back: a row of  *)
(* db.csv ends with ", name.jpg" (facerec.cpp 319, 421), and load_database *)
(* and load_labels_only take what follows the last comma, let              *)
(* find_and_replace erase zeros and blanks, and drop the last four         *)
(* characters.  A name is a sequence of symbols without a comma.           *)
(***************************************************************************)
EXTENDS Naturals, SequencesExt

Zero == "0"
Blank == " "
Extension == <<".", "j", "p", "g">>

\* The field a reader finds behind the last comma of a name's row.
Field(name) == <<Blank>> \o name \o Extension

\* One round of the loop of find_and_replace(input, find, "") at position from:
\* the next find is erased, and the loop ends unless a zero has taken its place,
\* whatever it is looking for.
Round(found, find) ==
  LET places == {k \in DOMAIN found.text : k >= found.from /\ found.text[k] = find}
      at     == CHOOSE k \in places : \A j \in places : k <= j
      rest   == RemoveAt(found.text, at)
      goOn   == at <= Len(rest) /\ rest[at] = Zero
  IN  IF places = {} THEN found
      ELSE [text |-> rest, from |-> IF goOn THEN at ELSE Len(rest) + 1]

EraseAll(input, find) == SelectSeq(input, LAMBDA c : c # find)   \* mutant
Erase(input, find) ==
  LET after[n \in 0 .. Len(input)] ==
        IF n = 0 THEN [text |-> input, from |-> 1] ELSE Round(after[n - 1], find)
  IN  after[Len(input)].text

WithoutExtension(label) == SubSeq(label, 1, Len(label) - Len(Extension))

Label(name) == WithoutExtension(Erase(Erase(Field(name), Zero), Blank))

---------------------------------------------------------------------------
\* What the code promises of it: the name as it was typed, but for its first
\* run of zeros.
ReadsBackAs(name, label) ==
  \E i \in 1 .. Len(name) + 1 : \E j \in i - 1 .. Len(name) :
    /\ \A k \in 1 .. i - 1 : name[k] # Zero
    /\ \A k \in i .. j : name[k] = Zero
    /\ j < Len(name) => j >= i /\ name[j + 1] # Zero
    /\ label = SubSeq(name, 1, i - 1) \o SubSeq(name, j + 1, Len(name))
=============================================================================
