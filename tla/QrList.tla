------------------------------- MODULE QrList -------------------------------
(***************************************************************************)
(* The list of decoded QR codes (timer_qrCode in dialog.cpp).  Each code   *)
(* is added to the list and every other one is coloured, which reaches it  *)
(* through a counter of its own instead of the list's length; clearing the *)
(* list leaves that counter alone.                                         *)
(***************************************************************************)
EXTENDS Integers

VARIABLES
  items,                  (* entries of lstQrCode                          *)
  lstQrCodeIndexCounter   (* codes added since the program started         *)

qrVars == <<items, lstQrCodeIndexCounter>>

QrInit == items = 0 /\ lstQrCodeIndexCounter = 0

\* The code that colours asks for an entry the list does not have and
\* dereferences a null pointer.
MissesItem ==
  /\ lstQrCodeIndexCounter % 2 = 0
  /\ ~(lstQrCodeIndexCounter < items + 1)

CountAddedTwice == lstQrCodeIndexCounter' = lstQrCodeIndexCounter + 2   \* mutant
CountAdded == lstQrCodeIndexCounter' = lstQrCodeIndexCounter + 1

AddCode == items' = items + 1 /\ CountAdded

ClearList == items' = 0 /\ UNCHANGED lstQrCodeIndexCounter
=============================================================================
