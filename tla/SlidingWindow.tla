--------------------------- MODULE SlidingWindow ---------------------------
(***************************************************************************)
(* What a chart of the R2Lab window promises the operator: the curve grows *)
(* to Width points and from then on is Width consecutive measurements,     *)
(* which never skip one and trail the newest by a single tick.             *)
(***************************************************************************)
EXTENDS Naturals, Sequences

CONSTANTS
  Width,     (* points of the full curve                                   *)
  Values     (* what is measured                                           *)

VARIABLES
  shown,     (* the curve, oldest point first                              *)
  pending    (* the measurement a full curve has yet to show, if any       *)

Init == shown = <<>> /\ pending = <<>>

Grow(v) ==
  /\ Len(shown) < Width
  /\ shown' = Append(shown, v)
  /\ UNCHANGED pending

Slide(v) ==
  /\ Len(shown) = Width
  /\ shown' = IF pending = <<>> THEN shown ELSE Append(Tail(shown), pending[1])
  /\ pending' = <<v>>

Next == \E v \in Values : Grow(v) \/ Slide(v)

Spec == Init /\ [][Next]_<<shown, pending>>
=============================================================================
