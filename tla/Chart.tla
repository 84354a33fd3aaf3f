------------------------------- MODULE Chart -------------------------------
(***************************************************************************)
(* One series of a chart (dialog.cpp): the place and velocity series are   *)
(* four copies of this code.  A tick pushes its measurement to a vector    *)
(* and appends a point to the series until the chart is full; from then on *)
(* it walks the whole vector backwards and moves every value one point to  *)
(* the left by asking the series to replace the point (x, old value) by    *)
(* (x, new value), which does nothing when there is no such point.         *)
(*                                                                         *)
(* Abscissae are counted in steps of 20: the full chart ends at Width,     *)
(* while the walk starts at 1000, which is Width + 1 steps.  The module    *)
(* has no Next: the timers that call it are in Vision.                     *)
(***************************************************************************)
EXTENDS Integers, Sequences

CONSTANTS
  Width,         (* appended points: 49 in the code                        *)
  Values,        (* what is measured                                       *)
  Zero           (* the value of the point every series starts with        *)

VARIABLES
  vect,          (* every measurement so far; vect[k] is the code's [k-1]  *)
  pointCounter,  (* index of the measurement the next tick pushes          *)
  nextX,         (* abscissa of the next point appended                    *)
  series         (* series[x]: the value of the point at x                 *)

chartVars == <<vect, pointCounter, nextX, series>>

\* x_chartDisplay and y_chartDisplay give every series a first point (0, 0).
Init ==
  /\ vect = <<>>
  /\ pointCounter = 0
  /\ nextX = 1
  /\ series = [x \in {0} |-> Zero]

AppendPoint ==
  /\ series' = [x \in 0 .. nextX |->
                  IF x = nextX THEN vect'[pointCounter + 1] ELSE series[x]]
  /\ nextX' = nextX + 1

\* The index at which the walk, one step of 20 per index, passes x.
IndexFromTheEnd(x) == pointCounter - (Width - x)          \* mutant
IndexAt(x) == pointCounter - (Width + 1 - x)

\* Index 0 is compared with what lies before the vector's first element.
ShiftPoints(junk) ==
  /\ series' = [x \in DOMAIN series |->
                  LET i == IndexAt(x)
                      old == IF i = 0 THEN junk ELSE vect'[i]
                  IN  IF i >= 0 /\ series[x] = old THEN vect'[i + 1] ELSE series[x]]
  /\ UNCHANGED nextX

Tick(v) ==
  /\ vect' = Append(vect, v)
  /\ IF pointCounter >= Width
     THEN \E junk \in Values : ShiftPoints(junk)
     ELSE AppendPoint
  /\ pointCounter' = pointCounter + 1

---------------------------------------------------------------------------
(* The curve a chart shows, without the point it starts with.              *)

Shown == [k \in 1 .. nextX - 1 |-> series[k]]
Pending == IF Len(vect) > Width THEN <<vect[Len(vect)]>> ELSE <<>>

Window == INSTANCE SlidingWindow WITH shown <- Shown, pending <- Pending

\* The counters of a series agree with its vector, and a full series shows the
\* Width measurements before the newest.  That it does so depends on every
\* point holding exactly the value the walk asks to replace: one point that
\* misses its turn would never move again.
LagsByOne ==
  /\ pointCounter = Len(vect)
  /\ nextX = (IF Len(vect) < Width THEN Len(vect) ELSE Width) + 1
  /\ DOMAIN series = 0 .. nextX - 1
  /\ \A k \in 1 .. nextX - 1 :
       series[k] = IF Len(vect) <= Width THEN vect[k]
                   ELSE vect[Len(vect) - 1 - Width + k]
=============================================================================
