---------------------------- MODULE CameraLease ----------------------------
(***************************************************************************)
(* What the camera panel promises about the one camera its features share: *)
(* features come and go; a newcomer may open the camera and never closes   *)
(* it, the last one to leave releases it, and only a change of source may  *)
(* close it under the features that stay.                                  *)
(***************************************************************************)
CONSTANT Features

VARIABLES
  users,   (* the features that are on *)
  open     (* the camera is open       *)

vars == <<users, open>>

Init == users = {} /\ open \in BOOLEAN

Join(u) ==
  /\ u \notin users
  /\ users' = users \cup {u}
  /\ open' \in BOOLEAN
  /\ open => open'

Leave(u) ==
  /\ u \in users
  /\ users' = users \ {u}
  /\ open' = (open /\ users' # {})

LeaveAll == users' = {} /\ open' = FALSE

\* Another source is selected; it may or may not open.
Switch == UNCHANGED users /\ open' \in BOOLEAN

Next ==
  \/ \E u \in Features : Join(u) \/ Leave(u)
  \/ LeaveAll
  \/ Switch

Spec == Init /\ [][Next]_vars
============================================================================
