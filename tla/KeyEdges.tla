------------------------------ MODULE KeyEdges ------------------------------
(***************************************************************************)
(* What the input module promises, with the four-valued KeyState taken     *)
(* apart: every key has a level (held or not) and an edge mark.  A level   *)
(* only changes together with its mark, and the marks of all the keys are  *)
(* taken back together, once per tick.                                     *)
(***************************************************************************)
CONSTANT Keys

VARIABLES
  held,   (* [Keys -> BOOLEAN], the level of every key               *)
  edge    (* the keys whose level changed since the marks were taken *)

vars == << held, edge >>

Init ==
  /\ held = [k \in Keys |-> FALSE]
  /\ edge = {}

Flip(k) ==
  /\ held' = [held EXCEPT ![k] = ~ @]
  /\ edge' = edge \cup {k}

Settle ==
  /\ edge' = {}
  /\ UNCHANGED held

Reset ==
  /\ held' = [k \in Keys |-> FALSE]
  /\ edge' = {}

Next ==
  \/ \E k \in Keys : Flip(k)
  \/ Settle
  \/ Reset

Spec == Init /\ [][Next]_vars
=============================================================================
