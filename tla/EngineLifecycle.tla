--------------------------- MODULE EngineLifecycle ---------------------------
(***************************************************************************)
(* What MeridianEngine promises a host that follows its documentation:     *)
(* Load acquires everything at once, the game loop runs only in between,   *)
(* and Unload, which comes after the loop and never inside it, gives       *)
(* everything back.                                                        *)
(***************************************************************************)
CONSTANT Resources   (* what a loaded engine owns *)

VARIABLES
  life,   (* "down", "up" or "looping"          *)
  owned   (* the resources the engine owns now  *)

vars == << life, owned >>

Init ==
  /\ life = "down"
  /\ owned = {}

Start ==
  /\ life = "down"
  /\ life' = "up"
  /\ owned' = Resources

Loop ==
  /\ life = "up"
  /\ life' = "looping"
  /\ UNCHANGED owned

Stop ==
  /\ life = "looping"
  /\ life' = "up"
  /\ UNCHANGED owned

Finish ==
  /\ life = "up"
  /\ life' = "down"
  /\ owned' = {}

Next == Start \/ Loop \/ Stop \/ Finish

Spec == Init /\ [][Next]_vars
=============================================================================
