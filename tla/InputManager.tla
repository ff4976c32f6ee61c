---------------------------- MODULE InputManager ----------------------------
(***************************************************************************)
(* The keyboard and the mouse as a tick of the game loop sees them.        *)
(* glfwPollEvents delivers key events to InputManager::OnKey, the loop     *)
(* hook reads the key table, and InputManager::Update closes the tick by   *)
(* turning the transient states TAP and RELEASE into DOWN and UP.          *)
(*                                                                         *)
(* GLFW is external: it remembers which keys are down, reports a press of  *)
(* a key that is down as a REPEAT, and releases nothing twice.             *)
(***************************************************************************)
EXTENDS Integers

CONSTANTS
  Keys,             (* the key codes GLFW reports                      *)
  CursorPositions   (* where the cursor can be, in window coordinates  *)

ASSUME KeysAssumption   == Keys \subseteq Int
ASSUME CursorAssumption == CursorPositions \subseteq Int \X Int

GLFW_MAX_KEYS == 348
GLFW_KEY_UNKNOWN == -1   (* of glfw3.h; GLFW keeps no state for it *)

KeyState == {"DOWN", "UP", "TAP", "RELEASE"}

(* The key codes that index m_keyStates within its bounds. *)
Table == Keys \cap (0 .. GLFW_MAX_KEYS - 1)

VARIABLES
  phase,           (* where the tick is: "poll", "hook" or "update"    *)
  keyStates,       (* m_keyStates, for the codes in Table              *)
  mousePosition,   (* m_mousePosition                                  *)
  glfwDown,        (* external: the keys GLFW holds to be down         *)
  cursor,          (* external: the cursor                             *)
  stray,           (* memory outside m_keyStates has been written      *)
  touched,         (* history: keys pressed or released in this tick   *)
  seen             (* history: the key table the last loop hook read   *)

envVars  == << glfwDown, cursor >>
histVars == << touched, seen >>
vars == << phase, keyStates, mousePosition, envVars, stray, histVars >>

Held(s)  == s \in {"TAP", "DOWN"}
Fresh(s) == s \in {"TAP", "RELEASE"}

AllUp == [k \in Table |-> "UP"]

(***************************************************************************)
(* Events.  OnKey writes the table without looking at the code it is       *)
(* given: a code outside the table (GLFW_KEY_UNKNOWN is -1, GLFW_KEY_LAST  *)
(* is 348) writes some other object.                                       *)
(***************************************************************************)
AfterKeyReleaseIsUp(s, action) ==
  CASE action = "PRESS"   -> "TAP"
    [] action = "RELEASE" -> "UP"
    [] OTHER              -> s

AfterKeyRepeatIsTap(s, action) ==
  IF action = "RELEASE" THEN "RELEASE" ELSE "TAP"

AfterKey(s, action) ==
  CASE action = "PRESS"   -> "TAP"
    [] action = "RELEASE" -> "RELEASE"
    [] OTHER              -> s

OnKey(k, action) ==
  IF k \in Table
    THEN /\ keyStates' = [keyStates EXCEPT ![k] = AfterKey(@, action)]
         /\ UNCHANGED stray
    ELSE /\ stray' = TRUE
         /\ UNCHANGED keyStates

KeyEvent(k, action) ==
  /\ phase = "poll"
  /\ k # GLFW_KEY_UNKNOWN => glfwDown[k] = (action # "PRESS")
  /\ glfwDown' = [glfwDown EXCEPT ![k] = action # "RELEASE"]
  /\ touched' = IF action = "REPEAT" THEN touched ELSE touched \cup {k}
  /\ OnKey(k, action)
  /\ UNCHANGED << phase, mousePosition, cursor, seen >>

MoveCursor ==
  /\ phase = "poll"
  /\ cursor' \in CursorPositions
  /\ UNCHANGED << phase, keyStates, mousePosition, glfwDown, stray, histVars >>

PollDone ==
  /\ phase = "poll"
  /\ phase' = "hook"
  /\ UNCHANGED << keyStates, mousePosition, envVars, stray, histVars >>

(* The application's loop hook reads the table through GetKeyState. *)
LoopHook ==
  /\ phase = "hook"
  /\ seen' = keyStates
  /\ phase' = "update"
  /\ UNCHANGED << keyStates, mousePosition, envVars, stray, touched >>

(***************************************************************************)
(* InputManager::Update: the mouse, then every entry of the table.         *)
(***************************************************************************)
SettledSkipsRelease(s) == IF s = "TAP" THEN "DOWN" ELSE s

SettledTapIsUp(s) == IF Fresh(s) THEN "UP" ELSE s

Settled(s) ==
  CASE s = "TAP"     -> "DOWN"
    [] s = "RELEASE" -> "UP"
    [] OTHER         -> s

ClampUnsigned(i) == i

Clamp(i) == IF i > 0 THEN i ELSE 0

Update ==
  /\ phase = "update"
  /\ mousePosition' = << Clamp(cursor[1]), Clamp(cursor[2]) >>
  /\ keyStates' = [k \in Table |-> Settled(keyStates[k])]
  /\ touched' = {}
  /\ phase' = "poll"
  /\ UNCHANGED << envVars, stray, seen >>

(***************************************************************************)
(* The engine is unloaded and loaded again: GLFW has a new window, whose   *)
(* keys are all up, and a new InputManager resets the static table.        *)
(***************************************************************************)
ConstructedKeepsTable == keyStates

Constructed == AllUp

Reload ==
  /\ phase = "poll"
  /\ touched = {}
  /\ glfwDown' = [k \in Keys |-> FALSE]
  /\ keyStates' = Constructed
  /\ mousePosition' = << 0, 0 >>
  /\ seen' = AllUp
  /\ UNCHANGED << phase, cursor, stray, touched >>

Init ==
  /\ phase = "poll"
  /\ keyStates = AllUp
  /\ mousePosition = << 0, 0 >>
  /\ glfwDown = [k \in Keys |-> FALSE]
  /\ cursor \in CursorPositions
  /\ stray = FALSE
  /\ touched = {}
  /\ seen = AllUp

Next ==
  \/ \E k \in Keys, action \in {"PRESS", "REPEAT", "RELEASE"} : KeyEvent(k, action)
  \/ MoveCursor
  \/ PollDone
  \/ LoopHook
  \/ Update
  \/ Reload

(***************************************************************************)
(* The loop keeps ticking: glfwPollEvents handles only the events that are *)
(* already queued, the hook returns, and Update has no condition.          *)
(***************************************************************************)
Fairness ==
  /\ WF_vars(PollDone)
  /\ WF_vars(LoopHook)
  /\ WF_vars(Update)

Spec == Init /\ [][Next]_vars /\ Fairness
-----------------------------------------------------------------------------
(* Every variable has its type; the mouse position is an unsigned pair     *)
(* (static_cast<unsigned int> of the clamped cursor).                      *)
TypeOK ==
  /\ phase \in {"poll", "hook", "update"}
  /\ keyStates \in [Table -> KeyState]
  /\ mousePosition \in Nat \X Nat
  /\ glfwDown \in [Keys -> BOOLEAN]
  /\ cursor \in CursorPositions
  /\ stray \in BOOLEAN
  /\ touched \subseteq Keys
  /\ seen \in [Table -> KeyState]

(* Whatever order presses, repeats, releases, updates and reloads come in, *)
(* the table says a key is held (TAP or DOWN) exactly when it is down.     *)
HeldIffDown == \A k \in Table : Held(keyStates[k]) <=> glfwDown[k]

(* A transient state marks exactly the keys that were pressed or released  *)
(* in this very tick: none survives Update, none is overwritten by the     *)
(* REPEAT events OnKey also receives.                                      *)
FreshIffTouched == \A k \in Table : Fresh(keyStates[k]) <=> k \in touched

(* No edge passes a loop hook by: if the hook is about to find a key held  *)
(* that it found up last time, or the other way round, it finds the        *)
(* transient state that says so.                                           *)
NoSilentEdge ==
  phase = "hook" =>
    \A k \in Table : Held(keyStates[k]) # Held(seen[k]) => Fresh(keyStates[k])

(* A key that stays up ends UP: no RELEASE and no TAP lingers.             *)
ReleasedKeySettles ==
  \A k \in Table : <>[](~ glfwDown[k]) => <>[](keyStates[k] = "UP")

(* The four-valued table implements the level and edge pair of KeyEdges.   *)
Edges == INSTANCE KeyEdges WITH
           Keys <- Table,
           held <- [k \in Table |-> Held(keyStates[k])],
           edge <- {k \in Table : Fresh(keyStates[k])}

ImplementsKeyEdges == Edges!Spec
-----------------------------------------------------------------------------
(* ModuleInput.hpp: "GLFW has 348 keys", so OnKey writes only entries of   *)
(* m_keyStates.                                                            *)
WritesStayInTable == ~ stray
=============================================================================
