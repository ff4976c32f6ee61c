------------------------- MODULE InputManagerProofs -------------------------
(***************************************************************************)
(* Theorems about InputManager for every set of key codes and of cursor    *)
(* positions.  HeldIffDown and FreshIffTouched are inductive together with *)
(* the types.  NoSilentEdge is not: what the hook saw last time is tied to *)
(* the present table only through the keys nobody has touched since, whose *)
(* entries Update has settled.                                             *)
(***************************************************************************)
EXTENDS InputManager, TLAPS

(* Between Update and the next hook an untouched key has the settled form  *)
(* of what the last hook saw; between the hook and Update, the hook saw    *)
(* the table as it is.                                                     *)
SeenSettled ==
  /\ phase \in {"poll", "hook"} =>
       \A k \in Table : k \notin touched => keyStates[k] = Settled(seen[k])
  /\ phase = "update" => seen = keyStates

Inv ==
  /\ TypeOK
  /\ HeldIffDown
  /\ FreshIffTouched
  /\ SeenSettled

(* Settling keeps the level of a key and takes its transient mark away.    *)
LEMMA SettledKeepsLevel ==
  ASSUME NEW s \in KeyState
  PROVE  /\ Settled(s) \in KeyState
         /\ Held(Settled(s)) <=> Held(s)
         /\ ~ Fresh(Settled(s))
  BY DEF KeyState, Settled, Held, Fresh

(* An event GLFW reports sets the level to what the event says and marks   *)
(* the key, unless it is a repeat, which changes nothing.                  *)
LEMMA AfterKeyLevel ==
  ASSUME NEW s \in KeyState, NEW action \in {"PRESS", "REPEAT", "RELEASE"}
  PROVE  /\ AfterKey(s, action) \in KeyState
         /\ action # "REPEAT" => /\ Held(AfterKey(s, action)) <=> action = "PRESS"
                                 /\ Fresh(AfterKey(s, action))
         /\ action = "REPEAT" => AfterKey(s, action) = s
  BY DEF KeyState, AfterKey, Held, Fresh

(* The mouse position is unsigned wherever the cursor is.                  *)
LEMMA ClampUnsignedRange ==
  ASSUME NEW i \in Int
  PROVE  Clamp(i) \in Nat
  BY DEF Clamp

LEMMA InitInv == Init => Inv
  <1> SUFFICES ASSUME Init
               PROVE  Inv
    OBVIOUS
  <1> USE DEF Init
  <1>1. Table \subseteq Keys
    BY DEF Table
  <1>2. keyStates \in [Table -> KeyState] /\ seen \in [Table -> KeyState]
    BY DEF AllUp, KeyState
  <1>3. TypeOK
    BY <1>2 DEF TypeOK
  <1>4. HeldIffDown
    BY <1>1 DEF HeldIffDown, AllUp, Held
  <1>5. FreshIffTouched
    BY DEF FreshIffTouched, AllUp, Fresh
  <1>6. SeenSettled
    BY DEF SeenSettled, AllUp, Settled
  <1> QED
    BY <1>3, <1>4, <1>5, <1>6 DEF Inv

LEMMA KeyEventInv ==
  ASSUME Inv, NEW k \in Keys, NEW action \in {"PRESS", "REPEAT", "RELEASE"},
         KeyEvent(k, action)
  PROVE  Inv'
  <1> USE DEF KeyEvent
  <1>1. /\ phase = "poll" /\ phase' = "poll"
        /\ keyStates \in [Table -> KeyState]
        /\ seen \in [Table -> KeyState] /\ seen' = seen
        /\ glfwDown \in [Keys -> BOOLEAN]
        /\ touched \subseteq Keys
        /\ Table \subseteq Keys
    BY DEF Inv, TypeOK, Table
  <1>2. CASE k \in Table
    <2>1. /\ keyStates' = [keyStates EXCEPT ![k] = AfterKey(keyStates[k], action)]
          /\ stray' = stray
      BY <1>2 DEF OnKey
    <2>2. k # GLFW_KEY_UNKNOWN
      BY <1>2 DEF Table, GLFW_KEY_UNKNOWN, GLFW_MAX_KEYS
    <2>3. glfwDown[k] = (action # "PRESS")
      BY <2>2
    <2>4. keyStates[k] \in KeyState
      BY <1>1, <1>2
    <2>5. TypeOK'
      BY <1>1, <2>1, <2>4, AfterKeyLevel DEF Inv, TypeOK
    <2>6. ASSUME NEW j \in Table
          PROVE  /\ Held(keyStates'[j]) <=> glfwDown'[j]
                 /\ Fresh(keyStates'[j]) <=> j \in touched'
                 /\ j \notin touched' => keyStates'[j] = Settled(seen'[j])
      <3>1. /\ Held(keyStates[j]) <=> glfwDown[j]
            /\ Fresh(keyStates[j]) <=> j \in touched
            /\ j \notin touched => keyStates[j] = Settled(seen[j])
        BY <1>1, <2>6 DEF Inv, HeldIffDown, FreshIffTouched, SeenSettled
      <3>2. CASE j # k
        <4>1. /\ keyStates'[j] = keyStates[j]
              /\ glfwDown'[j] = glfwDown[j]
              /\ j \in touched' <=> j \in touched
          BY <1>1, <2>1, <3>2
        <4> QED
          BY <1>1, <3>1, <4>1
      <3>3. CASE j = k
        <4>1. /\ keyStates'[j] = AfterKey(keyStates[j], action)
              /\ glfwDown'[j] = (action # "RELEASE")
          BY <1>1, <1>2, <2>1, <3>3
        <4>2. CASE action = "REPEAT"
          <5>1. glfwDown[j] /\ glfwDown'[j]
            BY <2>3, <3>3, <4>1, <4>2
          <5>2. keyStates'[j] = keyStates[j] /\ touched' = touched
            BY <2>4, <3>3, <4>1, <4>2, AfterKeyLevel
          <5> QED
            BY <1>1, <3>1, <5>1, <5>2
        <4>3. CASE action # "REPEAT"
          <5>1. j \in touched'
            BY <3>3, <4>3
          <5>2. /\ Held(keyStates'[j]) <=> action = "PRESS"
                /\ Fresh(keyStates'[j])
            BY <2>4, <3>3, <4>1, <4>3, AfterKeyLevel
          <5>3. glfwDown'[j] <=> action = "PRESS"
            BY <4>1, <4>3
          <5> QED
            BY <5>1, <5>2, <5>3
        <4> QED
          BY <4>2, <4>3
      <3> QED
        BY <3>2, <3>3
    <2>7. HeldIffDown' /\ FreshIffTouched' /\ SeenSettled'
      BY <1>1, <2>6 DEF HeldIffDown, FreshIffTouched, SeenSettled
    <2> QED
      BY <2>5, <2>7 DEF Inv
  <1>3. CASE k \notin Table
    <2>1. keyStates' = keyStates /\ stray' = TRUE
      BY <1>3 DEF OnKey
    <2>2. TypeOK'
      BY <1>1, <2>1 DEF Inv, TypeOK
    <2>3. \A j \in Table : /\ glfwDown'[j] = glfwDown[j]
                           /\ j \in touched' <=> j \in touched
      BY <1>1, <1>3
    <2>4. HeldIffDown' /\ FreshIffTouched' /\ SeenSettled'
      BY <1>1, <2>1, <2>3 DEF Inv, HeldIffDown, FreshIffTouched, SeenSettled
    <2> QED
      BY <2>2, <2>4 DEF Inv
  <1> QED
    BY <1>2, <1>3

LEMMA UpdateInv ==
  ASSUME Inv, Update
  PROVE  Inv'
  <1> USE DEF Update
  <1>1. /\ keyStates \in [Table -> KeyState]
        /\ seen \in [Table -> KeyState] /\ seen' = seen
        /\ seen = keyStates
        /\ cursor \in CursorPositions
    BY DEF Inv, TypeOK, SeenSettled
  <1>2. ASSUME NEW j \in Table
        PROVE  /\ keyStates'[j] = Settled(keyStates[j])
               /\ keyStates'[j] \in KeyState
               /\ Held(keyStates'[j]) <=> Held(keyStates[j])
               /\ ~ Fresh(keyStates'[j])
    BY <1>1, <1>2, SettledKeepsLevel
  <1>3. cursor[1] \in Int /\ cursor[2] \in Int
    BY <1>1, CursorAssumption
  <1>4. mousePosition' \in Nat \X Nat
    BY <1>3, ClampUnsignedRange
  <1>5. keyStates' \in [Table -> KeyState]
    BY <1>1, SettledKeepsLevel
  <1>6. TypeOK'
    BY <1>4, <1>5 DEF Inv, TypeOK, envVars
  <1>7. HeldIffDown'
    BY <1>2 DEF Inv, HeldIffDown, envVars
  <1>8. FreshIffTouched'
    BY <1>2 DEF FreshIffTouched
  <1>9. SeenSettled'
    BY <1>1, <1>2 DEF SeenSettled
  <1> QED
    BY <1>6, <1>7, <1>8, <1>9 DEF Inv

LEMMA ReloadInv ==
  ASSUME Inv, Reload
  PROVE  Inv'
  <1> USE DEF Reload
  <1>1. Table \subseteq Keys
    BY DEF Table
  <1>2. keyStates' = AllUp /\ seen' = AllUp /\ AllUp \in [Table -> KeyState]
    BY DEF Constructed, AllUp, KeyState
  <1>3. TypeOK'
    BY <1>2 DEF Inv, TypeOK
  <1>4. HeldIffDown' /\ FreshIffTouched' /\ SeenSettled'
    BY <1>1, <1>2 DEF HeldIffDown, FreshIffTouched, SeenSettled, AllUp, Held, Fresh, Settled
  <1> QED
    BY <1>3, <1>4 DEF Inv

LEMMA NextInv == Inv /\ [Next]_vars => Inv'
  <1> SUFFICES ASSUME Inv, [Next]_vars
               PROVE  Inv'
    OBVIOUS
  <1>1. ASSUME NEW k \in Keys, NEW action \in {"PRESS", "REPEAT", "RELEASE"},
               KeyEvent(k, action)
        PROVE  Inv'
    BY <1>1, KeyEventInv
  <1>2. CASE MoveCursor
    BY <1>2 DEF MoveCursor, Inv, TypeOK, HeldIffDown, FreshIffTouched, SeenSettled, histVars
  <1>3. CASE PollDone
    BY <1>3 DEF PollDone, Inv, TypeOK, HeldIffDown, FreshIffTouched, SeenSettled,
                envVars, histVars
  <1>4. CASE LoopHook
    BY <1>4 DEF LoopHook, Inv, TypeOK, HeldIffDown, FreshIffTouched, SeenSettled, envVars
  <1>5. CASE Update
    BY <1>5, UpdateInv
  <1>6. CASE Reload
    BY <1>6, ReloadInv
  <1>7. CASE UNCHANGED vars
    BY <1>7 DEF vars, Inv, TypeOK, HeldIffDown, FreshIffTouched, SeenSettled,
                envVars, histVars
  <1> QED
    BY <1>1, <1>2, <1>3, <1>4, <1>5, <1>6, <1>7 DEF Next

(* The inductive invariant holds in every state of every execution.        *)
THEOREM InvHolds == Spec => []Inv
  <1>1. Init => Inv
    BY InitInv
  <1>2. Inv /\ [Next]_vars => Inv'
    BY NextInv
  <1> QED
    BY <1>1, <1>2, PTL DEF Spec

(* InputManager's variables always have their types: OnKey and Update only *)
(* produce key states, the clamped mouse position is unsigned.             *)
THEOREM TypeCorrect == Spec => []TypeOK
  BY InvHolds, PTL DEF Inv

(* The table says a key is held exactly when it is down, whatever codes    *)
(* the keyboard has and in whatever order OnKey and Update run.            *)
THEOREM HeldIsDown == Spec => []HeldIffDown
  BY InvHolds, PTL DEF Inv

(* TAP and RELEASE mark exactly the keys OnKey was told of in this tick.   *)
THEOREM FreshIsTouched == Spec => []FreshIffTouched
  BY InvHolds, PTL DEF Inv

(* No loop hook finds a level changed without the mark that says so.       *)
THEOREM NoEdgeIsSilent == Spec => []NoSilentEdge
  <1>1. Inv => NoSilentEdge
    <2> SUFFICES ASSUME Inv, phase = "hook", NEW k \in Table,
                        Held(keyStates[k]) # Held(seen[k])
                 PROVE  Fresh(keyStates[k])
      BY DEF NoSilentEdge
    <2>1. keyStates[k] \in KeyState /\ seen[k] \in KeyState
      BY DEF Inv, TypeOK
    <2>2. k \notin touched => keyStates[k] = Settled(seen[k])
      BY DEF Inv, SeenSettled
    <2>3. Held(Settled(seen[k])) <=> Held(seen[k])
      BY <2>1, SettledKeepsLevel
    <2>4. k \in touched
      BY <2>2, <2>3 DEF Held
    <2> QED
      BY <2>4 DEF Inv, FreshIffTouched
  <1> QED
    BY <1>1, InvHolds, PTL
-----------------------------------------------------------------------------
(* The four-valued table implements the levels and marks of KeyEdges.      *)

(* A table of keys that are all up has no level and no mark.               *)
LEMMA AllUpUnmarked ==
  /\ [k \in Table |-> Held(AllUp[k])] = [k \in Table |-> FALSE]
  /\ {k \in Table : Fresh(AllUp[k])} = {}
  <1>1. \A k \in Table : AllUp[k] = "UP"
    BY DEF AllUp
  <1>2. Held("UP") = FALSE /\ Fresh("UP") = FALSE
    BY DEF Held, Fresh
  <1> QED
    BY <1>1, <1>2

LEMMA InitMaps == Init => Edges!Init
  BY AllUpUnmarked DEF Init, Edges!Init

LEMMA KeyEventMaps ==
  ASSUME Inv, NEW k \in Keys, NEW action \in {"PRESS", "REPEAT", "RELEASE"},
         KeyEvent(k, action)
  PROVE  [Edges!Next]_(Edges!vars)
  <1> DEFINE held == [j \in Table |-> Held(keyStates[j])]
             edge == {j \in Table : Fresh(keyStates[j])}
  <1>1. keyStates \in [Table -> KeyState]
    BY DEF Inv, TypeOK
  <1>2. CASE k \in Table
    <2>1. keyStates' = [keyStates EXCEPT ![k] = AfterKey(keyStates[k], action)]
      BY <1>2 DEF KeyEvent, OnKey
    <2>2. glfwDown[k] = (action # "PRESS")
      BY <1>2 DEF KeyEvent, Table, GLFW_KEY_UNKNOWN, GLFW_MAX_KEYS
    <2>3. keyStates[k] \in KeyState /\ (Held(keyStates[k]) <=> glfwDown[k])
      BY <1>1, <1>2 DEF Inv, HeldIffDown
    <2>4. CASE action = "REPEAT"
      <3>1. keyStates' = keyStates
        BY <1>1, <1>2, <2>1, <2>3, <2>4, AfterKeyLevel
      <3> QED
        BY <3>1 DEF Edges!vars
    <2>5. CASE action # "REPEAT"
      <3>1. /\ Held(keyStates'[k]) <=> ~ Held(keyStates[k])
            /\ Fresh(keyStates'[k])
        <4>1. keyStates'[k] = AfterKey(keyStates[k], action)
          BY <1>1, <1>2, <2>1
        <4>2. /\ Held(keyStates'[k]) <=> action = "PRESS"
              /\ Fresh(keyStates'[k])
          BY <2>3, <2>5, <4>1, AfterKeyLevel
        <4> QED
          BY <2>2, <2>3, <4>2
      <3>2. \A j \in Table : j # k => keyStates'[j] = keyStates[j]
        BY <1>1, <2>1
      <3>3. edge' = edge \cup {k}
        BY <1>2, <3>1, <3>2
      <3>4. held' = [held EXCEPT ![k] = ~ held[k]]
        <4>1. held[k] = Held(keyStates[k])
          BY <1>2
        <4>2. \A j \in Table : held'[j] = IF j = k THEN ~ held[k] ELSE held[j]
          <5> SUFFICES ASSUME NEW j \in Table
                       PROVE  held'[j] = IF j = k THEN ~ held[k] ELSE held[j]
            OBVIOUS
          <5>1. held'[j] = Held(keyStates'[j]) /\ held[j] = Held(keyStates[j])
            OBVIOUS
          <5>2. CASE j = k
            <6>1. held'[j] = Held(keyStates'[k]) /\ held[k] = Held(keyStates[k])
              BY <4>1, <5>1, <5>2
            <6>2. Held(keyStates'[k]) = ~ Held(keyStates[k])
              BY <3>1 DEF Held
            <6> HIDE DEF held
            <6> QED
              BY <6>1, <6>2, <5>2
          <5>3. CASE j # k
            BY <3>2, <5>1, <5>3
          <5> QED
            BY <5>2, <5>3
        <4> QED
          BY <4>2
      <3>5. Edges!Flip(k)
        BY <3>3, <3>4 DEF Edges!Flip
      <3> QED
        BY <1>2, <3>5 DEF Edges!Next
    <2> QED
      BY <2>4, <2>5
  <1>3. CASE k \notin Table
    BY <1>3 DEF KeyEvent, OnKey, Edges!vars
  <1> QED
    BY <1>2, <1>3

LEMMA UpdateMaps ==
  ASSUME Inv, Update
  PROVE  Edges!Settle
  <1>1. \A j \in Table : keyStates[j] \in KeyState /\ keyStates'[j] = Settled(keyStates[j])
    BY DEF Update, Inv, TypeOK
  <1>2. \A j \in Table : /\ Held(keyStates'[j]) = Held(keyStates[j])
                         /\ ~ Fresh(keyStates'[j])
    BY <1>1 DEF KeyState, Settled, Held, Fresh
  <1> QED
    BY <1>2 DEF Edges!Settle

LEMMA ReloadMaps ==
  ASSUME Reload
  PROVE  Edges!Reset
  BY AllUpUnmarked DEF Reload, Constructed, Edges!Reset

(* Every step of the input manager is a step of KeyEdges or leaves levels  *)
(* and marks alone: OnKey flips the level of one key and marks it, Update  *)
(* takes all the marks back and no level with them.                        *)
THEOREM RefinesKeyEdges == Spec => ImplementsKeyEdges
  <1>1. Inv /\ [Next]_vars => [Edges!Next]_(Edges!vars)
    <2> SUFFICES ASSUME Inv, [Next]_vars
                 PROVE  [Edges!Next]_(Edges!vars)
      OBVIOUS
    <2>1. ASSUME NEW k \in Keys, NEW action \in {"PRESS", "REPEAT", "RELEASE"},
                 KeyEvent(k, action)
          PROVE  [Edges!Next]_(Edges!vars)
      BY <2>1, KeyEventMaps
    <2>2. CASE MoveCursor
      BY <2>2 DEF MoveCursor, Edges!vars
    <2>3. CASE PollDone
      BY <2>3 DEF PollDone, Edges!vars
    <2>4. CASE LoopHook
      BY <2>4 DEF LoopHook, Edges!vars
    <2>5. CASE Update
      BY <2>5, UpdateMaps DEF Edges!Next
    <2>6. CASE Reload
      BY <2>6, ReloadMaps DEF Edges!Next
    <2>7. CASE UNCHANGED vars
      BY <2>7 DEF vars, Edges!vars
    <2> QED
      BY <2>1, <2>2, <2>3, <2>4, <2>5, <2>6, <2>7 DEF Next
  <1> QED
    BY <1>1, InitMaps, InvHolds, PTL DEF Spec, ImplementsKeyEdges, Edges!Spec
=============================================================================
