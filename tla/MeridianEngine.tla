--------------------------- MODULE MeridianEngine ---------------------------
(***************************************************************************)
(* The engine object: Load, the game loop of Run, Unload, Terminate, the   *)
(* viewport and the three hooks, driven by a host program such as Main.cpp *)
(* and by the user of the window.  One thread runs everything; pc says     *)
(* where it is.  A step outside the contract of OpenGL, GLFW or C++ (GL    *)
(* without its functions or a context, a null window, a failed assert)     *)
(* ends the run: pc is "dead" and fault names the cause.                   *)
(* GLFW once terminated answers every call with an error and zeros, which  *)
(* is inside its contract and kills nothing.                               *)
(*                                                                         *)
(* A viewport is a position in the game and a size; a size stands for a    *)
(* width and height, 0 for the area of a minimised window.                 *)
(***************************************************************************)
EXTENDS Integers, Sequences

CONSTANTS
  Sizes,           (* the sizes a window can have                          *)
  InitSize,        (* 640 x 480, the size Load gives the window and FBO    *)
  Positions,       (* the positions SetViewport is given                   *)
  MaxLoads,        (* bound: successful calls of Load                      *)
  MaxCalls,        (* bound: calls of Unload in progress                   *)
  Failures,        (* the steps of Load that may fail                      *)
  HookCalls,       (* what the application's hooks call                    *)
  Asserts,         (* TRUE in a build that keeps assert()                  *)
  Frequency,       (* frames a second: of the display, else 60             *)
  Resolution,      (* the units a millisecond of m_duration is counted in  *)
  Durations        (* the units the work of a tick can take                *)

ASSUME SizesAssumption ==
  /\ Sizes \subseteq Nat
  /\ InitSize \in Sizes \ {0}
ASSUME PositionsAssumption == Positions \subseteq Int /\ 0 \in Positions
ASSUME BoundsAssumption    == MaxLoads \in Nat \ {0} /\ MaxCalls \in Nat \ {0}
ASSUME FailuresAssumption  == Failures \subseteq {"glfw", "window", "gl"}
ASSUME CallsAssumption     == HookCalls \subseteq {"Terminate", "SetViewport", "Unload"}
ASSUME AssertsAssumption   == Asserts \in BOOLEAN
ASSUME ClockAssumption ==
  /\ Frequency \in Nat \ {0}
  /\ Resolution \in Nat \ {0}
  /\ Durations \subseteq Nat

Hooks   == {"preHook", "loopHook", "postHook"}
Modules == {"input", "resource", "graphics", "audio"}
NoFbo   == -1

HostPcs   == {"new", "loaded", "ran", "unloaded", "deleted"}
LoopPcs   == {"cond", "poll", "frame", "loopHook", "input"}
UnloadPcs == {"unload", "postHook", "finalise"}
Pcs       == HostPcs \cup LoopPcs \cup UnloadPcs \cup {"preHook", "dead"}

VARIABLES
  pc,            (* where the thread is                                      *)
  ret,           (* the return points of the calls of Unload in progress     *)
  fault,         (* why the thread died, or "none"                           *)
  hooks,         (* m_preHook, m_loopHook, m_postHook: "set" or "unset"      *)
  initialised,   (* m_isInitialised                                          *)
  running,       (* m_isRunning                                              *)
  managers,      (* which Load the four manager pointers date from, 0: none  *)
  live,          (* the manager objects allocated and not deleted            *)
  window,        (* m_window: "unset", "null", "open" or "destroyed"         *)
  closing,       (* external: the user has closed the window                 *)
  winSize,       (* external: the size of the window                         *)
  gl,            (* external: the OpenGL functions and context are usable    *)
  fbo,           (* the size of GraphicsManager's frame buffer, or NoFbo     *)
  prev, now,     (* m_prevViewport, m_nowViewport                            *)
  delta,         (* m_deltaTime, in parts of 1000000 * Resolution            *)
  frame,         (* history: the last frame's m_duration, and the            *)
                 (* milliseconds it has asked Sleep for                      *)
  stopAsked      (* history: the hook that called Terminate, until Run ends  *)

hostVars   == << hooks, managers, live >>
windowVars == << window, closing, winSize, gl >>
viewVars   == << prev, now, fbo >>
clockVars  == << delta, frame >>
flagVars   == << initialised, running, stopAsked >>
vars == << pc, ret, fault, hostVars, windowVars, viewVars, clockVars, flagVars >>

NoFrame == [duration |-> 0, slept |-> 0]

Goto(p) == pc' = p /\ UNCHANGED fault
Die(cause) == pc' = "dead" /\ fault' = cause

(* Call a hook if its pointer is not null, else go on.  No constructor     *)
(* initialises the pointers, but the project builds with /sdl, under which *)
(* the compiler does.                                                      *)
CallHook_NoNullTest(h, next) == IF hooks[h] = "set" THEN Goto(h) ELSE Die("nullHook")

CallHook(h, next) == Goto(IF hooks[h] = "set" THEN h ELSE next)
-----------------------------------------------------------------------------
(* The host registers its hooks before Load.                               *)
HookTo(h) ==
  /\ pc = "new"
  /\ hooks' = [hooks EXCEPT ![h] = "set"]
  /\ UNCHANGED << pc, ret, fault, managers, live, windowVars, viewVars, clockVars, flagVars >>

CanLoad ==
  /\ pc \in {"new", "unloaded"}
  /\ ~ initialised
  /\ managers < MaxLoads

(* glfwInit failed: Load goes on, and reads the null video mode.           *)
LoadWithoutGlfw ==
  /\ CanLoad
  /\ "glfw" \in Failures
  /\ Die("noGlfw")
  /\ UNCHANGED << ret, hostVars, windowVars, viewVars, clockVars, flagVars >>

(* No window: Load calls Unload and returns, with the modules never made.  *)
LoadWithoutWindow ==
  /\ CanLoad
  /\ "window" \in Failures
  /\ initialised' = TRUE
  /\ window' = "null"
  /\ ret' = << "loaded" >>
  /\ Goto("unload")
  /\ UNCHANGED << hostVars, closing, winSize, gl, viewVars, clockVars, running, stopAsked >>

(* No OpenGL functions: likewise, with the window open.                    *)
LoadWithoutGL ==
  /\ CanLoad
  /\ "gl" \in Failures
  /\ initialised' = TRUE
  /\ window' = "open"
  /\ winSize' = InitSize
  /\ closing' = FALSE
  /\ ret' = << "loaded" >>
  /\ Goto("unload")
  /\ UNCHANGED << hostVars, gl, viewVars, clockVars, running, stopAsked >>

Load ==
  /\ CanLoad
  /\ initialised' = TRUE
  /\ window' = "open"
  /\ winSize' = InitSize
  /\ closing' = FALSE
  /\ gl' = TRUE
  /\ managers' = managers + 1
  /\ live' = live \cup (Modules \X {managers'})
  /\ fbo' = InitSize
  /\ stopAsked' = "none"
  /\ CallHook("preHook", "loaded")
  /\ UNCHANGED << ret, hooks, running, prev, now, clockVars >>

(* The host calls Run after Load, and Unload after Run.                    *)
Run ==
  /\ pc = "loaded"
  /\ running' = TRUE
  /\ Goto("cond")
  /\ delta' = 0
  /\ UNCHANGED << ret, hostVars, windowVars, viewVars, frame, initialised, stopAsked >>

(* The host calls Unload.                                                  *)
CallUnload ==
  /\ pc \in {"loaded", "ran"}
  /\ ret' = << "unloaded" >>
  /\ Goto("unload")
  /\ UNCHANGED << hostVars, windowVars, viewVars, clockVars, flagVars >>

(* ~MeridianEngine deletes three of the four managers.                     *)
DeletedModules == {"input", "resource", "graphics"}

Delete ==
  /\ pc \in {"new", "unloaded"}
  /\ Goto("deleted")
  /\ live' = live \ (DeletedModules \X {managers})
  /\ UNCHANGED << ret, hooks, managers, windowVars, viewVars, clockVars, flagVars >>
-----------------------------------------------------------------------------
(* The game loop.  A terminated GLFW answers glfwWindowShouldClose with 0. *)
WindowShouldClose == window = "open" /\ closing

LoopGoesOn_ClosedOnly == ~ WindowShouldClose

LoopGoesOn_EitherWay == running \/ ~ WindowShouldClose

LoopGoesOn == running /\ ~ WindowShouldClose

LoopCondition ==
  /\ pc = "cond"
  /\ IF LoopGoesOn
       THEN Goto("poll") /\ UNCHANGED << stopAsked, delta >>
       ELSE Goto("ran") /\ stopAsked' = "none" /\ delta' = 0
  /\ frame' = NoFrame
  /\ UNCHANGED << ret, hostVars, windowVars, viewVars, initialised, running >>

(* glfwPollEvents: the user resizes, minimises, restores or closes.        *)
PollEvents ==
  /\ pc = "poll"
  /\ IF window = "open"
       THEN winSize' \in Sizes /\ closing' \in {closing, TRUE}
       ELSE UNCHANGED << winSize, closing >>
  /\ Goto("frame")
  /\ UNCHANGED << ret, hostVars, window, gl, viewVars, clockVars, flagVars >>

(* ViewportWhatChanged, its branches in their order.                       *)
WhatChanged_SizeUnseen(p, n) == IF p.pos # n.pos THEN "POSITION" ELSE "NOTHING"

WhatChanged(p, n) ==
  IF p.pos # n.pos THEN "POSITION"
  ELSE IF p.size # n.size THEN "SIZE"
  ELSE IF p.size # n.size /\ p.pos # n.pos THEN "ALL"
  ELSE "NOTHING"

(* The viewport takes the size of the window, and Render recreates the     *)
(* frame buffer in that size if ViewportWhatChanged says SIZE, with an     *)
(* assert that it has an area.  prev is set from now before Render asks.   *)
Resized == WhatChanged(prev', now') = "SIZE"

Render ==
  \/ /\ ~ gl
     /\ Die("noGL")
     /\ UNCHANGED fbo
  \/ /\ gl
     /\ Resized /\ winSize = 0 /\ Asserts
     /\ Die("assert")
     /\ UNCHANGED fbo
  \/ /\ gl
     /\ ~ (Resized /\ winSize = 0 /\ Asserts)
     /\ fbo' = IF Resized THEN winSize ELSE fbo
     /\ CallHook("loopHook", "input")

Frame ==
  /\ pc = "frame"
  /\ prev' = now
  /\ now' = [now EXCEPT !.size = IF window = "open" THEN winSize ELSE 0]
  /\ Render
  /\ UNCHANGED << ret, hostVars, windowVars, clockVars, flagVars >>

(* InputManager::Update, then the clock: m_target is in milliseconds,      *)
(* m_duration in seconds.  Their difference is m_remainder, here in parts  *)
(* of 1000 * Resolution * Frequency, so that it is an integer; Sleep is    *)
(* asked for the whole milliseconds of it, as the conversion to DWORD      *)
(* drops the rest.  A frame without remainder sets m_deltaTime.            *)
Remainder_Milliseconds(d) == 1000000 * Resolution - 1000 * d * Frequency

Remainder(d) == 1000000 * Resolution - d * Frequency

SleepFor_Seconds(d) == Remainder(d) \div (1000000 * Resolution * Frequency)

SleepFor(d) == Remainder(d) \div (1000 * Resolution * Frequency)

EndOfFrame ==
  /\ pc = "input"
  /\ Goto("cond")
  /\ \E d \in Durations :
       IF Remainder(d) > 0
         THEN /\ frame' = [duration |-> d, slept |-> SleepFor(d)]
              /\ UNCHANGED delta
         ELSE /\ frame' = [duration |-> d, slept |-> 0]
              /\ delta' = d * Frequency
  /\ UNCHANGED << ret, hostVars, windowVars, viewVars, flagVars >>
-----------------------------------------------------------------------------
(* What the application's hooks do with the engine.                        *)
Terminate_Unloads ==
  /\ pc \in Hooks
  /\ "Terminate" \in HookCalls
  /\ Len(ret) < MaxCalls
  /\ running' = FALSE
  /\ stopAsked' = pc
  /\ ret' = << pc >> \o ret
  /\ Goto("unload")
  /\ UNCHANGED << hostVars, windowVars, viewVars, clockVars, initialised >>

Terminate ==
  /\ pc \in Hooks
  /\ "Terminate" \in HookCalls
  /\ running' = FALSE
  /\ stopAsked' = pc
  /\ UNCHANGED << pc, ret, fault, hostVars, windowVars, viewVars, clockVars, initialised >>

SetViewport(what, pos, size) ==
  /\ pc \in Hooks
  /\ "SetViewport" \in HookCalls
  /\ now' = IF what \in {"ALL", "POSITION"} THEN [now EXCEPT !.pos = pos] ELSE now
  /\ IF what \in {"ALL", "SIZE"} /\ window = "null"
       THEN Die("nullWindow")
       ELSE UNCHANGED << pc, fault >>
  /\ winSize' = IF what \in {"ALL", "SIZE"} /\ window = "open" THEN size ELSE winSize
  /\ UNCHANGED << ret, hostVars, window, closing, gl, prev, fbo, clockVars, flagVars >>

UnloadFromHook ==
  /\ pc \in Hooks
  /\ "Unload" \in HookCalls
  /\ Len(ret) < MaxCalls
  /\ ret' = << pc >> \o ret
  /\ Goto("unload")
  /\ UNCHANGED << hostVars, windowVars, viewVars, clockVars, flagVars >>

HookReturns ==
  \/ pc = "preHook" /\ Goto("loaded")
  \/ pc = "loopHook" /\ Goto("input")
  \/ pc = "postHook" /\ Goto("finalise")

HookReturn ==
  /\ HookReturns
  /\ UNCHANGED << ret, hostVars, windowVars, viewVars, clockVars, flagVars >>
-----------------------------------------------------------------------------
Return ==
  /\ Goto(Head(ret))
  /\ ret' = Tail(ret)

(* Unload up to and with the post hook.                                    *)
Unload ==
  /\ pc = "unload"
  /\ IF initialised
       THEN CallHook("postHook", "finalise") /\ UNCHANGED ret
       ELSE Return
  /\ UNCHANGED << hostVars, windowVars, viewVars, clockVars, flagVars >>

(* The managers are finalised, which for the graphics are OpenGL calls;    *)
(* then the window and GLFW go.                                            *)
Finalised_StillInitialised == initialised' = initialised /\ window' = "destroyed"

Finalised_KeepsWindow == initialised' = FALSE /\ window' = window

Finalised == initialised' = FALSE /\ window' = "destroyed"

Finalise ==
  /\ pc = "finalise"
  /\ IF gl
       THEN /\ Finalised
            /\ gl' = FALSE
            /\ fbo' = NoFbo
            /\ Return
       ELSE /\ Die("noGL")
            /\ UNCHANGED << initialised, window, gl, fbo, ret >>
  /\ UNCHANGED << hostVars, closing, winSize, prev, now, clockVars, running, stopAsked >>
-----------------------------------------------------------------------------
(* The constructor initialises the two flags and no pointer; the viewports *)
(* are vectors, which initialise themselves.                               *)
Constructed_ViewportUnset ==
  /\ initialised = FALSE /\ running = FALSE
  /\ prev = [pos |-> 0, size |-> -1]

Constructed ==
  /\ initialised = FALSE /\ running = FALSE
  /\ prev = [pos |-> 0, size |-> 0]

Init ==
  /\ pc = "new"
  /\ ret = << >>
  /\ fault = "none"
  /\ hooks = [h \in Hooks |-> "unset"]
  /\ Constructed
  /\ managers = 0
  /\ live = {}
  /\ window = "unset"
  /\ closing = FALSE
  /\ winSize = InitSize
  /\ gl = FALSE
  /\ fbo = NoFbo
  /\ now = prev
  /\ delta = 0
  /\ frame = NoFrame
  /\ stopAsked = "none"

(* The steps the thread takes without anybody deciding anything.           *)
Thread ==
  \/ LoopCondition
  \/ PollEvents
  \/ Frame
  \/ EndOfFrame
  \/ HookReturn
  \/ Unload
  \/ Finalise
  \/ pc = "ran" /\ CallUnload

Next ==
  \/ \E h \in Hooks : HookTo(h)
  \/ LoadWithoutGlfw
  \/ LoadWithoutWindow
  \/ LoadWithoutGL
  \/ Load
  \/ Run
  \/ CallUnload
  \/ Delete
  \/ LoopCondition
  \/ PollEvents
  \/ Frame
  \/ EndOfFrame
  \/ Terminate
  \/ \E what \in {"ALL", "POSITION", "SIZE"}, pos \in Positions, size \in Sizes :
       SetViewport(what, pos, size)
  \/ UnloadFromHook
  \/ HookReturn
  \/ Unload
  \/ Finalise

(* The thread keeps running, a hook returns, and a host whose Run has      *)
(* returned calls Unload, as Main.cpp does in straight-line code.          *)
Spec == Init /\ [][Next]_vars /\ WF_vars(Thread)
-----------------------------------------------------------------------------
(* Every variable has its type, and the thread is dead exactly when some   *)
(* fault killed it.                                                        *)
Faults == {"noGlfw", "noGL", "nullWindow", "nullHook", "assert"}

Viewport == [pos : Positions, size : Sizes \cup {0}]

TypeOK ==
  /\ pc \in Pcs
  /\ ret \in Seq(Pcs)
  /\ fault \in Faults \cup {"none"}
  /\ pc = "dead" <=> fault # "none"
  /\ hooks \in [Hooks -> {"set", "unset"}]
  /\ initialised \in BOOLEAN
  /\ running \in BOOLEAN
  /\ managers \in 0 .. MaxLoads
  /\ live \subseteq Modules \X (1 .. MaxLoads)
  /\ window \in {"unset", "null", "open", "destroyed"}
  /\ closing \in BOOLEAN
  /\ winSize \in Sizes
  /\ gl \in BOOLEAN
  /\ fbo \in Sizes \cup {0, NoFbo}
  /\ prev \in Viewport
  /\ now \in Viewport
  /\ delta \in Nat
  /\ frame \in [duration : Nat, slept : Nat]
  /\ stopAsked \in Hooks \cup {"none"}

(* Whatever the hooks and the user do, the host's calls, the loop and all  *)
(* three hooks only ever meet a whole engine: a window that is open, an    *)
(* OpenGL context, a frame buffer, and the managers of the last Load.      *)
Whole ==
  /\ initialised
  /\ window = "open"
  /\ gl
  /\ fbo # NoFbo
  /\ Modules \X {managers} \subseteq live

InUsePcs == LoopPcs \cup Hooks \cup {"loaded", "ran", "unload", "finalise"}

WholeEngineInUse == pc \in InUsePcs => Whole

(* Terminate: "Kill the game loop by the next iteration."  Called by the   *)
(* loop hook, not one more event is polled and not one more frame drawn.   *)
TerminateEndsLoop == stopAsked = "loopHook" => pc \notin {"poll", "frame"}

(* Every frame the application sees was drawn through a frame buffer as    *)
(* large as the window was, whatever resizes, minimisations and calls of   *)
(* SetViewport came before, unless the hook itself has unloaded it.        *)
FboMatchesWindow ==
  pc \in {"loopHook", "input"} /\ gl /\ now.size # 0 => fbo = now.size

(* In a later life of the engine Render compares with the viewport of the  *)
(* life before, and may miss that the window is larger than Load's frame   *)
(* buffer; but that is the only wrong size it ever draws through.          *)
FboIsWindowsOrLoads ==
  pc \in {"loopHook", "input"} /\ gl /\ now.size # 0 =>
    fbo = now.size \/ (managers > 1 /\ fbo = InitSize)

(* The work of a tick and the sleep it asks for fill the target but for    *)
(* less than a millisecond, in spite of the mixed units: what the sleep    *)
(* of a short tick is cut by, and a tick without a sleep is long.          *)
NeverTooFast ==
  [][pc = "input" /\ pc' = "cond" =>
       (frame'.duration + (frame'.slept + 1) * Resolution) * Frequency
         > 1000 * Resolution]_vars

(* An engine that is whole survives every step, if nobody unloads it from  *)
(* a hook: null hooks are skipped, a hook's Terminate and SetViewport are  *)
(* safe at any point.                                                      *)
WholeEngineSurvives == [][Whole => pc' # "dead"]_vars

(* A user who closes the window gets the engine unloaded: the loop ends,   *)
(* and no resize, hook call or Terminate keeps the host from Unload.       *)
ClosedWindowUnloads == closing /\ pc \in LoopPcs ~> pc = "unloaded"

(* Terminate, called by the loop hook, lets "the program ... progress and  *)
(* hit Unload", although the window stays open.                            *)
TerminateUnloads == stopAsked = "loopHook" ~> pc = "unloaded"

(* Outside Unload the engine owns its window, context and frame buffer all *)
(* together or not at all, and m_isInitialised says which, even when hooks *)
(* call Unload, at any depth.  (A Load that fails half way dies in Unload; *)
(* of that FailedWindowUnloads speaks.)                                    *)
Resources == {"window", "context", "frame buffer"}

Owned ==
  {r \in Resources :
     CASE r = "window"  -> window = "open"
       [] r = "context" -> gl
       [] OTHER         -> fbo # NoFbo}

AllOrNothing ==
  pc \in HostPcs \cup LoopPcs \cup {"preHook"} =>
    Owned = IF initialised THEN Resources ELSE {}

(* The engine implements the lifecycle its documentation promises.         *)
Life ==
  IF pc \in LoopPcs THEN "looping" ELSE IF initialised THEN "up" ELSE "down"

Lifecycle == INSTANCE EngineLifecycle WITH life <- Life, owned <- Owned

ImplementsLifecycle == Lifecycle!Spec
-----------------------------------------------------------------------------
(* What the repository says of the engine and its code does not do.        *)

(* Meridian.cpp, in Load: "If the window was not successfully created,     *)
(* unload the engine."  So the failed Load returns to its host.            *)
FailedWindowUnloads == window = "null" => pc # "dead"

(* ModuleGraphics.cpp, before an assert: "Make sure the size of the fbo is *)
(* at least 1 pixel".  The window a user minimises has none.               *)
FboHasPixels == fault # "assert"

(* Meridian.hpp, of the mode Main.cpp runs in: "If the FPS drops below the *)
(* target, deltatime is used".  So after a frame that took longer than the *)
(* target the delta is that of this frame, and the loop does not sleep.    *)
SlowFrameIsTimed ==
  [][pc = "input" /\ frame'.duration * Frequency > 1000 * Resolution =>
       delta' = frame'.duration * Frequency /\ frame'.slept = 0]_vars
=============================================================================
