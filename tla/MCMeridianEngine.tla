-------------------------- MODULE MCMeridianEngine --------------------------
(* Three areas of a window: minimised, the one Load gives it, another; two *)
(* positions of the viewport; ticks, in tenths of a millisecond, that take *)
(* less than one, that are short, that miss the target of a display of     *)
(* 60 Hz, and that take 17 seconds.                                        *)
EXTENDS MeridianEngine

MCSizes == 0 .. 2
MCUsedSizes == {1, 2}
MCInitSize == 1
MCPositions == {0, 1}

MCNoFailures == {}
MCAllFailures == {"glfw", "window", "gl"}
MCWindowFails == {"window"}
MCDocumentedCalls == {"Terminate", "SetViewport"}
MCAllCalls == {"Terminate", "SetViewport", "Unload"}

MCShort == {10}
MCAnyDuration == {3, 10, 400, 170000}
=============================================================================
