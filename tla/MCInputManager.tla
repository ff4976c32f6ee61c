--------------------------- MODULE MCInputManager ---------------------------
(* Two keys inside the table, the last one its last entry, and cursors on  *)
(* both sides of the window's origin.                                      *)
EXTENDS InputManager

MCKeys == {65, 347}
MCCursorPositions == {<< -2, 1 >>, << 3, -1 >>, << 0, 2 >>}

(* Every code GLFW reports at the ends of the table: GLFW_KEY_UNKNOWN,     *)
(* the first and last entries, and GLFW_KEY_LAST.                          *)
MCBoundaryKeys == {-1, 0, 347, 348}
MCOneCursor == {<< 0, 0 >>}
=============================================================================
