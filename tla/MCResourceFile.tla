--------------------------- MODULE MCResourceFile ---------------------------
(* Two assets; images of one grey pixel, of a few with rows of 12 and of 9 *)
(* bytes, of the most that fit and of one column too many, and one that is *)
(* gone; assets of the application without bytes, with some, and with one  *)
(* byte more than a block may have.  Uninitialised sizes are out of range, *)
(* in range, or in range with no channel.                                  *)
EXTENDS ResourceFile

MCNames == {1, 2}
MCPicture ==
  [dot   |-> [width |-> 1, height |-> 1, channels |-> 1],
   tree  |-> [width |-> 4, height |-> 2, channels |-> 3],
   odd   |-> [width |-> 3, height |-> 2, channels |-> 3],
   large |-> [width |-> 4095, height |-> 4095, channels |-> 4],
   wide  |-> [width |-> 4096, height |-> 1, channels |-> 3]]
MCUnreadable == {"gone"}
MCLeftovers ==
  {[width |-> -858993460, height |-> -858993460, channels |-> -858993460],
   [width |-> 2, height |-> 1, channels |-> 3],
   [width |-> 2, height |-> 1, channels |-> 0]}
MCPayloads == {0, 10, BlockLimit - HeaderSize}
=============================================================================
