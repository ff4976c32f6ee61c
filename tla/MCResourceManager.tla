-------------------------- MODULE MCResourceManager --------------------------
(* Three assets, the engine's own between the others in the map; each      *)
(* image may be edited once.                                               *)
EXTENDS ResourceManager

MCNames == {1, 2, 3}
MCDiskFailures == {"mkdir", "write"}
MCDocumentedOps == {"Create", "Save", "Load"}
MCAllOps == {"Create", "Save", "Load", "Clear"}
=============================================================================
