-------------------------- MODULE MCGraphicsManager --------------------------
(* One frame buffer and one texture of the application's, beside the       *)
(* engine's; the names are interchangeable.                                *)
EXTENDS GraphicsManager, TLC

CONSTANTS AppFbo, AppAsset

MCFbos == {EngineFbo, AppFbo}
MCAssets == {EngineAsset, AppAsset}
MCGarbage == Textures \cup {NoName}
MCSymmetry ==
  Permutations(Textures) \cup Permutations(Renderbuffers) \cup Permutations(Framebuffers)
=============================================================================
