SPECIFICATION Spec
CONSTANTS
  Textures = {x1, x2, x3, x4}
  Renderbuffers = {r1, r2, r3}
  Framebuffers = {f1, f2}
  NoName = NoName
  EngineFbo = EngineFbo
  AppFbo = AppFbo
  EngineAsset = EngineAsset
  AppAsset = AppAsset
  Fbos <- MCFbos
  Assets <- MCAssets
  MaxColours = 2
  Garbage <- MCGarbage
SYMMETRY MCSymmetry
INVARIANTS
  TypeOK
  HandlesLive
  OnlyUnsetStrays
  ResizeLeaksDepth
PROPERTY DrawsAsMeant
