--------------------------- MODULE GraphicsManager ---------------------------
(***************************************************************************)
(* The OpenGL objects of GraphicsManager: the frame buffer and the texture *)
(* the engine draws with, and those the application's hooks make through   *)
(* the manager's public functions between two frames.  OpenGL is external: *)
(* it hands out names that are not in use, unbinds what is deleted and     *)
(* ignores the deletion of what does not exist.  Load asks for no core     *)
(* profile, so binding a texture's name that is not in use makes a texture *)
(* of it; the name of a frame buffer that is not one is refused.           *)
(*                                                                         *)
(* Of the texture units the shaders sample unit 0, the others are one.     *)
(* The programs, their shaders and the vertex array are made once, by      *)
(* Initialise, and are left out.                                           *)
(***************************************************************************)
EXTENDS Integers, Sequences, FiniteSets

CONSTANTS
  Textures,         (* the names OpenGL hands out for textures             *)
  Renderbuffers,    (* for renderbuffers                                   *)
  Framebuffers,     (* and for frame buffers                               *)
  NoName,           (* 0, the name of no object                            *)
  Fbos,             (* the variables that hold a FrameBufferObject         *)
  EngineFbo,        (* the global fbo of ModuleGraphics.cpp                *)
  Assets,           (* the AssetTextures                                   *)
  EngineAsset,      (* the one t of ModuleGraphics.cpp points to           *)
  MaxColours,       (* bound: the colour attachments of a frame buffer     *)
  Garbage           (* what the m_tHandle CreateDepth leaves unset holds   *)

ASSUME NamesAssumption   ==
  /\ NoName \notin Textures \cup Renderbuffers \cup Framebuffers
  /\ IsFiniteSet(Renderbuffers)
ASSUME FbosAssumption    == EngineFbo \in Fbos /\ IsFiniteSet(Fbos)
ASSUME AssetsAssumption  == EngineAsset \in Assets
ASSUME ColoursAssumption == MaxColours \in Nat \ {0}
ASSUME GarbageAssumption == Garbage \subseteq Textures \cup {NoName}

VARIABLES
  pc,             (* "off", "initialise", "hook", "frame", "scene", "screen" *)
  textures,       (* external: the names of the textures that exist          *)
  renderbuffers,  (* external: likewise                                      *)
  framebuffers,   (* external: likewise                                      *)
  bound,          (* external: the frame buffer drawn to, NoName: the screen *)
  unit0,          (* external: the texture bound to unit 0                   *)
  atUnit0,        (* external: unit 0 is the active one                      *)
  fbo,            (* the FrameBufferObjects                                  *)
  handle,         (* m_glTextureHandle of the AssetTextures                  *)
  made,           (* history: the AssetTextures with a texture               *)
  resizes,        (* history: the resizes of FBOs with depth                 *)
  struck          (* history: an unset m_tHandle has deleted another's one *)

objectVars == << textures, renderbuffers, framebuffers >>
boundVars  == << bound, unit0, atUnit0 >>
assetVars  == << handle, made >>
histVars   == << resizes, struck >>
vars == << pc, objectVars, boundVars, fbo, assetVars, histVars >>

NoFbo == [handle |-> NoName, colours |-> << >>, depth |-> NoName, unset |-> NoName]

Colours(x)  == {fbo[x].colours[i] : i \in DOMAIN fbo[x].colours}
HasDepth(x) == fbo[x].depth # NoName

(* The frame buffer bound by asking for h, and the textures there are when *)
(* names have been bound.                                                  *)
BindFrame(h) == IF h \in framebuffers \cup {NoName} THEN h ELSE bound

BindTextures(names) == textures \cup (names \ {NoName})

(* Creating a texture binds and unbinds it at the active unit; a texture   *)
(* deleted before that is no longer bound to any.                          *)
Unit0After(left) == IF atUnit0 \/ unit0 \notin left THEN NoName ELSE unit0

Fresh(n, S) ==
  {c \in [1 .. n -> S] : \A i, j \in 1 .. n : c[i] = c[j] => i = j}
-----------------------------------------------------------------------------
(* CreateFrameBufferObject, when texs and fbs are left of the textures and *)
(* frame buffers: n colour attachments, and a depth attachment with the    *)
(* m_tHandle unset if depths offers names for it.                          *)
Assigned_NotBack(x, new) == IF fbo[x] = NoFbo THEN [fbo EXCEPT ![x] = new] ELSE fbo

Assigned(x, new) == [fbo EXCEPT ![x] = new]

CreateFbo(x, n, depths, unset, texs, fbs) ==
  \E colours \in Fresh(n, Textures \ texs), h \in Framebuffers \ fbs, depth \in depths :
    /\ textures' = texs \cup {colours[i] : i \in 1 .. n}
    /\ framebuffers' = fbs \cup {h}
    /\ renderbuffers' = renderbuffers \cup ({depth} \ {NoName})
    /\ bound' = NoName
    /\ unit0' = Unit0After(texs)
    /\ fbo' = Assigned(x, [handle |-> h, colours |-> colours,
                           depth |-> depth, unset |-> unset])
    /\ UNCHANGED atUnit0

WithDepth    == Renderbuffers \ renderbuffers
WithoutDepth == {NoName}

CreateFrameBufferObject(x, n) ==
  \/ CreateFbo(x, n, WithoutDepth, NoName, textures, framebuffers)
  \/ \E unset \in Garbage : CreateFbo(x, n, WithDepth, unset, textures, framebuffers)

(* ResizeFrameBufferObject takes the depth attachment out, deletes the     *)
(* rest and creates it all anew; so the depth renderbuffer stays behind.   *)
ResizeDeletes_Depth(x) == Colours(x) \cup {fbo[x].unset}

ResizeDeletes_Nothing(x) == {}

ResizeDeletes(x) == Colours(x)

ResizeFrameBufferObject(x) ==
  /\ CreateFbo(x, Len(fbo[x].colours),
               IF HasDepth(x) THEN WithDepth ELSE WithoutDepth, fbo[x].unset,
               textures \ ResizeDeletes(x), framebuffers \ {fbo[x].handle})
  /\ resizes' = IF HasDepth(x) THEN resizes + 1 ELSE resizes
  /\ UNCHANGED << assetVars, struck >>

(* DeleteFrameBufferObject deletes both handles of every attachment, the   *)
(* unset one of the depth attachment too, whosever texture it names.       *)
DeletedDepth_Kept(x) == {}

DeletedDepth(x) == {fbo[x].depth}

OthersTextures(x) ==
  (UNION {Colours(y) : y \in Fbos \ {x}}) \cup {handle[a] : a \in made}

DeleteFrameBufferObject(x) ==
  LET left == textures \ (Colours(x) \cup {fbo[x].unset})
  IN  /\ textures' = left
      /\ renderbuffers' = renderbuffers \ DeletedDepth(x)
      /\ framebuffers' = framebuffers \ {fbo[x].handle}
      /\ bound' = NoName
      /\ unit0' = IF unit0 \in left THEN unit0 ELSE NoName
      /\ fbo' = [fbo EXCEPT ![x] = NoFbo]
      /\ struck' = (struck \/ fbo[x].unset \in OthersTextures(x))
      /\ UNCHANGED << atUnit0, assetVars, resizes >>

(* It binds every attachment, the depth attachment's unset m_tHandle too,  *)
(* to the unit of its place among them.                                    *)
BindFrameBufferObjectTexture(x) ==
  /\ textures' = BindTextures(Colours(x) \cup {fbo[x].unset})
  /\ unit0' = fbo[x].colours[1]
  /\ atUnit0' = (Len(fbo[x].colours) = 1 /\ ~ HasDepth(x))

CreateTexture(a) ==
  /\ \E name \in Textures \ textures :
       /\ textures' = textures \cup {name}
       /\ handle' = [handle EXCEPT ![a] = name]
  /\ unit0' = Unit0After(textures)
  /\ made' = made \cup {a}
  /\ UNCHANGED << renderbuffers, framebuffers, bound, atUnit0, fbo, histVars >>

(* To unit 0.                                                              *)
BindTexture(a) ==
  /\ textures' = BindTextures({handle[a]})
  /\ unit0' = handle[a]

DeleteTexture(a) ==
  /\ textures' = textures \ {handle[a]}
  /\ unit0' = IF unit0 = handle[a] THEN NoName ELSE unit0
  /\ made' = made \ {a}
  /\ UNCHANGED << renderbuffers, framebuffers, bound, atUnit0, fbo, handle, histVars >>
-----------------------------------------------------------------------------
(* Initialise creates the frame buffer, then the texture.                  *)
Initialise ==
  /\ pc = "off"
  /\ pc' = "initialise"
  /\ \E unset \in Garbage :
       CreateFbo(EngineFbo, 1, WithDepth, unset, textures, framebuffers)
  /\ UNCHANGED << assetVars, histVars >>

InitialiseTexture ==
  /\ pc = "initialise"
  /\ pc' = "hook"
  /\ CreateTexture(EngineAsset)

(* Render: a resize, if ViewportWhatChanged says so, the scene into the    *)
(* frame buffer, the frame buffer onto the screen.                         *)
RenderResize ==
  /\ pc = "frame"
  /\ pc' = "scene"
  /\ \/ ResizeFrameBufferObject(EngineFbo)
     \/ UNCHANGED << objectVars, boundVars, fbo, assetVars, histVars >>

RenderScene ==
  /\ pc = "scene"
  /\ pc' = "screen"
  /\ bound' = BindFrame(fbo[EngineFbo].handle)
  /\ BindTexture(EngineAsset)
  /\ atUnit0' = TRUE
  /\ UNCHANGED << renderbuffers, framebuffers, fbo, assetVars, histVars >>

RenderScreen ==
  /\ pc = "screen"
  /\ pc' = "hook"
  /\ bound' = NoName
  /\ BindFrameBufferObjectTexture(EngineFbo)
  /\ UNCHANGED << renderbuffers, framebuffers, fbo, assetVars, histVars >>

(* A hook returns, and the next frame comes.                               *)
HookReturn ==
  /\ pc = "hook"
  /\ pc' = "frame"
  /\ UNCHANGED << objectVars, boundVars, fbo, assetVars, histVars >>

(* The hooks use the manager with their own variables: what they create    *)
(* exists only once per variable, and they use nothing they have deleted.  *)
HookUsesFbo(x) ==
  /\ pc = "hook"
  /\ UNCHANGED pc
  /\ \/ /\ fbo[x] = NoFbo
        /\ \E n \in 1 .. MaxColours : CreateFrameBufferObject(x, n)
        /\ UNCHANGED << assetVars, histVars >>
     \/ fbo[x] # NoFbo /\ ResizeFrameBufferObject(x)
     \/ fbo[x] # NoFbo /\ DeleteFrameBufferObject(x)
     \/ /\ fbo[x] # NoFbo
        /\ bound' \in {BindFrame(fbo[x].handle), NoName}
        /\ UNCHANGED << objectVars, unit0, atUnit0, fbo, assetVars, histVars >>
     \/ /\ fbo[x] # NoFbo
        /\ BindFrameBufferObjectTexture(x)
        /\ UNCHANGED << renderbuffers, framebuffers, bound, fbo, assetVars, histVars >>

HookUsesTexture(a) ==
  /\ pc = "hook"
  /\ UNCHANGED pc
  /\ \/ a \notin made /\ CreateTexture(a)
     \/ a \in made /\ DeleteTexture(a)
     \/ /\ a \in made
        /\ \/ atUnit0' = TRUE /\ BindTexture(a)
           \/ /\ atUnit0' = FALSE
              /\ textures' = BindTextures({handle[a]})
              /\ UNCHANGED unit0
        /\ UNCHANGED << renderbuffers, framebuffers, bound, fbo, assetVars, histVars >>

(* The post hook has run: what Finalise does not delete goes with the      *)
(* context, a few lines later, and the application lets go of its own.     *)
NewHandle_Unset == "unset"

NewHandle == NoName

NoHandles == [a \in Assets |-> NewHandle]

Finalise ==
  /\ pc = "hook"
  /\ pc' = "off"
  /\ textures' = {} /\ renderbuffers' = {} /\ framebuffers' = {}
  /\ bound' = NoName /\ unit0' = NoName /\ atUnit0' = TRUE
  /\ fbo' = [x \in Fbos |-> NoFbo]
  /\ handle' = NoHandles
  /\ made' = {}
  /\ resizes' = 0
  /\ struck' = FALSE

Init ==
  /\ pc = "off"
  /\ textures = {} /\ renderbuffers = {} /\ framebuffers = {}
  /\ bound = NoName /\ unit0 = NoName /\ atUnit0 = TRUE
  /\ fbo = [x \in Fbos |-> NoFbo]
  /\ handle = NoHandles
  /\ made = {}
  /\ resizes = 0
  /\ struck = FALSE

Next ==
  \/ Initialise
  \/ InitialiseTexture
  \/ RenderResize
  \/ RenderScene
  \/ RenderScreen
  \/ HookReturn
  \/ \E x \in Fbos \ {EngineFbo} : HookUsesFbo(x)
  \/ \E a \in Assets \ {EngineAsset} : HookUsesTexture(a)
  \/ Finalise

Spec == Init /\ [][Next]_vars
-----------------------------------------------------------------------------
(* Every variable has its type; a frame buffer object has a handle exactly *)
(* when it has colour attachments.                                         *)
Fbo ==
  [handle : Framebuffers \cup {NoName}, colours : Seq(Textures),
   depth : Renderbuffers \cup {NoName}, unset : Garbage \cup {NoName}]

TypeOK ==
  /\ pc \in {"off", "initialise", "hook", "frame", "scene", "screen"}
  /\ textures \subseteq Textures
  /\ renderbuffers \subseteq Renderbuffers
  /\ framebuffers \subseteq Framebuffers
  /\ bound \in Framebuffers \cup {NoName}
  /\ unit0 \in Textures \cup {NoName}
  /\ atUnit0 \in BOOLEAN
  /\ fbo \in [Fbos -> Fbo]
  /\ \A x \in Fbos : fbo[x].handle = NoName <=> fbo[x].colours = << >>
  /\ handle \in [Assets -> Textures \cup {NoName}]
  /\ made \subseteq Assets
  /\ resizes \in Nat
  /\ struck \in BOOLEAN

(* Through any sequence of creations, resizes and deletions every object   *)
(* that a FrameBufferObject or an AssetTexture holds exists, as long as no *)
(* unset m_tHandle has deleted a texture.                                  *)
Handles(kind) ==
  LET used == {x \in Fbos : fbo[x] # NoFbo}
  IN  CASE kind = "texture" ->
              (UNION {Colours(x) : x \in used}) \cup {handle[a] : a \in made}
        [] kind = "renderbuffer" -> {fbo[x].depth : x \in used} \ {NoName}
        [] kind = "framebuffer" -> {fbo[x].handle : x \in used}

HandlesLive ==
  ~ struck =>
    /\ Handles("texture") \subseteq textures
    /\ Handles("renderbuffer") \subseteq renderbuffers
    /\ Handles("framebuffer") \subseteq framebuffers

(* No frame buffer leaks, and of the textures only one that binding the    *)
(* unset m_tHandle of a frame buffer still in use has made; resizes, and   *)
(* deletions of anything, leave no other behind.  None has two owners.     *)
OnlyUnsetStrays ==
  ~ struck =>
    /\ textures \subseteq Handles("texture") \cup {fbo[x].unset : x \in Fbos}
    /\ framebuffers \subseteq Handles("framebuffer")
    /\ \A x, y \in Fbos : x # y => Colours(x) \cap Colours(y) = {}
    /\ \A x \in Fbos, a \in made : handle[a] \notin Colours(x)

(* What leaks is exactly one renderbuffer with each resize of a frame      *)
(* buffer with depth, and nothing ever gives one of these back.            *)
ResizeLeaksDepth ==
  Cardinality(renderbuffers) =
    resizes + Cardinality({x \in Fbos : HasDepth(x)})

(* Whatever the hooks have bound, created and deleted before, the scene is *)
(* drawn with the engine's texture, the one its image went to and none a   *)
(* bind has made in its place, into the engine's frame buffer, and the     *)
(* screen with that frame buffer's colours: never one onto itself.         *)
DrawsAsMeant ==
  [][~ struck =>
       /\ pc = "scene" =>
            /\ bound' = fbo[EngineFbo].handle
            /\ unit0' = handle[EngineAsset]
            /\ unit0' \in textures \ Colours(EngineFbo)
       /\ pc = "screen" =>
            bound' = NoName /\ unit0' \in textures \cap Colours(EngineFbo)]_vars
=============================================================================
