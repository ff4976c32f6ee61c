------------------------ MODULE GraphicsManagerProofs ------------------------
(***************************************************************************)
(* Theorems about GraphicsManager, for all names OpenGL hands out, all     *)
(* FrameBufferObjects and AssetTextures and all numbers of attachments:    *)
(* the types and every property its run checks.  All rest on one inductive *)
(* invariant, IInv: textures and frame buffers are partitioned among their *)
(* owners, but for what binding unset handles has made, and the            *)
(* renderbuffers owned are counted with those resizes leave behind.        *)
(***************************************************************************)
EXTENDS GraphicsManager, TLAPS, FiniteSetTheorems

(* The objects T, without some of the strays U, are partitioned: each      *)
(* belongs to one variable x, which has C[x], or to one of the assets M,   *)
(* which has only its handle H[a].                                         *)
Partition(T, C, H, M, U) ==
  /\ \A x \in Fbos : C[x] \subseteq T
  /\ \A a \in M : H[a] \in T
  /\ \A o \in T : o \in U \/ (\E x \in Fbos : o \in C[x]) \/ (\E a \in M : o = H[a])
  /\ \A x, y \in Fbos : x # y => C[x] \cap C[y] = {}
  /\ \A x \in Fbos, a \in M : H[a] \notin C[x]
  /\ \A a, b \in M : H[a] = H[b] => a = b
-----------------------------------------------------------------------------
(* A variable gives what it has back, with strays R that nobody else has,  *)
(* and takes objects nobody has.                                           *)
LEMMA PartitionReplace ==
  ASSUME NEW T, NEW C, NEW H, NEW M, NEW U, NEW D, NEW N, NEW R, NEW V, NEW x \in Fbos,
         Partition(T, C, H, M, U), N \cap (T \ C[x]) = {},
         \A y \in Fbos \ {x} : C[y] \cap R = {},
         \A a \in M : H[a] \notin R,
         \A o \in (T \ C[x]) \ R : o \in U => o \in V,
         D[x] = N, \A y \in Fbos \ {x} : D[y] = C[y]
  PROVE  Partition(((T \ C[x]) \ R) \cup N, D, H, M, V)
  <1> DEFINE S == ((T \ C[x]) \ R) \cup N
  <1>1. \A y \in Fbos \ {x} : C[y] \subseteq (T \ C[x]) \ R /\ D[y] \cap N = {}
    BY DEF Partition
  <1>2. \A y \in Fbos : D[y] \subseteq S
    BY <1>1
  <1>3. \A a \in M : H[a] \in S /\ H[a] \notin N /\ \A y \in Fbos : H[a] \notin D[y]
    BY DEF Partition
  <1>4. \A o \in S : o \in V \/ (\E y \in Fbos : o \in D[y]) \/ (\E a \in M : o = H[a])
    BY DEF Partition
  <1>5. \A y, z \in Fbos : y # z => D[y] \cap D[z] = {}
    BY <1>1 DEF Partition
  <1>6. \A a, b \in M : H[a] = H[b] => a = b
    BY DEF Partition
  <1> QED
    BY <1>2, <1>3, <1>4, <1>5, <1>6 DEF Partition

(* Strays may come.                                                        *)
LEMMA PartitionGrow ==
  ASSUME NEW T, NEW C, NEW H, NEW M, NEW U, NEW S, Partition(T, C, H, M, U),
         T \subseteq S, S \subseteq T \cup U
  PROVE  Partition(S, C, H, M, U)
  BY DEF Partition

(* An asset gets an object that did not exist, or gives its own back.      *)
LEMMA PartitionAdd ==
  ASSUME NEW T, NEW C, NEW H, NEW G, NEW M, NEW U, NEW a, NEW o,
         Partition(T, C, H, M, U), a \notin M, o \notin T,
         G[a] = o, \A b \in M : G[b] = H[b]
  PROVE  Partition(T \cup {o}, C, G, M \cup {a}, U)
  BY DEF Partition

LEMMA PartitionRemove ==
  ASSUME NEW T, NEW C, NEW H, NEW M, NEW U, NEW a \in M, Partition(T, C, H, M, U)
  PROVE  Partition(T \ {H[a]}, C, H, M \ {a}, U)
  BY DEF Partition

LEMMA PartitionEmpty ==
  ASSUME NEW C, NEW H, NEW U, \A x \in Fbos : C[x] = {}
  PROVE  Partition({}, C, H, {}, U)
  BY DEF Partition
-----------------------------------------------------------------------------
(* The inductive invariant.                                                *)
ColoursOf == [x \in Fbos |-> Colours(x)]
FramesOf  == [x \in Fbos |-> {fbo[x].handle} \ {NoName}]
Unsets    == {fbo[x].unset : x \in Fbos}

(* An FBO without a handle has nothing.                                    *)
ShapeInv == \A x \in Fbos : fbo[x].handle = NoName => fbo[x] = NoFbo

(* The engine has its frame buffer, then its texture too.                  *)
PhaseInv ==
  /\ pc = "off" <=> fbo[EngineFbo] = NoFbo
  /\ pc \in {"off", "initialise"} => made = {}
  /\ pc \notin {"off", "initialise"} => EngineAsset \in made

TexturesInv == ~ struck => Partition(textures, ColoursOf, handle, made, Unsets)

FramesInv == Partition(framebuffers, FramesOf, handle, {}, {})

DepthsInv ==
  /\ \A x \in Fbos : HasDepth(x) => fbo[x].depth \in renderbuffers
  /\ \A x, y \in Fbos : HasDepth(x) /\ fbo[x].depth = fbo[y].depth => x = y
  /\ ResizeLeaksDepth

IInv ==
  /\ TypeOK
  /\ ShapeInv
  /\ PhaseInv
  /\ TexturesInv
  /\ FramesInv
  /\ DepthsInv

(* What an FBO in use, and one not in use, has.                            *)
LEMMA Shapes ==
  ASSUME TypeOK, ShapeInv, NEW x \in Fbos
  PROVE  /\ fbo[x] = NoFbo =>
              /\ fbo[x].handle = NoName /\ Colours(x) = {} /\ ~ HasDepth(x)
              /\ fbo[x].unset = NoName
         /\ fbo[x] # NoFbo =>
              /\ fbo[x].handle \in Framebuffers /\ fbo[x].handle # NoName
              /\ Len(fbo[x].colours) \in Nat \ {0}
              /\ fbo[x].colours[1] \in Colours(x)
         /\ fbo[x] \in Fbo /\ Colours(x) \subseteq Textures
  <1>1. fbo[x] \in Fbo
    BY DEF TypeOK
  <1>2. Colours(x) \subseteq Textures
    BY <1>1 DEF Fbo, Colours
  <1>3. CASE fbo[x] = NoFbo
    BY <1>1, <1>2, <1>3 DEF NoFbo, Colours, HasDepth
  <1>4. CASE fbo[x] # NoFbo
    <2>1. fbo[x].handle # NoName
      BY <1>4 DEF ShapeInv
    <2>2. fbo[x].handle \in Framebuffers
      BY <1>1, <2>1 DEF Fbo
    <2>3. fbo[x].colours \in Seq(Textures) /\ fbo[x].colours # << >>
      BY <1>1, <2>1 DEF TypeOK, Fbo
    <2>4. Len(fbo[x].colours) \in Nat \ {0} /\ 1 \in DOMAIN fbo[x].colours
      BY <2>3
    <2> QED
      BY <1>1, <1>2, <1>4, <2>1, <2>2, <2>4 DEF Colours
  <1> QED
    BY <1>3, <1>4

(* Nothing has been made.                                                  *)
Emptied ==
  /\ pc = "off"
  /\ textures = {} /\ renderbuffers = {} /\ framebuffers = {}
  /\ bound = NoName /\ unit0 = NoName /\ atUnit0 = TRUE
  /\ fbo = [x \in Fbos |-> NoFbo]
  /\ handle = NoHandles
  /\ made = {}
  /\ resizes = 0
  /\ struck = FALSE

LEMMA EmptiedIInv == Emptied => IInv
  <1> SUFFICES ASSUME Emptied
               PROVE  IInv
    OBVIOUS
  <1> USE DEF Emptied
  <1>1. TypeOK
    <2>1. NoFbo \in Fbo /\ NoFbo.handle = NoName /\ NoFbo.colours = << >>
      BY DEF NoFbo, Fbo
    <2> QED
      BY <2>1 DEF TypeOK, NoHandles, NewHandle
  <1>2. \A x \in Fbos : fbo[x] = NoFbo
    OBVIOUS
  <1>3. ShapeInv
    BY <1>2 DEF ShapeInv
  <1>4. PhaseInv
    BY <1>2, FbosAssumption DEF PhaseInv
  <1>5. \A x \in Fbos : fbo[x].handle = NoName /\ Colours(x) = {} /\ ~ HasDepth(x)
    BY <1>1, <1>2, <1>3, Shapes
  <1>6. TexturesInv
    <2>1. \A x \in Fbos : ColoursOf[x] = {}
      BY <1>5 DEF ColoursOf
    <2> QED
      BY <2>1, PartitionEmpty DEF TexturesInv
  <1>7. FramesInv
    <2>1. \A x \in Fbos : FramesOf[x] = {}
      BY <1>5 DEF FramesOf
    <2> QED
      BY <2>1, PartitionEmpty DEF FramesInv
  <1>8. DepthsInv
    <2>1. {x \in Fbos : HasDepth(x)} = {}
      BY <1>5
    <2>2. ResizeLeaksDepth
      BY <2>1, FS_EmptySet DEF ResizeLeaksDepth
    <2> QED
      BY <1>5, <2>2 DEF DepthsInv
  <1> QED
    BY <1>1, <1>3, <1>4, <1>6, <1>7, <1>8 DEF IInv

LEMMA InitIInv == Init => IInv
  BY EmptiedIInv DEF Init, Emptied

LEMMA FinaliseIInv == Finalise => IInv'
  <1>1. Finalise => Emptied'
    BY DEF Finalise, Emptied, NoHandles, NewHandle
  <1> QED
    BY <1>1, EmptiedIInv, PTL
-----------------------------------------------------------------------------
(* Creating or recreating an FBO: x gives its colours and its frame buffer *)
(* back, if it has them, and gets others.                                  *)
LEMMA CreateFboKeeps ==
  ASSUME IInv, NEW x \in Fbos, NEW n \in Nat \ {0}, NEW unset \in Garbage \cup {NoName},
         NEW depths \in SUBSET (Renderbuffers \cup {NoName}),
         CreateFbo(x, n, depths, unset, textures \ Colours(x), framebuffers \ {fbo[x].handle}),
         fbo[x].unset \in {unset, NoName}, UNCHANGED << handle, made, struck >>
  PROVE  /\ textures' \subseteq Textures /\ framebuffers' \subseteq Framebuffers
         /\ bound' = NoName /\ unit0' \in Textures \cup {NoName} /\ atUnit0' \in BOOLEAN
         /\ fbo' \in [Fbos -> Fbo]
         /\ \A y \in Fbos : fbo'[y].handle = NoName <=> fbo'[y].colours = << >>
         /\ fbo'[x] # NoFbo /\ \A y \in Fbos \ {x} : fbo'[y] = fbo[y]
         /\ fbo'[x].depth \in depths
         /\ renderbuffers' = renderbuffers \cup ({fbo'[x].depth} \ {NoName})
         /\ ShapeInv' /\ TexturesInv' /\ FramesInv'
  <1> DEFINE texs == textures \ Colours(x)
             fbs  == framebuffers \ {fbo[x].handle}
  <1>1. PICK colours \in Fresh(n, Textures \ texs), h \in Framebuffers \ fbs, depth \in depths :
          /\ textures' = texs \cup {colours[i] : i \in 1 .. n}
          /\ framebuffers' = fbs \cup {h}
          /\ renderbuffers' = renderbuffers \cup ({depth} \ {NoName})
          /\ bound' = NoName
          /\ unit0' = Unit0After(texs)
          /\ fbo' = [fbo EXCEPT ![x] = [handle |-> h, colours |-> colours,
                                        depth |-> depth, unset |-> unset]]
          /\ UNCHANGED atUnit0
    BY DEF CreateFbo, Assigned
  <1> DEFINE new == [handle |-> h, colours |-> colours, depth |-> depth, unset |-> unset]
             N   == {colours[i] : i \in 1 .. n}
  <1>2. TypeOK /\ ShapeInv /\ fbo \in [Fbos -> Fbo] /\ Colours(x) \subseteq Textures
    BY Shapes DEF IInv, TypeOK
  <1>3. /\ colours \in [1 .. n -> Textures] /\ colours \in Seq(Textures) /\ colours # << >>
        /\ DOMAIN colours = 1 .. n /\ N \cap texs = {} /\ N \subseteq Textures
    <2>1. colours \in [1 .. n -> Textures \ texs]
      BY DEF Fresh
    <2>2. colours \in Seq(Textures) /\ DOMAIN colours = 1 .. n /\ 1 \in 1 .. n
      BY <2>1
    <2> QED
      BY <2>1, <2>2
  <1>4. new \in Fbo /\ h # NoName
    BY <1>3, NamesAssumption DEF Fbo
  <1>5. new.handle = h /\ new.colours = colours /\ new.depth = depth /\ new.unset = unset
    OBVIOUS
  <1>6. fbo'[x] = new /\ \A y \in Fbos \ {x} : fbo'[y] = fbo[y]
    BY <1>1, <1>2
  <1>7. fbo' \in [Fbos -> Fbo]
    BY <1>1, <1>2, <1>4
  <1>8. fbo'[x] # NoFbo
    BY <1>4, <1>5, <1>6 DEF NoFbo
  <1> HIDE DEF new
  <1>9. \A y \in Fbos : fbo'[y].handle = NoName <=> fbo'[y].colours = << >>
    BY <1>2, <1>3, <1>4, <1>5, <1>6 DEF TypeOK
  <1>10. ShapeInv'
    BY <1>2, <1>4, <1>5, <1>6 DEF ShapeInv
  <1>11. textures' \subseteq Textures /\ framebuffers' \subseteq Framebuffers
    BY <1>1, <1>2, <1>3 DEF TypeOK
  <1>12. unit0' \in Textures \cup {NoName} /\ atUnit0' \in BOOLEAN
    BY <1>1, <1>2 DEF TypeOK, Unit0After
  <1>13. TexturesInv'
    <2> SUFFICES ASSUME ~ struck
                 PROVE  Partition(textures', ColoursOf', handle', made', Unsets')
      BY DEF TexturesInv
    <2>1. ColoursOf[x] = Colours(x)
      BY DEF ColoursOf
    <2>2. ColoursOf'[x] = N
      BY <1>3, <1>5, <1>6 DEF ColoursOf, Colours
    <2>3. \A y \in Fbos \ {x} : ColoursOf'[y] = ColoursOf[y]
      BY <1>6 DEF ColoursOf, Colours
    <2>4. Partition(textures, ColoursOf, handle, made, Unsets)
      BY DEF IInv, TexturesInv
    <2>5. N \cap (textures \ ColoursOf[x]) = {}
      BY <1>3, <2>1
    <2> HIDE DEF N
    <2>6. \A o \in textures : o \in Unsets => o \in Unsets'
      <3>1. NoName \notin textures
        BY <1>2, NamesAssumption DEF TypeOK
      <3>2. \A y \in Fbos : fbo[y].unset \in {fbo'[y].unset, NoName}
        BY <1>5, <1>6
      <3> QED
        BY <3>1, <3>2 DEF Unsets
    <2>7. (\A y \in Fbos \ {x} : ColoursOf[y] \cap {} = {}) /\ \A a \in made : handle[a] \notin {}
      OBVIOUS
    <2>8. \A o \in (textures \ ColoursOf[x]) \ {} : o \in Unsets => o \in Unsets'
      BY <2>6
    <2>9. Partition(((textures \ ColoursOf[x]) \ {}) \cup N, ColoursOf', handle, made, Unsets')
      BY <2>2, <2>3, <2>4, <2>5, <2>7, <2>8, PartitionReplace, Zenon
    <2>10. textures' = ((textures \ ColoursOf[x]) \ {}) \cup N
      BY <1>1, <2>1 DEF N
    <2> QED
      BY <2>9, <2>10
  <1>14. FramesInv'
    <2>1. fbo[x].handle \notin framebuffers => framebuffers \ {fbo[x].handle} = framebuffers
      OBVIOUS
    <2>2. FramesOf[x] = {fbo[x].handle} \ {NoName} /\ NoName \notin framebuffers
      BY <1>2, NamesAssumption DEF FramesOf, TypeOK
    <2>3. framebuffers \ FramesOf[x] = fbs
      BY <2>2
    <2>4. FramesOf'[x] = {h}
      BY <1>4, <1>5, <1>6 DEF FramesOf
    <2>5. \A y \in Fbos \ {x} : FramesOf'[y] = FramesOf[y]
      BY <1>6 DEF FramesOf
    <2>6. {h} \cap (framebuffers \ FramesOf[x]) = {}
      BY <2>3
    <2>7. Partition(framebuffers, FramesOf, handle, {}, {})
      BY DEF IInv, FramesInv
    <2>8. /\ \A y \in Fbos \ {x} : FramesOf[y] \cap {} = {}
          /\ \A a \in {} : handle[a] \notin {}
          /\ \A o \in (framebuffers \ FramesOf[x]) \ {} : o \in {} => o \in {}
      OBVIOUS
    <2>9. Partition(((framebuffers \ FramesOf[x]) \ {}) \cup {h}, FramesOf', handle, {}, {})
      BY <2>4, <2>5, <2>6, <2>7, <2>8, PartitionReplace, Zenon
    <2>10. framebuffers' = ((framebuffers \ FramesOf[x]) \ {}) \cup {h}
      BY <1>1, <2>3
    <2>11. FramesInv' = Partition(framebuffers', FramesOf', handle', {}, {})
      BY DEF FramesInv
    <2> QED
      BY <2>9, <2>10, <2>11
  <1> QED
    BY <1>1, <1>5, <1>6, <1>7, <1>8, <1>9, <1>10, <1>11, <1>12, <1>13, <1>14

(* The renderbuffers are counted: each of these steps adds one to a depth  *)
(* attachment and, if that had another, leaves the other behind.           *)
LEMMA DepthCounts ==
  ASSUME IInv
  PROVE  /\ IsFiniteSet(renderbuffers) /\ Cardinality(renderbuffers) \in Nat
         /\ IsFiniteSet({x \in Fbos : HasDepth(x)})
         /\ Cardinality({x \in Fbos : HasDepth(x)}) \in Nat
         /\ resizes \in Nat
  <1>1. IsFiniteSet(renderbuffers) /\ IsFiniteSet({x \in Fbos : HasDepth(x)})
    BY NamesAssumption, FbosAssumption, FS_Subset DEF IInv, TypeOK
  <1> QED
    BY <1>1, FS_CardinalityType DEF IInv, TypeOK

LEMMA DepthAdded ==
  ASSUME IInv, NEW x \in Fbos, NEW d \in Renderbuffers \ renderbuffers,
         renderbuffers' = renderbuffers \cup {d}, fbo'[x].depth = d,
         \A y \in Fbos \ {x} : fbo'[y] = fbo[y],
         resizes' = IF HasDepth(x) THEN resizes + 1 ELSE resizes
  PROVE  DepthsInv'
  <1> DEFINE deep == {y \in Fbos : HasDepth(y)}
  <1>1. d # NoName
    BY NamesAssumption
  <1>2. /\ \A y \in Fbos : HasDepth(y) => fbo[y].depth \in renderbuffers
        /\ \A y, z \in Fbos : HasDepth(y) /\ fbo[y].depth = fbo[z].depth => y = z
        /\ Cardinality(renderbuffers) = resizes + Cardinality(deep)
    BY DEF IInv, DepthsInv, ResizeLeaksDepth
  <1>3. (\A y \in Fbos \ {x} : HasDepth(y)' <=> HasDepth(y)) /\ HasDepth(x)'
    BY <1>1 DEF HasDepth
  <1>4. \A y \in Fbos : HasDepth(y)' => fbo'[y].depth \in renderbuffers'
    BY <1>2, <1>3
  <1>5. \A y, z \in Fbos : HasDepth(y)' /\ fbo'[y].depth = fbo'[z].depth => y = z
    <2> SUFFICES ASSUME NEW y \in Fbos, NEW z \in Fbos, HasDepth(y)',
                        fbo'[y].depth = fbo'[z].depth
                 PROVE  y = z
      OBVIOUS
    <2>1. fbo'[z].depth # NoName /\ HasDepth(z)'
      BY DEF HasDepth
    <2>2. y # x => HasDepth(y) /\ fbo[y].depth \in renderbuffers /\ fbo'[y].depth = fbo[y].depth
      BY <1>2, <1>3
    <2>3. z # x => HasDepth(z) /\ fbo[z].depth \in renderbuffers /\ fbo'[z].depth = fbo[z].depth
      BY <1>2, <1>3, <2>1
    <2> QED
      BY <1>2, <2>2, <2>3
  <1>6. Cardinality(renderbuffers') = Cardinality(renderbuffers) + 1
    BY DepthCounts, FS_AddElement
  <1>7. deep' = deep \cup {x}
    BY <1>3
  <1>8. Cardinality(deep') = IF HasDepth(x) THEN Cardinality(deep) ELSE Cardinality(deep) + 1
    <2>1. IsFiniteSet(deep)
      BY DepthCounts
    <2>2. x \in deep <=> HasDepth(x)
      OBVIOUS
    <2> HIDE DEF deep
    <2> QED
      BY <1>7, <2>1, <2>2, FS_AddElement
  <1>9. resizes \in Nat /\ Cardinality(deep) \in Nat
    BY DepthCounts
  <1> HIDE DEF deep
  <1>10. Cardinality(renderbuffers') = resizes' + Cardinality(deep')
    BY <1>2, <1>6, <1>8, <1>9
  <1> QED
    BY <1>4, <1>5, <1>10 DEF DepthsInv, ResizeLeaksDepth, deep

LEMMA DepthSame ==
  ASSUME IInv, UNCHANGED << renderbuffers, resizes >>,
         \A x \in Fbos : fbo'[x].depth = fbo[x].depth
  PROVE  DepthsInv'
  <1>1. \A x \in Fbos : HasDepth(x)' <=> HasDepth(x)
    BY DEF HasDepth
  <1>2. {x \in Fbos : HasDepth(x)}' = {x \in Fbos : HasDepth(x)}
    BY <1>1
  <1>3. ResizeLeaksDepth'
    BY <1>2 DEF IInv, DepthsInv, ResizeLeaksDepth
  <1> QED
    BY <1>1, <1>3 DEF IInv, DepthsInv
-----------------------------------------------------------------------------
(* The operations of the manager, wherever they are called from.           *)
DrawPcs == {"hook", "frame", "scene", "screen"}

(* Steps that only bind: at most an unset handle's texture comes of it.    *)
LEMMA ObjectsKept ==
  ASSUME IInv, UNCHANGED << renderbuffers, framebuffers, fbo, assetVars, histVars >>,
         textures \subseteq textures', ~ struck => textures' \subseteq textures \cup Unsets
  PROVE  ShapeInv' /\ TexturesInv' /\ FramesInv' /\ DepthsInv'
  <1> USE DEF assetVars, histVars
  <1>1. ColoursOf' = ColoursOf /\ FramesOf' = FramesOf /\ Unsets' = Unsets
    BY DEF ColoursOf, FramesOf, Colours, Unsets
  <1>2. ShapeInv' /\ FramesInv'
    BY <1>1 DEF IInv, ShapeInv, FramesInv
  <1>3. TexturesInv'
    <2> SUFFICES ASSUME ~ struck
                 PROVE  Partition(textures', ColoursOf', handle', made', Unsets')
      BY DEF TexturesInv
    <2>1. Partition(textures, ColoursOf, handle, made, Unsets)
      BY DEF IInv, TexturesInv
    <2>2. Partition(textures', ColoursOf, handle, made, Unsets)
      BY <2>1, PartitionGrow, Zenon
    <2> QED
      BY <1>1, <2>2
  <1>4. DepthsInv'
    BY DepthSame
  <1> QED
    BY <1>2, <1>3, <1>4

LEMMA BindingIInv ==
  ASSUME IInv, UNCHANGED << renderbuffers, framebuffers, fbo, assetVars, histVars >>,
         textures \subseteq textures', ~ struck => textures' \subseteq textures \cup Unsets,
         textures' \subseteq Textures,
         pc \in DrawPcs, pc' \in DrawPcs, bound' \in Framebuffers \cup {NoName},
         unit0' \in Textures \cup {NoName}, atUnit0' \in BOOLEAN
  PROVE  IInv'
  <1>1. ShapeInv' /\ TexturesInv' /\ FramesInv' /\ DepthsInv'
    BY ObjectsKept
  <1>2. TypeOK' /\ PhaseInv'
    BY DEF IInv, TypeOK, PhaseInv, DrawPcs, assetVars, histVars
  <1> QED
    BY <1>1, <1>2 DEF IInv

(* What binding an FBO, its attachments or a texture leaves bound, and the *)
(* textures there are then.                                                *)
LEMMA BindTypes ==
  ASSUME IInv
  PROVE  /\ \A x \in Fbos : BindFrame(fbo[x].handle) \in Framebuffers \cup {NoName}
         /\ \A x \in Fbos : fbo[x] # NoFbo /\ BindFrameBufferObjectTexture(x) =>
              /\ textures \subseteq textures' /\ textures' \subseteq Textures
              /\ ~ struck => textures' \subseteq textures \cup Unsets
              /\ unit0' \in Textures \cup {NoName} /\ atUnit0' \in BOOLEAN
         /\ \A a \in made : textures' = BindTextures({handle[a]}) =>
              /\ textures \subseteq textures' /\ textures' \subseteq Textures
              /\ ~ struck => textures' \subseteq textures \cup Unsets
         /\ \A a \in made : handle[a] \in Textures \cup {NoName}
  <1>1. \A x \in Fbos : BindFrame(fbo[x].handle) \in Framebuffers \cup {NoName}
    BY DEF IInv, TypeOK, BindFrame
  <1>2. ASSUME NEW x \in Fbos, fbo[x] # NoFbo, BindFrameBufferObjectTexture(x)
        PROVE  /\ textures \subseteq textures' /\ textures' \subseteq Textures
               /\ ~ struck => textures' \subseteq textures \cup Unsets
               /\ unit0' \in Textures \cup {NoName} /\ atUnit0' \in BOOLEAN
    <2>1. /\ textures' = textures \cup ((Colours(x) \cup {fbo[x].unset}) \ {NoName})
          /\ unit0' = fbo[x].colours[1] /\ atUnit0' \in BOOLEAN
      BY <1>2 DEF BindFrameBufferObjectTexture, BindTextures
    <2>2. Colours(x) \subseteq Textures /\ fbo[x].colours[1] \in Colours(x)
      BY <1>2, Shapes DEF IInv
    <2>3. fbo[x].unset \in Textures \cup {NoName} /\ fbo[x].unset \in Unsets
      BY <1>2, Shapes, GarbageAssumption DEF IInv, Fbo, Unsets
    <2>4. ~ struck => Colours(x) \subseteq textures
      BY DEF IInv, TexturesInv, Partition, ColoursOf
    <2>5. textures \subseteq Textures
      BY DEF IInv, TypeOK
    <2> QED
      BY <2>1, <2>2, <2>3, <2>4, <2>5
  <1>3. \A a \in made : handle[a] \in Textures \cup {NoName}
    BY DEF IInv, TypeOK
  <1>4. \A a \in made : ~ struck => handle[a] \in textures
    BY DEF IInv, TexturesInv, Partition
  <1>5. \A a \in made : textures' = BindTextures({handle[a]}) =>
          /\ textures \subseteq textures' /\ textures' \subseteq Textures
          /\ ~ struck => textures' \subseteq textures \cup Unsets
    BY <1>3, <1>4 DEF BindTextures, IInv, TypeOK
  <1> QED
    BY <1>1, <1>2, <1>3, <1>5

LEMMA CreateFboIInv ==
  ASSUME IInv, NEW x \in Fbos, NEW n \in Nat \ {0}, NEW unset \in Garbage \cup {NoName},
         NEW depths, depths \in {WithDepth, WithoutDepth},
         CreateFbo(x, n, depths, unset, textures \ Colours(x), framebuffers \ {fbo[x].handle}),
         HasDepth(x) => depths = WithDepth, fbo[x].unset \in {unset, NoName},
         UNCHANGED << handle, made, struck >>,
         resizes' = IF HasDepth(x) THEN resizes + 1 ELSE resizes,
         \/ pc \in DrawPcs /\ pc' \in DrawPcs
         \/ pc = "off" /\ pc' = "initialise" /\ x = EngineFbo
  PROVE  IInv'
  <1>1. depths \in SUBSET (Renderbuffers \cup {NoName})
    BY DEF WithDepth, WithoutDepth
  <1>2. /\ textures' \subseteq Textures /\ framebuffers' \subseteq Framebuffers
        /\ bound' = NoName /\ unit0' \in Textures \cup {NoName} /\ atUnit0' \in BOOLEAN
        /\ fbo' \in [Fbos -> Fbo]
        /\ \A y \in Fbos : fbo'[y].handle = NoName <=> fbo'[y].colours = << >>
        /\ fbo'[x] # NoFbo /\ \A y \in Fbos \ {x} : fbo'[y] = fbo[y]
        /\ fbo'[x].depth \in depths
        /\ renderbuffers' = renderbuffers \cup ({fbo'[x].depth} \ {NoName})
        /\ ShapeInv' /\ TexturesInv' /\ FramesInv'
    BY <1>1, CreateFboKeeps, Zenon
  <1>3. TypeOK'
    <2>1. renderbuffers' \subseteq Renderbuffers
      BY <1>1, <1>2 DEF IInv, TypeOK
    <2>2. resizes' \in Nat
      BY DEF IInv, TypeOK
    <2> QED
      BY <1>2, <2>1, <2>2 DEF IInv, TypeOK, DrawPcs
  <1>4. PhaseInv'
    BY <1>2, FbosAssumption DEF IInv, PhaseInv, DrawPcs
  <1>5. DepthsInv'
    <2>1. CASE depths = WithDepth
      <3>1. fbo'[x].depth \in Renderbuffers \ renderbuffers /\ fbo'[x].depth # NoName
        BY <1>2, <2>1, NamesAssumption DEF WithDepth
      <3>2. renderbuffers' = renderbuffers \cup {fbo'[x].depth}
        BY <1>2, <3>1
      <3> DEFINE d == fbo'[x].depth
      <3>3. d \in Renderbuffers \ renderbuffers /\ renderbuffers' = renderbuffers \cup {d}
        BY <3>1, <3>2
      <3>4. fbo'[x].depth = d
        OBVIOUS
      <3> HIDE DEF d
      <3> QED
        BY <1>2, <3>3, <3>4, DepthAdded
    <2>2. CASE depths = WithoutDepth
      <3>1. WithDepth # WithoutDepth
        BY NamesAssumption DEF WithDepth, WithoutDepth
      <3>2. ~ HasDepth(x) /\ resizes' = resizes
        BY <2>2, <3>1
      <3>3. fbo'[x].depth = NoName /\ renderbuffers' = renderbuffers
        BY <1>2, <2>2 DEF WithoutDepth
      <3>4. \A y \in Fbos : fbo'[y].depth = fbo[y].depth
        BY <1>2, <3>2, <3>3 DEF HasDepth
      <3> QED
        BY <3>2, <3>3, <3>4, DepthSame
    <2> QED
      BY <2>1, <2>2
  <1> QED
    BY <1>2, <1>3, <1>4, <1>5 DEF IInv

LEMMA ResizeIInv ==
  ASSUME IInv, NEW x \in Fbos, fbo[x] # NoFbo, ResizeFrameBufferObject(x),
         pc \in DrawPcs, pc' \in DrawPcs
  PROVE  IInv'
  <1> DEFINE n == Len(fbo[x].colours)
             depths == IF HasDepth(x) THEN WithDepth ELSE WithoutDepth
  <1>1. n \in Nat \ {0}
    BY Shapes DEF IInv
  <1>2. fbo[x].unset \in Garbage \cup {NoName}
    BY Shapes DEF IInv, Fbo
  <1>3. /\ CreateFbo(x, n, depths, fbo[x].unset, textures \ Colours(x), framebuffers \ {fbo[x].handle})
        /\ resizes' = IF HasDepth(x) THEN resizes + 1 ELSE resizes
    BY DEF ResizeFrameBufferObject, ResizeDeletes
  <1>4. UNCHANGED << handle, made, struck >>
    BY DEF ResizeFrameBufferObject, assetVars
  <1>5. /\ depths \in {WithDepth, WithoutDepth} /\ (HasDepth(x) => depths = WithDepth)
        /\ fbo[x].unset \in {fbo[x].unset, NoName}
    OBVIOUS
  <1> HIDE DEF n, depths
  <1> QED
    BY <1>1, <1>2, <1>3, <1>4, <1>5, CreateFboIInv

LEMMA CreateIInv ==
  ASSUME IInv, NEW x \in Fbos, fbo[x] = NoFbo, NEW n \in 1 .. MaxColours,
         CreateFrameBufferObject(x, n), UNCHANGED << assetVars, histVars >>,
         \/ pc \in DrawPcs /\ pc' \in DrawPcs
         \/ pc = "off" /\ pc' = "initialise" /\ x = EngineFbo
  PROVE  IInv'
  <1>1. n \in Nat \ {0}
    BY ColoursAssumption
  <1>2. textures \ Colours(x) = textures /\ ~ HasDepth(x) /\ fbo[x].unset = NoName
    BY Shapes DEF IInv
  <1>3. framebuffers \ {fbo[x].handle} = framebuffers
    <2>1. fbo[x].handle = NoName /\ framebuffers \subseteq Framebuffers
      BY Shapes DEF IInv, TypeOK
    <2> QED
      BY <2>1, NamesAssumption
  <1>4. UNCHANGED << handle, made, struck, resizes >>
    BY DEF assetVars, histVars
  <1>5. PICK unset \in Garbage \cup {NoName}, depths \in {WithDepth, WithoutDepth} :
          CreateFbo(x, n, depths, unset, textures, framebuffers)
    BY DEF CreateFrameBufferObject
  <1> QED
    BY <1>1, <1>2, <1>3, <1>4, <1>5, CreateFboIInv

(* Deleting x takes what it has with it, and a texture that its unset      *)
(* m_tHandle names; if somebody else has it, struck says so.               *)
LEMMA DeleteIInv ==
  ASSUME IInv, NEW x \in Fbos \ {EngineFbo}, fbo[x] # NoFbo, DeleteFrameBufferObject(x),
         pc = "hook", pc' = "hook"
  PROVE  IInv'
  <1> DEFINE left == textures \ (Colours(x) \cup {fbo[x].unset})
  <1>1. /\ textures' = left
        /\ renderbuffers' = renderbuffers \ {fbo[x].depth}
        /\ framebuffers' = framebuffers \ {fbo[x].handle}
        /\ bound' = NoName
        /\ unit0' = IF unit0 \in left THEN unit0 ELSE NoName
        /\ fbo' = [fbo EXCEPT ![x] = NoFbo]
        /\ struck' = (struck \/ fbo[x].unset \in OthersTextures(x))
        /\ UNCHANGED << atUnit0, handle, made, resizes >>
    BY DEF DeleteFrameBufferObject, DeletedDepth, assetVars
  <1>2. TypeOK /\ ShapeInv /\ fbo \in [Fbos -> Fbo]
    BY DEF IInv, TypeOK
  <1>3. fbo'[x] = NoFbo /\ \A y \in Fbos \ {x} : fbo'[y] = fbo[y]
    BY <1>1, <1>2
  <1>4. NoFbo \in Fbo /\ NoFbo.handle = NoName /\ NoFbo.colours = << >> /\ NoFbo.depth = NoName
    BY DEF NoFbo, Fbo
  <1>5. TypeOK'
    <2>1. struck' \in BOOLEAN
      BY <1>1, <1>2 DEF TypeOK
    <2>2. fbo' \in [Fbos -> Fbo]
      BY <1>1, <1>2, <1>4
    <2>3. \A y \in Fbos : fbo'[y].handle = NoName <=> fbo'[y].colours = << >>
      BY <1>2, <1>3, <1>4 DEF TypeOK
    <2> QED
      BY <1>1, <1>2, <2>1, <2>2, <2>3 DEF TypeOK
  <1>6. ShapeInv'
    BY <1>2, <1>3 DEF ShapeInv
  <1>7. PhaseInv'
    BY <1>1, <1>3, FbosAssumption DEF IInv, PhaseInv
  <1>8. ColoursOf'[x] = {} /\ FramesOf'[x] = {}
    BY <1>3, <1>4 DEF ColoursOf, FramesOf, Colours
  <1>9. \A y \in Fbos \ {x} : ColoursOf'[y] = ColoursOf[y] /\ FramesOf'[y] = FramesOf[y]
    BY <1>3 DEF ColoursOf, FramesOf, Colours
  <1>10. TexturesInv'
    <2> SUFFICES ASSUME ~ struck'
                 PROVE  Partition(textures', ColoursOf', handle', made', Unsets')
      BY DEF TexturesInv
    <2>1. ~ struck /\ fbo[x].unset \notin OthersTextures(x)
      BY <1>1
    <2>2. \A y \in Fbos : ColoursOf[y] = Colours(y)
      BY DEF ColoursOf
    <2> DEFINE R == {fbo[x].unset}
    <2>3. textures' = ((textures \ ColoursOf[x]) \ R) \cup {}
      BY <1>1, <2>2
    <2>4. Partition(textures, ColoursOf, handle, made, Unsets)
      BY <2>1 DEF IInv, TexturesInv
    <2>5. {} \cap (textures \ ColoursOf[x]) = {}
      OBVIOUS
    <2>6. /\ \A y \in Fbos \ {x} : ColoursOf[y] \cap R = {}
          /\ \A a \in made : handle[a] \notin R
      BY <2>1, <2>2 DEF OthersTextures
    <2>7. \A o \in (textures \ ColoursOf[x]) \ R : o \in Unsets => o \in Unsets'
      BY <1>3 DEF Unsets
    <2> HIDE DEF R
    <2>8. Partition(((textures \ ColoursOf[x]) \ R) \cup {}, ColoursOf', handle, made, Unsets')
      BY <1>8, <1>9, <2>4, <2>5, <2>6, <2>7, PartitionReplace, Zenon
    <2> QED
      BY <1>1, <2>3, <2>8
  <1>11. FramesInv'
    <2>1. FramesOf[x] = {fbo[x].handle} \ {NoName} /\ NoName \notin framebuffers
      BY <1>2, NamesAssumption DEF FramesOf, TypeOK
    <2>2. framebuffers' = ((framebuffers \ FramesOf[x]) \ {}) \cup {}
      BY <1>1, <2>1
    <2>3. Partition(framebuffers, FramesOf, handle, {}, {})
      BY DEF IInv, FramesInv
    <2>4. {} \cap (framebuffers \ FramesOf[x]) = {}
      OBVIOUS
    <2>5. /\ \A y \in Fbos \ {x} : FramesOf[y] \cap {} = {}
          /\ \A a \in {} : handle[a] \notin {}
          /\ \A o \in (framebuffers \ FramesOf[x]) \ {} : o \in {} => o \in {}
      OBVIOUS
    <2>6. Partition(((framebuffers \ FramesOf[x]) \ {}) \cup {}, FramesOf', handle, {}, {})
      BY <1>8, <1>9, <2>3, <2>4, <2>5, PartitionReplace, Zenon
    <2> QED
      BY <1>1, <2>2, <2>6 DEF FramesInv
  <1>12. DepthsInv'
    <2> DEFINE deep == {y \in Fbos : HasDepth(y)}
    <2>1. /\ \A y \in Fbos : HasDepth(y) => fbo[y].depth \in renderbuffers
          /\ \A y, z \in Fbos : HasDepth(y) /\ fbo[y].depth = fbo[z].depth => y = z
          /\ Cardinality(renderbuffers) = resizes + Cardinality(deep)
      BY DEF IInv, DepthsInv, ResizeLeaksDepth
    <2>2. \A y \in Fbos : HasDepth(y)' <=> HasDepth(y) /\ y # x
      BY <1>3, <1>4 DEF HasDepth
    <2>3. \A y \in Fbos : HasDepth(y)' => fbo'[y].depth \in renderbuffers'
      BY <1>1, <1>3, <2>1, <2>2
    <2>4. \A y, z \in Fbos : HasDepth(y)' /\ fbo'[y].depth = fbo'[z].depth => y = z
      BY <1>3, <1>4, <2>1, <2>2 DEF HasDepth
    <2>5. deep' = deep \ {x}
      BY <2>2
    <2>6. IsFiniteSet(deep) /\ IsFiniteSet(renderbuffers)
      BY DepthCounts
    <2>7. Cardinality(deep) \in Nat /\ Cardinality(renderbuffers) \in Nat /\ resizes \in Nat
      BY DepthCounts
    <2>8. x \in deep <=> fbo[x].depth \in renderbuffers
      <3>1. NoName \notin renderbuffers
        BY <1>2, NamesAssumption DEF TypeOK
      <3> QED
        BY <2>1, <3>1 DEF HasDepth
    <2> HIDE DEF deep
    <2>9. Cardinality(deep') = IF x \in deep THEN Cardinality(deep) - 1 ELSE Cardinality(deep)
      BY <2>5, <2>6, FS_RemoveElement
    <2>10. Cardinality(renderbuffers') =
             IF x \in deep THEN Cardinality(renderbuffers) - 1 ELSE Cardinality(renderbuffers)
      BY <1>1, <2>6, <2>8, FS_RemoveElement
    <2>11. Cardinality(renderbuffers') = resizes' + Cardinality(deep')
      BY <1>1, <2>1, <2>7, <2>9, <2>10
    <2> QED
      BY <2>3, <2>4, <2>11 DEF DepthsInv, ResizeLeaksDepth, deep
  <1> QED
    BY <1>5, <1>6, <1>7, <1>10, <1>11, <1>12 DEF IInv

LEMMA CreateTextureIInv ==
  ASSUME IInv, NEW a \in Assets, a \notin made, CreateTexture(a), pc' = "hook",
         pc = "hook" \/ (pc = "initialise" /\ a = EngineAsset)
  PROVE  IInv'
  <1>1. PICK name \in Textures \ textures :
          textures' = textures \cup {name} /\ handle' = [handle EXCEPT ![a] = name]
    BY DEF CreateTexture
  <1>2. /\ unit0' = Unit0After(textures) /\ made' = made \cup {a}
        /\ UNCHANGED << renderbuffers, framebuffers, bound, atUnit0, fbo, resizes, struck >>
    BY DEF CreateTexture, histVars
  <1>3. TypeOK'
    BY <1>1, <1>2 DEF IInv, TypeOK, Unit0After
  <1>4. ShapeInv' /\ PhaseInv'
    BY <1>2, FbosAssumption DEF IInv, ShapeInv, PhaseInv
  <1>5. handle'[a] = name /\ \A b \in made : handle'[b] = handle[b]
    BY <1>1 DEF IInv, TypeOK
  <1>6. ColoursOf' = ColoursOf /\ FramesOf' = FramesOf /\ Unsets' = Unsets
    BY <1>2 DEF ColoursOf, FramesOf, Colours, Unsets
  <1>7. TexturesInv'
    <2> SUFFICES ASSUME ~ struck
                 PROVE  Partition(textures', ColoursOf', handle', made', Unsets')
      BY <1>2 DEF TexturesInv
    <2>1. Partition(textures, ColoursOf, handle, made, Unsets) /\ name \notin textures
      BY DEF IInv, TexturesInv
    <2>2. Partition(textures \cup {name}, ColoursOf, handle', made \cup {a}, Unsets)
      BY <1>5, <2>1, PartitionAdd, Zenon
    <2> QED
      BY <1>1, <1>2, <1>6, <2>2
  <1>8. FramesInv'
    BY <1>2, <1>6 DEF IInv, FramesInv, Partition
  <1>9. DepthsInv'
    BY <1>2, DepthSame
  <1> QED
    BY <1>3, <1>4, <1>7, <1>8, <1>9 DEF IInv

LEMMA DeleteTextureIInv ==
  ASSUME IInv, NEW a \in Assets \ {EngineAsset}, a \in made, DeleteTexture(a),
         pc = "hook", pc' = "hook"
  PROVE  IInv'
  <1>1. /\ textures' = textures \ {handle[a]} /\ made' = made \ {a}
        /\ unit0' = IF unit0 = handle[a] THEN NoName ELSE unit0
        /\ UNCHANGED << renderbuffers, framebuffers, bound, atUnit0, fbo, handle, resizes, struck >>
    BY DEF DeleteTexture, histVars
  <1>2. TypeOK'
    BY <1>1 DEF IInv, TypeOK
  <1>3. ShapeInv' /\ PhaseInv'
    BY <1>1 DEF IInv, ShapeInv, PhaseInv
  <1>4. ColoursOf' = ColoursOf /\ FramesOf' = FramesOf /\ Unsets' = Unsets
    BY <1>1 DEF ColoursOf, FramesOf, Colours, Unsets
  <1>5. TexturesInv'
    BY <1>1, <1>4, PartitionRemove DEF IInv, TexturesInv
  <1>6. FramesInv'
    BY <1>1, <1>4 DEF IInv, FramesInv
  <1>7. DepthsInv'
    BY <1>1, DepthSame
  <1> QED
    BY <1>2, <1>3, <1>5, <1>6, <1>7 DEF IInv
-----------------------------------------------------------------------------
(* The steps.                                                              *)
LEMMA HookUsesFboIInv ==
  ASSUME IInv, NEW x \in Fbos \ {EngineFbo}, HookUsesFbo(x)
  PROVE  IInv'
  <1>1. pc = "hook" /\ pc' = "hook" /\ pc \in DrawPcs /\ pc' \in DrawPcs
    BY DEF HookUsesFbo, DrawPcs
  <1>2. CASE /\ fbo[x] = NoFbo
             /\ \E n \in 1 .. MaxColours : CreateFrameBufferObject(x, n)
             /\ UNCHANGED << assetVars, histVars >>
    BY <1>1, <1>2, CreateIInv
  <1>3. CASE fbo[x] # NoFbo /\ ResizeFrameBufferObject(x)
    BY <1>1, <1>3, ResizeIInv
  <1>4. CASE fbo[x] # NoFbo /\ DeleteFrameBufferObject(x)
    BY <1>1, <1>4, DeleteIInv
  <1>5. CASE /\ bound' \in {BindFrame(fbo[x].handle), NoName}
             /\ UNCHANGED << objectVars, unit0, atUnit0, fbo, assetVars, histVars >>
    <2>1. bound' \in Framebuffers \cup {NoName}
      BY <1>5, BindTypes
    <2>2. /\ unit0' \in Textures \cup {NoName} /\ atUnit0' \in BOOLEAN
          /\ textures' = textures /\ textures \subseteq Textures
      BY <1>5 DEF IInv, TypeOK, objectVars
    <2> QED
      BY <1>1, <1>5, <2>1, <2>2, BindingIInv DEF objectVars
  <1>6. CASE /\ fbo[x] # NoFbo
             /\ BindFrameBufferObjectTexture(x)
             /\ UNCHANGED << renderbuffers, framebuffers, bound, fbo, assetVars, histVars >>
    <2>1. bound' \in Framebuffers \cup {NoName}
      BY <1>6 DEF IInv, TypeOK
    <2> QED
      BY <1>1, <1>6, <2>1, BindTypes, BindingIInv
  <1> QED
    BY <1>2, <1>3, <1>4, <1>5, <1>6 DEF HookUsesFbo

LEMMA HookUsesTextureIInv ==
  ASSUME IInv, NEW a \in Assets \ {EngineAsset}, HookUsesTexture(a)
  PROVE  IInv'
  <1>1. pc = "hook" /\ pc' = "hook" /\ pc \in DrawPcs /\ pc' \in DrawPcs
    BY DEF HookUsesTexture, DrawPcs
  <1>2. CASE a \notin made /\ CreateTexture(a)
    BY <1>1, <1>2, CreateTextureIInv
  <1>3. CASE a \in made /\ DeleteTexture(a)
    BY <1>1, <1>3, DeleteTextureIInv
  <1>4. CASE /\ a \in made
             /\ \/ atUnit0' = TRUE /\ BindTexture(a)
                \/ /\ atUnit0' = FALSE
                   /\ textures' = BindTextures({handle[a]})
                   /\ UNCHANGED unit0
             /\ UNCHANGED << renderbuffers, framebuffers, bound, fbo, assetVars, histVars >>
    <2>1. textures' = BindTextures({handle[a]}) /\ unit0' \in {handle[a], unit0} /\ atUnit0' \in BOOLEAN
      BY <1>4 DEF BindTexture
    <2>2. unit0' \in Textures \cup {NoName} /\ bound' \in Framebuffers \cup {NoName}
      BY <1>4, <2>1, BindTypes DEF IInv, TypeOK
    <2> QED
      BY <1>1, <1>4, <2>1, <2>2, BindTypes, BindingIInv
  <1> QED
    BY <1>2, <1>3, <1>4 DEF HookUsesTexture

LEMMA NextIInv == IInv /\ [Next]_vars => IInv'
  <1> SUFFICES ASSUME IInv, [Next]_vars
               PROVE  IInv'
    OBVIOUS
  <1> USE DEF objectVars, boundVars, assetVars, histVars
  <1>1. CASE Initialise
    <2>1. fbo[EngineFbo] = NoFbo /\ EngineFbo \in Fbos /\ 1 \in 1 .. MaxColours
      BY <1>1, FbosAssumption, ColoursAssumption DEF Initialise, IInv, PhaseInv
    <2>2. CreateFrameBufferObject(EngineFbo, 1) /\ UNCHANGED << assetVars, histVars >>
      BY <1>1 DEF Initialise, CreateFrameBufferObject
    <2>3. pc = "off" /\ pc' = "initialise"
      BY <1>1 DEF Initialise
    <2> QED
      BY <2>1, <2>2, <2>3, CreateIInv
  <1>2. CASE InitialiseTexture
    <2>1. EngineAsset \in Assets /\ EngineAsset \notin made
      BY <1>2, AssetsAssumption DEF InitialiseTexture, IInv, PhaseInv
    <2> QED
      BY <1>2, <2>1, CreateTextureIInv DEF InitialiseTexture
  <1>3. CASE RenderResize
    <2>1. pc = "frame" /\ pc \in DrawPcs /\ pc' \in DrawPcs /\ EngineFbo \in Fbos
      BY <1>3, FbosAssumption DEF RenderResize, DrawPcs
    <2>2. fbo[EngineFbo] # NoFbo
      BY <2>1 DEF IInv, PhaseInv
    <2>3. CASE ResizeFrameBufferObject(EngineFbo)
      BY <2>1, <2>2, <2>3, ResizeIInv
    <2>4. CASE UNCHANGED << objectVars, boundVars, fbo, assetVars, histVars >>
      BY <2>1, <2>4, BindingIInv DEF IInv, TypeOK
    <2> QED
      BY <1>3, <2>3, <2>4 DEF RenderResize
  <1>4. CASE RenderScene
    <2>1. bound' \in Framebuffers \cup {NoName}
      BY <1>4, BindTypes, FbosAssumption DEF RenderScene
    <2>2. /\ EngineAsset \in made /\ textures' = BindTextures({handle[EngineAsset]})
          /\ unit0' = handle[EngineAsset]
      BY <1>4 DEF RenderScene, BindTexture, IInv, PhaseInv
    <2> QED
      BY <1>4, <2>1, <2>2, BindTypes, BindingIInv DEF RenderScene, DrawPcs
  <1>5. CASE RenderScreen
    <2>1. EngineFbo \in Fbos /\ fbo[EngineFbo] # NoFbo /\ BindFrameBufferObjectTexture(EngineFbo)
      BY <1>5, FbosAssumption DEF RenderScreen, IInv, PhaseInv
    <2> QED
      BY <1>5, <2>1, BindTypes, BindingIInv DEF RenderScreen, DrawPcs
  <1>6. CASE HookReturn
    <2>1. textures' = textures /\ textures \subseteq Textures
      BY <1>6 DEF HookReturn, IInv, TypeOK
    <2> QED
      BY <1>6, <2>1, BindingIInv DEF HookReturn, DrawPcs, IInv, TypeOK
  <1>7. CASE \E x \in Fbos \ {EngineFbo} : HookUsesFbo(x)
    BY <1>7, HookUsesFboIInv
  <1>8. CASE \E a \in Assets \ {EngineAsset} : HookUsesTexture(a)
    BY <1>8, HookUsesTextureIInv
  <1>9. CASE Finalise
    BY <1>9, FinaliseIInv
  <1>10. CASE UNCHANGED vars
    <2>1. ShapeInv' /\ TexturesInv' /\ FramesInv' /\ DepthsInv'
      BY <1>10, ObjectsKept DEF vars
    <2>2. TypeOK' /\ PhaseInv'
      BY <1>10 DEF vars, IInv, TypeOK, PhaseInv
    <2> QED
      BY <2>1, <2>2 DEF IInv
  <1> QED
    BY <1>1, <1>2, <1>3, <1>4, <1>5, <1>6, <1>7, <1>8, <1>9, <1>10 DEF Next

LEMMA Invariant == Spec => []IInv
  BY InitIInv, NextIInv, PTL DEF Spec
-----------------------------------------------------------------------------
(* The theorems.                                                           *)

(* Names, FBOs and histories have their types, whatever hooks create,      *)
(* resize, delete and bind, in any order.                                  *)
THEOREM TypeCorrect == Spec => []TypeOK
  BY Invariant, PTL DEF IInv

(* Every texture, renderbuffer and frame buffer that is held exists.       *)
THEOREM HandlesAreLive == Spec => []HandlesLive
  <1>1. IInv => HandlesLive
    <2> SUFFICES ASSUME IInv, ~ struck
                 PROVE  /\ Handles("texture") \subseteq textures
                        /\ Handles("renderbuffer") \subseteq renderbuffers
                        /\ Handles("framebuffer") \subseteq framebuffers
      BY DEF HandlesLive
    <2> DEFINE used == {x \in Fbos : fbo[x] # NoFbo}
    <2>1. \A x \in Fbos : Colours(x) \subseteq textures
      BY DEF IInv, TexturesInv, Partition, ColoursOf
    <2>2. \A a \in made : handle[a] \in textures
      BY DEF IInv, TexturesInv, Partition
    <2>3. (UNION {Colours(x) : x \in used}) \cup {handle[a] : a \in made} \subseteq textures
      BY <2>1, <2>2
    <2>4. \A x \in Fbos : fbo[x].depth # NoName => fbo[x].depth \in renderbuffers
      BY DEF IInv, DepthsInv, HasDepth
    <2>5. {fbo[x].depth : x \in used} \ {NoName} \subseteq renderbuffers
      BY <2>4
    <2>6. \A x \in used : fbo[x].handle \in framebuffers
      <3>1. \A x \in used : fbo[x].handle # NoName
        BY Shapes DEF IInv
      <3>2. \A x \in Fbos : FramesOf[x] \subseteq framebuffers
        BY DEF IInv, FramesInv, Partition
      <3> QED
        BY <3>1, <3>2 DEF FramesOf
    <2>7. {fbo[x].handle : x \in used} \subseteq framebuffers
      BY <2>6
    <2> QED
      BY <2>3, <2>5, <2>7 DEF Handles
  <1> QED
    BY <1>1, Invariant, PTL

(* Through all creations, resizes, deletions and binds no frame buffer is  *)
(* without an owner, no texture but one that an unset m_tHandle in use     *)
(* names, and none has two owners.                                         *)
THEOREM OnlyUnsetsStray == Spec => []OnlyUnsetStrays
  <1>1. IInv => OnlyUnsetStrays
    <2> SUFFICES ASSUME IInv, ~ struck
                 PROVE  /\ textures \subseteq Handles("texture") \cup {fbo[x].unset : x \in Fbos}
                        /\ framebuffers \subseteq Handles("framebuffer")
                        /\ \A x, y \in Fbos : x # y => Colours(x) \cap Colours(y) = {}
                        /\ \A x \in Fbos, a \in made : handle[a] \notin Colours(x)
      BY DEF OnlyUnsetStrays
    <2> DEFINE used == {x \in Fbos : fbo[x] # NoFbo}
    <2>1. /\ Partition(textures, ColoursOf, handle, made, Unsets)
          /\ Partition(framebuffers, FramesOf, handle, {}, {})
      BY DEF IInv, TexturesInv, FramesInv
    <2>2. \A x \in Fbos : ColoursOf[x] = Colours(x) /\ FramesOf[x] = {fbo[x].handle} \ {NoName}
      BY DEF ColoursOf, FramesOf
    <2>3. \A x \in Fbos \ used : Colours(x) = {} /\ fbo[x].handle = NoName
      BY Shapes DEF IInv
    <2>4. \A o \in textures : o \in Unsets \/ (\E x \in used : o \in Colours(x)) \/ \E a \in made : o = handle[a]
      BY <2>1, <2>2, <2>3 DEF Partition
    <2>5. \A o \in framebuffers : \E x \in used : o = fbo[x].handle
      BY <2>1, <2>2, <2>3 DEF Partition
    <2>6. textures \subseteq ((UNION {Colours(x) : x \in used}) \cup {handle[a] : a \in made}) \cup Unsets
      BY <2>4
    <2>7. framebuffers \subseteq {fbo[x].handle : x \in used}
      BY <2>5
    <2>8. \A x, y \in Fbos : x # y => Colours(x) \cap Colours(y) = {}
      BY <2>1, <2>2 DEF Partition
    <2>9. \A x \in Fbos, a \in made : handle[a] \notin Colours(x)
      BY <2>1, <2>2 DEF Partition
    <2> QED
      BY <2>6, <2>7, <2>8, <2>9 DEF Handles, Unsets
  <1> QED
    BY <1>1, Invariant, PTL

(* Each resize with depth leaks one renderbuffer, and nothing else does.   *)
THEOREM ResizesLeakDepths == Spec => []ResizeLeaksDepth
  BY Invariant, PTL DEF IInv, DepthsInv

(* The scene goes from the engine's texture into its frame buffer, and     *)
(* from there onto the screen, whatever hooks have left bound.             *)
THEOREM FramesAreDrawnAsMeant == Spec => DrawsAsMeant
  <1> DEFINE Meant ==
        /\ pc = "scene" =>
             /\ bound' = fbo[EngineFbo].handle
             /\ unit0' = handle[EngineAsset]
             /\ unit0' \in textures \ Colours(EngineFbo)
        /\ pc = "screen" =>
             bound' = NoName /\ unit0' \in textures \cap Colours(EngineFbo)
  <1>1. IInv /\ [Next]_vars => [~ struck => Meant]_vars
    <2> SUFFICES ASSUME IInv, Next, ~ struck
                 PROVE  Meant
      OBVIOUS
    <2> USE DEF Next, Initialise, InitialiseTexture, RenderResize, HookReturn, HookUsesFbo,
                HookUsesTexture, Finalise
    <2>1. ASSUME pc \in {"scene", "screen"}
          PROVE  /\ fbo[EngineFbo].handle \in framebuffers
                 /\ handle[EngineAsset] \in textures \ Colours(EngineFbo)
                 /\ fbo[EngineFbo].colours[1] \in Colours(EngineFbo) \cap textures
      <3>1. EngineFbo \in Fbos /\ fbo[EngineFbo] # NoFbo /\ EngineAsset \in made
        BY <2>1, FbosAssumption DEF IInv, PhaseInv
      <3>2. fbo[EngineFbo].handle # NoName /\ fbo[EngineFbo].colours[1] \in Colours(EngineFbo)
        BY <3>1, Shapes DEF IInv
      <3>3. /\ ColoursOf[EngineFbo] = Colours(EngineFbo)
            /\ FramesOf[EngineFbo] = {fbo[EngineFbo].handle} \ {NoName}
        BY <3>1 DEF ColoursOf, FramesOf
      <3>4. Partition(textures, ColoursOf, handle, made, Unsets) /\ Partition(framebuffers, FramesOf, handle, {}, {})
        BY DEF IInv, TexturesInv, FramesInv
      <3>5. Colours(EngineFbo) \subseteq textures /\ fbo[EngineFbo].handle \in framebuffers
        BY <3>1, <3>2, <3>3, <3>4 DEF Partition
      <3>6. handle[EngineAsset] \in textures \ Colours(EngineFbo)
        BY <3>1, <3>3, <3>4 DEF Partition
      <3> QED
        BY <3>2, <3>5, <3>6
    <2>2. CASE pc = "scene"
      <3>1. RenderScene
        BY <2>2 DEF RenderScreen
      <3> QED
        BY <2>1, <2>2, <3>1 DEF RenderScene, BindFrame, BindTexture
    <2>3. CASE pc = "screen"
      <3>1. RenderScreen
        BY <2>3 DEF RenderScene
      <3> QED
        BY <2>1, <2>3, <3>1 DEF RenderScreen, BindFrameBufferObjectTexture
    <2> QED
      BY <2>2, <2>3
  <1> QED
    BY <1>1, Invariant, PTL DEF Spec, DrawsAsMeant
=============================================================================
