---------------------------- MODULE ResourceFile ----------------------------
(***************************************************************************)
(* The bytes of the resource file: how SaveResources writes the loaded     *)
(* assets as blocks, and how LoadResources finds the blocks again and      *)
(* makes assets of them, through one SerialBuffer for all blocks and the   *)
(* factory table CreateAsset fills.  AssetTexture is the engine's asset;   *)
(* "other" stands for a class the application derives from IAsset, which   *)
(* encodes some bytes and decodes as many as the buffer says it holds.     *)
(*                                                                         *)
(* A block is its header and the fields of the asset; bytes and offsets    *)
(* are counted, and the pixels are known by the image they are of.  A run  *)
(* is one life of the engine, as in ResourceManager, which has the kills,  *)
(* the failing disks, the torn files and the shipping that are left out    *)
(* here: the file of the release builds is the one just saved.  A failed   *)
(* assert and an access through a null pointer end everything: pc is       *)
(* "dead".                                                                 *)
(***************************************************************************)
EXTENDS Integers, FiniteSetsExt

CONSTANTS
  Names,        (* the names of assets, in the order of the map            *)
  Wup,          (* the name GraphicsManager::Initialise uses               *)
  Picture,      (* the width, height and channels of every image           *)
  Unreadable,   (* the image files stbi_load fails on                      *)
  Leftovers,    (* what Load's local variables may hold uninitialised      *)
  Payloads      (* the bytes an application's asset encodes to             *)

Images == DOMAIN Picture

ASSUME NamesAssumption == Names \subseteq Nat /\ IsFiniteSet(Names) /\ Wup \in Names
ASSUME PictureAssumption ==
  /\ Picture \in [Images -> [width : Nat, height : Nat, channels : 1 .. 4]]
  /\ {"MISSING_TEXTURE", "nothing"} \cap (Images \cup Unreadable) = {}
  /\ Unreadable \cap Images = {}
ASSUME LeftoversAssumption == Leftovers \subseteq [width : Int, height : Int, channels : Int]
ASSUME PayloadsAssumption == Payloads \subseteq Nat

VARIABLES
  pc,           (* where the run is, "off" between two runs                *)
  ret,          (* where the save or load in progress returns to           *)
  build,        (* "debug" or "release"                                    *)
  factories,    (* m_factoryTable: the kinds that have a factory           *)
  assets,       (* m_loadedAssets                                          *)
  buff,         (* the SerialBuffer of the save or load in progress        *)
  todo,         (* the names the loop of SaveResources has still to visit  *)
  at,           (* blockStart in the loop of LoadResources                 *)
  madeDir,      (* the directory Res/ro exists                             *)
  file,         (* Res/ro/resource.bin: its size, and the blocks by offset *)
  fault,        (* why the run died, or "none"                             *)
  before        (* history: m_loadedAssets when the load began             *)

diskVars == << madeDir, file >>
loopVars == << ret, buff, todo, at, before >>
vars == << pc, build, factories, assets, loopVars, diskVars, fault >>

NoAssets  == [n \in {} |-> n]
EmptyFile == [size |-> 0, blocks |-> NoAssets]
NewBuffer == [allocated |-> 0, size |-> 0]

Put(f, k, v) == [x \in DOMAIN f \cup {k} |-> IF x = k THEN v ELSE f[x]]

Goto(p) == pc' = p /\ UNCHANGED fault
Die(cause) == pc' = "dead" /\ fault' = cause
-----------------------------------------------------------------------------
(* Assets.  A texture has the pixels of an image, bytes of them.           *)
Texture(p, n, image) ==
  [kind |-> "texture", width |-> p.width, height |-> p.height,
   channels |-> p.channels, bytes |-> n, of |-> image]

Other(n) ==
  [kind |-> "other", width |-> 0, height |-> 0, channels |-> 0,
   bytes |-> n, of |-> "nothing"]

Square(n, c) == [width |-> n, height |-> n, channels |-> c]

MISSING_TEXTURE == Texture(Square(2, 4), 16, "MISSING_TEXTURE")
NewTexture      == Texture(Square(0, 0), 0, "nothing")
NoTexture       == Texture(Square(0, 0), -1, "nothing")   (* the process died *)

Pixels(p) == p.width * p.height * p.channels

Fits_NotZero(p) == p.width > 0 /\ p.height > 0

Fits(p) == p.width \in 1 .. 4095 /\ p.height \in 1 .. 4095

(* AssetTexture::Load.  An image that fits is copied, with its pixels; one *)
(* that does not leaves the asset as constructed.  After a failed          *)
(* stbi_load the sizes are leftovers: if they happen to fit, so many bytes *)
(* are copied from a null pointer.                                         *)
Copied_FourChannels(i) == Texture(Picture[i], Picture[i].width * Picture[i].height * 4, i)

Copied(i) == Texture(Picture[i], Pixels(Picture[i]), i)

LoadReadable(i) == IF Fits(Picture[i]) THEN Copied(i) ELSE NewTexture

LoadUnreadable(p) ==
  IF ~ Fits(p) THEN MISSING_TEXTURE
  ELSE IF Pixels(p) # 0 THEN NoTexture
  ELSE Texture(p, 0, "nothing")

LoadTexture(i) ==
  IF i \in Unreadable THEN {LoadUnreadable(p) : p \in Leftovers} ELSE {LoadReadable(i)}
-----------------------------------------------------------------------------
(* SerialBuffer::Reallocate: the size of nothing is the size of before.    *)
Reallocate(b, n) ==
  IF n > 0 THEN [allocated |-> n, size |-> n] ELSE [b EXCEPT !.allocated = 0]

(* Data and C_Data at an offset: null for a buffer whose size is 0, else   *)
(* an assert that the offset is inside.                                    *)
Reachable(b, offset) == b.size = 0 \/ offset < b.size

(* Whether the whole buffer can be read, which is asked of 0 bytes too.    *)
Readable(b) == b.size <= b.allocated

HeaderSize  == 21     (* EX_HEADER_SIZE: size, name and type of a block     *)
TextureHead == 5      (* m_width, m_height, m_channels                      *)
BlockLimit  == 68157440

(* What Encode asks of Reallocate.                                         *)
EncodedSize_NoChannels(a) ==
  IF a.kind = "texture" THEN TextureHead - 1 + Pixels(a) ELSE a.bytes

EncodedSize(a) ==
  IF a.kind = "texture" THEN TextureHead + Pixels(a) ELSE a.bytes

(* The block SaveResources writes of an asset encoded into b, and what a   *)
(* Decode makes of it, which sizes the pixels by the product it reads.     *)
Block(n, a, b) == [size |-> HeaderSize + b.size, name |-> n, asset |-> a]

Decoded_Transposed(a) ==
  [a EXCEPT !.width = a.height, !.height = a.width]

Decoded_ThreeChannels(a) ==
  IF a.kind = "texture" THEN [a EXCEPT !.bytes = a.width * a.height * 3] ELSE a

Decoded(a) ==
  IF a.kind = "texture" THEN [a EXCEPT !.bytes = Pixels(a)] ELSE a

(* The asserts of Decode, the reads past the buffer its second assert does *)
(* not see, and the bytes an application's asset reads.                    *)
Decodes(a, b) ==
  IF a.kind = "texture"
    THEN Reachable(b, TextureHead) /\ b.size >= TextureHead + Pixels(a)
    ELSE Readable(b)
-----------------------------------------------------------------------------
Start(b) ==
  /\ pc = "off"
  /\ Goto("create")
  /\ build' = b
  /\ UNCHANGED << factories, assets, loopVars, diskVars >>

After == [create |-> "save", save |-> "load", load |-> "get", run |-> "run"]

(* CreateAsset: in a debug build the asset is made and mapped, unless the  *)
(* name is taken; that return is before the factory is registered.         *)
Registered_ReleaseOnly(kind) ==
  IF build = "release" THEN factories \cup {kind} ELSE factories

Registered(kind) == factories \cup {kind}

Create(n, a) ==
  /\ pc \in {"create", "run"}
  /\ pc = "create" => n = Wup /\ a.kind = "texture"
  /\ IF build = "debug" /\ n \in DOMAIN assets
       THEN Goto(After[pc]) /\ UNCHANGED << factories, assets >>
     ELSE IF build = "debug" /\ a = NoTexture
       THEN Die("nullPixels") /\ UNCHANGED << factories, assets >>
     ELSE /\ factories' = Registered(a.kind)
          /\ assets' = IF build = "debug" THEN Put(assets, n, a) ELSE assets
          /\ Goto(After[pc])
  /\ UNCHANGED << build, loopVars, diskVars >>

CreateTexture(n, i) == \E a \in LoadTexture(i) : Create(n, a)

CreateOther(n, size) == Create(n, Other(size))

Clear ==
  /\ pc = "run"
  /\ assets' = NoAssets
  /\ UNCHANGED << pc, build, factories, loopVars, diskVars, fault >>
-----------------------------------------------------------------------------
SaveSkipped ==
  /\ pc = "save"
  /\ build = "release" \/ madeDir
  /\ Goto(After[pc])
  /\ UNCHANGED << build, factories, assets, loopVars, diskVars >>

SaveBegin ==
  /\ pc \in {"save", "run"}
  /\ build = "debug" /\ ~ madeDir
  /\ Goto("saving")
  /\ ret' = After[pc]
  /\ madeDir' = TRUE
  /\ file' = EmptyFile
  /\ buff' = NewBuffer
  /\ todo' = DOMAIN assets
  /\ UNCHANGED << build, factories, assets, at, before >>

(* One turn of the loop: the asset is encoded, a block of it written.      *)
Append(block, b) ==
  file' = [size   |-> file.size + HeaderSize + b.size,
           blocks |-> Put(file.blocks, file.size, block)]

SaveAsset ==
  /\ pc = "saving"
  /\ todo # {}
  /\ LET n == Min(todo)
         a == assets[n]
         b == Reallocate(buff, EncodedSize(a))
     IN  /\ buff' = b
         /\ \/ /\ a.kind = "texture" /\ ~ Reachable(b, TextureHead)
               /\ Die("emptyTexture")
               /\ UNCHANGED << todo, file >>
            \/ /\ a.kind = "other" /\ ~ Readable(b)
               /\ Die("nullBuffer")
               /\ UNCHANGED << todo, file >>
            \/ /\ a.kind = "texture" => Reachable(b, TextureHead)
               /\ Readable(b)
               /\ todo' = todo \ {n}
               /\ Append(Block(n, a, b), b)
               /\ UNCHANGED << pc, fault >>
  /\ UNCHANGED << build, factories, assets, ret, at, before, madeDir >>

(* The local variables of a save or a load end with it.                    *)
Return ==
  /\ Goto(ret)
  /\ ret' = "run"
  /\ buff' = NewBuffer
  /\ todo' = {}
  /\ at' = 0
  /\ before' = NoAssets

SaveEnd ==
  /\ pc = "saving"
  /\ todo = {}
  /\ assets' = NoAssets
  /\ Return
  /\ UNCHANGED << build, factories, diskVars >>
-----------------------------------------------------------------------------
LoadSkipped ==
  /\ pc = "load"
  /\ file.size = 0
  /\ Goto(After[pc])
  /\ UNCHANGED << build, factories, assets, loopVars, diskVars >>

LoadBegin ==
  /\ pc \in {"load", "run"}
  /\ file.size # 0
  /\ Goto("loading")
  /\ ret' = After[pc]
  /\ at' = 0
  /\ buff' = NewBuffer
  /\ before' = assets
  /\ UNCHANGED << build, factories, assets, todo, diskVars >>

(* "No asset should be bigger than 65 megabytes!"                          *)
WithinLimit_64(size) == size < 67000000

WithinLimit(size) == size < BlockLimit

NextBlock_AssetSize(block) == at + block.size - HeaderSize

NextBlock(block) == at + block.size

(* One turn of the loop: the block at the offset is copied to the buffer,  *)
(* and an asset of its kind made, decoded and mapped.  What is read at an  *)
(* offset inside a block is anything.                                      *)
LoadBlockAt(block) ==
  /\ buff' = Reallocate(buff, block.size - HeaderSize)
  /\ \/ /\ ~ WithinLimit(block.size)
        /\ Die("limit")
        /\ UNCHANGED << assets, at >>
     \/ /\ WithinLimit(block.size)
        /\ block.asset.kind \notin factories
        /\ Die("noFactory")
        /\ UNCHANGED << assets, at >>
     \/ /\ WithinLimit(block.size)
        /\ block.asset.kind \in factories
        /\ IF Decodes(block.asset, buff')
             THEN /\ assets' = Put(assets, block.name, Decoded(block.asset))
                  /\ at' = NextBlock(block)
                  /\ UNCHANGED << pc, fault >>
             ELSE Die("decode") /\ UNCHANGED << assets, at >>

LoadBlock ==
  /\ pc = "loading"
  /\ at < file.size
  /\ IF at \notin DOMAIN file.blocks
       THEN Die("astray") /\ UNCHANGED << buff, assets, at >>
       ELSE LoadBlockAt(file.blocks[at])
  /\ UNCHANGED << build, factories, ret, todo, before, diskVars >>

LoadEnd ==
  /\ pc = "loading"
  /\ at >= file.size
  /\ Return
  /\ UNCHANGED << build, factories, assets, diskVars >>

(* The bytes glTexImage2D takes from an asset: CreateTexture calls pixels  *)
(* of fewer than 4 channels pixels of 3, and as OpenGL has it by default,  *)
(* each row but the last ends at a multiple of 4.                          *)
UploadReads(a) ==
  LET row     == a.width * (IF a.channels = 4 THEN 4 ELSE 3)
      aligned == 4 * ((row + 3) \div 4)
  IN  IF a.height = 0 THEN 0 ELSE (a.height - 1) * aligned + row

(* Initialise makes a GL texture of what GetAsset cast to AssetTexture; a  *)
(* read past the pixels kills it or goes unnoticed.                        *)
GetAsset ==
  /\ pc = "get"
  /\ IF Wup \notin DOMAIN assets
       THEN Die("nullAsset")
     ELSE IF assets[Wup].channels \notin 1 .. 4
       THEN Die("channels")
     ELSE \/ Goto("run")
          \/ UploadReads(assets[Wup]) > assets[Wup].bytes /\ Die("overread")
  /\ UNCHANGED << build, factories, assets, loopVars, diskVars >>

DeleteDirectory ==
  /\ pc \in {"off", "run"}
  /\ madeDir' = FALSE
  /\ file' = EmptyFile
  /\ UNCHANGED << pc, build, factories, assets, loopVars, fault >>

(* The next run has a manager, and a factory table, of its own.            *)
NewFactories_Static == factories

NewFactories == {}

End ==
  /\ pc = "run"
  /\ Goto("off")
  /\ assets' = NoAssets
  /\ factories' = NewFactories
  /\ UNCHANGED << build, loopVars, diskVars >>

Init ==
  /\ pc = "off"
  /\ ret = "run"
  /\ build = "debug"
  /\ factories = {}
  /\ assets = NoAssets
  /\ buff = NewBuffer
  /\ todo = {}
  /\ at = 0
  /\ madeDir = FALSE
  /\ file = EmptyFile
  /\ fault = "none"
  /\ before = NoAssets

Next ==
  \/ \E b \in {"debug", "release"} : Start(b)
  \/ \E n \in Names, i \in Images \cup Unreadable : CreateTexture(n, i)
  \/ \E n \in Names, size \in Payloads : CreateOther(n, size)
  \/ Clear
  \/ SaveSkipped
  \/ SaveBegin
  \/ SaveAsset
  \/ SaveEnd
  \/ LoadSkipped
  \/ LoadBegin
  \/ LoadBlock
  \/ LoadEnd
  \/ GetAsset
  \/ DeleteDirectory
  \/ End

Spec == Init /\ [][Next]_vars
-----------------------------------------------------------------------------
Kinds == {"texture", "other"}

Asset ==
  [kind : Kinds, width : 0 .. 4095, height : 0 .. 4095, channels : Int, bytes : Nat,
   of : Images \cup {"MISSING_TEXTURE", "nothing"}]

PartialMap(f, S, T) == DOMAIN f \subseteq S /\ \A x \in DOMAIN f : f[x] \in T

(* Every variable has its type, and the run is dead exactly when a fault   *)
(* killed it.                                                              *)
TypeOK ==
  /\ pc \in DOMAIN After \cup {"off", "get", "saving", "loading", "dead"}
  /\ ret \in {"load", "get", "run"}
  /\ build \in {"debug", "release"}
  /\ factories \subseteq Kinds
  /\ PartialMap(assets, Names, Asset)
  /\ buff \in [allocated : Nat, size : Nat]
  /\ todo \subseteq Names
  /\ at \in Nat
  /\ madeDir \in BOOLEAN
  /\ file.size \in Nat
  /\ PartialMap(file.blocks, Nat, [size : Nat, name : Names, asset : Asset])
  /\ pc = "dead" <=> fault # "none"
  /\ PartialMap(before, Names, Asset)

(* The pixels of a texture are as many as its width, height and channels   *)
(* say, so Encode, which copies that many, reads no byte behind them,      *)
(* whatever the image was and wherever the asset comes from.               *)
PixelsMatch ==
  \A n \in DOMAIN assets :
    assets[n].kind = "texture" => assets[n].bytes = Pixels(assets[n])

(* A save dies of nothing but an empty asset: a texture that got no        *)
(* pixels, or an asset of no bytes that finds the size of the one before.  *)
SaveDiesOfEmpties ==
  todo # {} /\ pc = "dead" => assets[Min(todo)].bytes = 0

(* A file of nothing but textures is loaded to its end, with the largest   *)
(* of them too: every block within the limit, and in a buffer of its size. *)
TexturesLoad ==
  fault \in {"limit", "decode", "noFactory"} =>
    \E o \in DOMAIN file.blocks : file.blocks[o].asset.kind # "texture"

(* The loop of LoadResources always stands at the start of a block, or at  *)
(* the end of the file, although it only ever adds up what the blocks say. *)
LoaderStaysOnBlocks ==
  pc = "loading" => at \in DOMAIN file.blocks \cup {file.size}

(* What has been made or loaded has its factory: a manager that saves can  *)
(* load what it saved.                                                     *)
MappedKindsRegistered == {assets[n].kind : n \in DOMAIN assets} \subseteq factories

(* Initialise casts what it gets under its name without asking for its     *)
(* kind; it is a texture, although the application may have saved another  *)
(* kind under that name, because no run knows the other kind so early.     *)
CastIsSound == pc = "get" /\ Wup \in DOMAIN assets => assets[Wup].kind = "texture"

(* An upload reads past the pixels only of a texture with fewer than 3     *)
(* channels, or with 3 and rows that do not fill words: of any other it    *)
(* finds all it takes, however often the texture was saved and loaded.     *)
WordRowsUploadWhole ==
  [][pc = "get" /\ fault' = "overread" =>
       \/ assets[Wup].channels < 3
       \/ assets[Wup].channels = 3 /\ assets[Wup].width % 4 # 0]_vars

(* Blocks, buffer and factories implement the store: what is loaded is     *)
(* what was saved, asset for asset.                                        *)
StoredAssets ==
  LET block(n) == CHOOSE b \in {file.blocks[o] : o \in DOMAIN file.blocks} : b.name = n
  IN  [n \in {file.blocks[o].name : o \in DOMAIN file.blocks} |-> Decoded(block(n).asset)]

LoadedAssets ==
  CASE pc = "loading" -> before [] pc = "dead" -> NoAssets [] OTHER -> assets

MadeAssets ==
  (UNION {LoadTexture(i) : i \in Images \cup Unreadable}) \cup {Other(n) : n \in Payloads}

Store == INSTANCE AssetStore WITH
  Contents <- MadeAssets,
  up       <- pc \notin {"off", "dead"},
  loaded   <- LoadedAssets,
  stored   <- IF pc = "saving" THEN NoAssets ELSE StoredAssets

ImplementsStore == Store!Spec
-----------------------------------------------------------------------------
(* What the repository says of the assets and its code does not do.        *)

(* AssetTexture.hpp: MISSING_TEXTURE is "used to replace textures that are *)
(* invalid due to a runtime issue, or missing/corrupt file".  So no        *)
(* texture CreateAsset has made is without pixels.                         *)
InvalidIsMissing == \A n \in DOMAIN assets : assets[n] # NewTexture
=============================================================================
