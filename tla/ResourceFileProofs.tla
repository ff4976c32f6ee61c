------------------------- MODULE ResourceFileProofs -------------------------
(***************************************************************************)
(* Theorems about ResourceFile, for all names, images, leftovers and sizes *)
(* of the application's assets: the types, every invariant its run checks, *)
(* and that it implements AssetStore.  All rest on one inductive           *)
(* invariant, IInv.                                                        *)
(***************************************************************************)
EXTENDS ResourceFile, TLAPS, FiniteSetTheorems, WellFoundedInduction

(* The loop of SaveResources has a next name.                              *)
LEMMA MinIsFirst ==
  ASSUME NEW S \in SUBSET Nat, S # {}
  PROVE  Min(S) \in S
  <1> DEFINE T == {0 .. n : n \in S}
  <1>1. T # {} /\ T \subseteq FiniteSubsetsOf(Nat)
    <2>1. ASSUME NEW n \in S
          PROVE  IsFiniteSet(0 .. n) /\ 0 .. n \subseteq Nat
      <3>1. 0 \in Int /\ n \in Int
        OBVIOUS
      <3> QED
        BY <3>1, FS_Interval
    <2> QED
      BY <2>1 DEF FiniteSubsetsOf
  <1>2. IsWellFoundedOn(StrictSubsetOrdering(Nat), FiniteSubsetsOf(Nat))
    BY FS_StrictSubsetOrderingWellFounded
  <1>3. PICK I \in T : \A J \in T : << J, I >> \notin StrictSubsetOrdering(Nat)
    BY <1>1, <1>2, WFMin
  <1>4. PICK x \in S : I = 0 .. x
    OBVIOUS
  <1>5. ASSUME NEW y \in S, ~ x =< y
        PROVE  FALSE
    <2>1. 0 .. y \in SUBSET Nat /\ 0 .. x \in SUBSET Nat /\ 0 .. y \subseteq 0 .. x
      BY <1>5
    <2>2. x \in 0 .. x /\ x \notin 0 .. y
      BY <1>5
    <2>3. 0 .. y # 0 .. x
      BY <2>2
    <2>4. << 0 .. y, 0 .. x >> \in StrictSubsetOrdering(Nat)
      BY <2>1, <2>3 DEF StrictSubsetOrdering
    <2> QED
      BY <1>3, <1>4, <2>4
  <1> QED
    BY <1>5 DEF Min

-----------------------------------------------------------------------------
MaxPixels == 4095 * 4095 * 4

GoodAssets ==
  {a \in Asset : a.kind = "texture" => a.bytes = Pixels(a) /\ a.bytes <= MaxPixels}

LEMMA TimesBound ==
  ASSUME NEW v \in Nat, NEW w \in Nat, NEW m \in Nat, NEW n \in Nat, v <= m, w <= n
  PROVE  v * w \in Nat /\ v * w <= m * n
  BY SMT

LEMMA ProductBound ==
  ASSUME NEW w \in Nat, NEW h \in Nat, NEW c \in Nat, NEW m \in Nat, NEW k \in Nat,
         w <= m, h <= m, c <= k
  PROVE  w * h * c \in Nat /\ w * h * c <= m * m * k
  <1>1. w * h \in Nat /\ w * h <= m * m
    BY TimesBound, Zenon
  <1>2. m * m \in Nat
    BY SMT
  <1> QED
    BY <1>1, <1>2, TimesBound, Zenon

Small(p) ==
  /\ p.width \in 1 .. 4095 /\ p.height \in 1 .. 4095 /\ p.channels \in 1 .. 4
  /\ Pixels(p) \in Nat /\ Pixels(p) <= MaxPixels

LEMMA FitsIsSmall ==
  ASSUME NEW p \in [width : Nat, height : Nat, channels : 1 .. 4], Fits(p)
  PROVE  Small(p)
  <1> DEFINE w == p.width
             h == p.height
             c == p.channels
             m == 4095
             k == 4
  <1>1. w \in 1 .. 4095 /\ h \in 1 .. 4095 /\ c \in 1 .. 4
    BY DEF Fits
  <1>2. m \in Nat /\ k \in Nat /\ w \in 1 .. m /\ h \in 1 .. m /\ c \in 1 .. k
    BY <1>1
  <1>3. Pixels(p) = w * h * c /\ MaxPixels = m * m * k
    BY SMT DEF Pixels, MaxPixels
  <1> HIDE DEF w, h, c, m, k
  <1>4. w \in Nat /\ h \in Nat /\ c \in Nat /\ w <= m /\ h <= m /\ c <= k
    BY <1>2
  <1>5. w * h * c \in Nat /\ w * h * c <= m * m * k
    BY <1>2, <1>4, ProductBound, Zenon
  <1> QED
    BY <1>1, <1>3, <1>5 DEF w, h, c, Small

Sides  == 0 .. 4095
Origin == Images \cup {"MISSING_TEXTURE", "nothing"}

LEMMA AssetRecords ==
  Asset = [kind : Kinds, width : Sides, height : Sides, channels : Int, bytes : Nat,
           of : Origin]
  BY SMT DEF Asset, Sides, Origin

LEMMA TextureIsGood ==
  ASSUME NEW p, NEW n \in Nat, NEW o \in Origin,
         p.width \in Sides, p.height \in Sides, p.channels \in Int,
         n = Pixels(p), n <= MaxPixels
  PROVE  Texture(p, n, o) \in GoodAssets
  <1> DEFINE a == Texture(p, n, o)
  <1>1. "texture" \in Kinds
    BY DEF Kinds
  <1>2. a \in Asset
    BY <1>1, AssetRecords, Zenon DEF Texture
  <1>3. a.width = p.width /\ a.height = p.height /\ a.channels = p.channels /\ a.bytes = n
    BY Zenon DEF Texture
  <1> HIDE DEF a
  <1>4. a.bytes = Pixels(a) /\ a.bytes <= MaxPixels
    BY <1>3, Zenon DEF Pixels
  <1>5. a \in GoodAssets
    BY <1>2, <1>4, Zenon DEF GoodAssets
  <1> QED
    BY <1>5, Zenon DEF a

LEMMA SmallTextureIsGood ==
  ASSUME NEW p, NEW i \in Images, Small(p)
  PROVE  Texture(p, Pixels(p), i) \in GoodAssets
  <1>1. p.width \in Sides /\ p.height \in Sides /\ p.channels \in Int
    BY SMT DEF Small, Sides
  <1>2. Pixels(p) \in Nat /\ Pixels(p) <= MaxPixels
    BY SMT DEF Small
  <1>3. i \in Origin
    BY Zenon DEF Origin
  <1> QED
    BY <1>1, <1>2, <1>3, TextureIsGood, Zenon

LEMMA EmptyTextureIsGood ==
  ASSUME NEW p, p.width \in Sides, p.height \in Sides, p.channels \in Int,
         Pixels(p) = 0
  PROVE  Texture(p, 0, "nothing") \in GoodAssets
  <1>1. 0 \in Nat /\ 0 <= MaxPixels /\ "nothing" \in Origin
    BY SMT DEF MaxPixels, Origin
  <1> QED
    BY <1>1, TextureIsGood, Zenon

(* What CreateAsset is given is good, or Load died of it.                  *)
LEMMA MadeIsGood == MadeAssets \subseteq GoodAssets \cup {NoTexture}
  <1>1. ASSUME NEW i \in Images
        PROVE  LoadReadable(i) \in GoodAssets
    <2>1. Picture[i] \in [width : Nat, height : Nat, channels : 1 .. 4]
      BY <1>1, PictureAssumption
    <2>2. CASE Fits(Picture[i])
      <3>1. Small(Picture[i])
        BY <2>1, <2>2, FitsIsSmall, Zenon
      <3>2. Copied(i) \in GoodAssets
        BY <1>1, <3>1, SmallTextureIsGood, Zenon DEF Copied
      <3> QED
        BY <2>2, <3>2 DEF LoadReadable
    <2>3. NewTexture \in GoodAssets
      BY DEF NewTexture, Texture, Square, GoodAssets, Asset, Kinds, Pixels, MaxPixels
    <2> QED
      BY <2>2, <2>3 DEF LoadReadable
  <1>2. ASSUME NEW p \in Leftovers
        PROVE  LoadUnreadable(p) \in GoodAssets \cup {NoTexture}
    <2>1. p.width \in Int /\ p.height \in Int /\ p.channels \in Int
      BY LeftoversAssumption
    <2>2. MISSING_TEXTURE \in GoodAssets
      BY DEF MISSING_TEXTURE, Texture, Square, GoodAssets, Asset, Kinds, Pixels, MaxPixels
    <2>3. Fits(p) /\ Pixels(p) = 0 => Texture(p, 0, "nothing") \in GoodAssets
      <3>1. Fits(p) => p.width \in Sides /\ p.height \in Sides
        BY SMT DEF Fits, Sides
      <3> QED
        BY <2>1, <3>1, EmptyTextureIsGood, Zenon
    <2> QED
      BY <2>2, <2>3 DEF LoadUnreadable
  <1>3. \A n \in Payloads : Other(n) \in GoodAssets
    BY PayloadsAssumption DEF Other, GoodAssets, Asset, Kinds
  <1>4. \A i \in Images \cup Unreadable : LoadTexture(i) \subseteq GoodAssets \cup {NoTexture}
    BY <1>1, <1>2 DEF LoadTexture
  <1>5. ASSUME NEW a \in MadeAssets
        PROVE  a \in GoodAssets \cup {NoTexture}
    <2>1. \/ \E i \in Images \cup Unreadable : a \in LoadTexture(i)
          \/ \E n \in Payloads : a = Other(n)
      BY DEF MadeAssets
    <2> QED
      BY <1>3, <1>4, <2>1
  <1> QED
    BY <1>5

(* Decoding what was encoded of a good asset gives the asset.              *)
LEMMA GoodAssetFacts ==
  ASSUME NEW a \in GoodAssets
  PROVE  /\ Decoded(a) = a
         /\ a.kind \in Kinds /\ a.bytes \in Nat
         /\ EncodedSize(a) = IF a.kind = "texture" THEN TextureHead + a.bytes ELSE a.bytes
         /\ EncodedSize(a) \in Nat
         /\ a.kind = "texture" => a.bytes = Pixels(a) /\ a.bytes <= MaxPixels
  <1>1. a.kind \in Kinds /\ a.bytes \in Nat
    BY DEF GoodAssets, Asset
  <1>2. a.kind = "texture" => a.bytes = Pixels(a) /\ a.bytes <= MaxPixels
    BY DEF GoodAssets
  <1>3. [a EXCEPT !.bytes = a.bytes] = a
    BY DEF GoodAssets, Asset
  <1> QED
    BY <1>1, <1>2, <1>3 DEF Decoded, EncodedSize, TextureHead

-----------------------------------------------------------------------------
(* The inductive invariant.  Maps from names to assets.                    *)
IsMap(f) == f = [n \in DOMAIN f |-> f[n]] /\ PartialMap(f, Names, GoodAssets)

Basics ==
  /\ pc \in {"off", "create", "save", "saving", "load", "loading", "get", "run", "dead"}
  /\ ret \in {"load", "get", "run"}
  /\ build \in {"debug", "release"}
  /\ IsMap(assets) /\ IsMap(before)
  /\ buff \in [allocated : Nat, size : Nat]
  /\ at \in Nat
  /\ madeDir \in BOOLEAN
  /\ pc = "dead" <=> fault # "none"

(* Every run registers textures first, and until it has got its own knows  *)
(* no other kind.                                                          *)
KindsInv ==
  /\ MappedKindsRegistered
  /\ factories \subseteq Kinds
  /\ pc \in {"off", "create"} => factories = {}
  /\ pc \in {"save", "saving", "load", "loading", "get", "run"} => "texture" \in factories
  /\ \/ pc \in {"save", "load", "get"}
     \/ pc \in {"saving", "loading"} /\ ret # "run"
     => factories \subseteq {"texture"}

Offsets == DOMAIN file.blocks

NamesBelow(p) == {file.blocks[o].name : o \in {q \in Offsets : q < p}}

(* Blocks follow upon each other from the start of the file to its end,    *)
(* one for a name.                                                         *)
BlocksInv ==
  /\ file.size \in Nat
  /\ 0 \in Offsets \cup {file.size}
  /\ \A o \in Offsets :
       /\ o \in Nat /\ o < file.size
       /\ file.blocks[o] \in [size : Nat, name : Names, asset : GoodAssets]
       /\ file.blocks[o].size = HeaderSize + EncodedSize(file.blocks[o].asset)
       /\ file.blocks[o].asset.kind = "texture" => file.blocks[o].asset.bytes > 0
       /\ o + file.blocks[o].size \in Offsets \cup {file.size}
  /\ \A o, p \in Offsets :
       /\ o < p => o + file.blocks[o].size <= p
       /\ file.blocks[o].name = file.blocks[p].name => o = p

(* There is no file without its directory.                                 *)
DirInv ==
  /\ ~ madeDir => file = EmptyFile
  /\ pc = "saving" => madeDir

(* While a save is on its way the file holds the assets it is done with.   *)
SaveInv ==
  /\ pc \notin {"saving", "dead"} => todo = {}
  /\ todo \subseteq DOMAIN assets
  /\ pc = "saving" \/ todo # {} =>
       /\ NamesBelow(file.size) = DOMAIN assets \ todo
       /\ \A o \in Offsets : file.blocks[o].asset = assets[file.blocks[o].name]

(* While a load is on its way the blocks it is done with are mapped.       *)
LoadInv ==
  pc = "loading" =>
    /\ at \in Offsets \cup {file.size}
    /\ DOMAIN assets = DOMAIN before \cup NamesBelow(at)
    /\ \A o \in Offsets : o < at => assets[file.blocks[o].name] = file.blocks[o].asset
    /\ \A n \in DOMAIN before \ NamesBelow(at) : assets[n] = before[n]

IInv ==
  /\ Basics
  /\ KindsInv
  /\ BlocksInv
  /\ DirInv
  /\ SaveInv
  /\ LoadInv
  /\ SaveDiesOfEmpties
  /\ TexturesLoad

LEMMA PutFacts ==
  ASSUME NEW f, NEW k, NEW v
  PROVE  /\ DOMAIN Put(f, k, v) = DOMAIN f \cup {k}
         /\ Put(f, k, v) = [x \in DOMAIN Put(f, k, v) |-> Put(f, k, v)[x]]
         /\ \A x \in DOMAIN f : x # k => Put(f, k, v)[x] = f[x]
         /\ Put(f, k, v)[k] = v
  BY DEF Put

LEMMA PutMap ==
  ASSUME NEW f, IsMap(f), NEW n \in Names, NEW a \in GoodAssets
  PROVE  IsMap(Put(f, n, a))
  <1> DEFINE g == Put(f, n, a)
  <1>1. /\ DOMAIN g = DOMAIN f \cup {n} /\ g[n] = a
        /\ g = [x \in DOMAIN g |-> g[x]]
        /\ \A x \in DOMAIN f : x # n => g[x] = f[x]
    BY DEF Put
  <1> HIDE DEF g
  <1>2. \A x \in DOMAIN g : x \in Names /\ g[x] \in GoodAssets
    BY <1>1 DEF IsMap, PartialMap
  <1>3. IsMap(g)
    BY <1>1, <1>2 DEF IsMap, PartialMap
  <1> QED
    BY <1>3 DEF g

LEMMA NoAssetsFacts ==
  /\ DOMAIN NoAssets = {}
  /\ IsMap(NoAssets)
  /\ EmptyFile.size = 0 /\ DOMAIN EmptyFile.blocks = {}
  BY DEF NoAssets, EmptyFile, IsMap, PartialMap

LEMMA EmptyFileBlocks == file = EmptyFile => BlocksInv
  BY NoAssetsFacts DEF BlocksInv, Offsets

(* What is mapped anew is registered first.                                *)
LEMMA MappedOrPut ==
  ASSUME MappedKindsRegistered, NEW n, NEW a, a.kind \in factories',
         factories \subseteq factories', assets' = Put(assets, n, a)
  PROVE  MappedKindsRegistered'
  <1>1. /\ DOMAIN assets' = DOMAIN assets \cup {n} /\ assets'[n] = a
        /\ \A x \in DOMAIN assets : x # n => assets'[x] = assets[x]
    BY DEF Put
  <1>2. ASSUME NEW x \in DOMAIN assets'
        PROVE  assets'[x].kind \in factories'
    <2>1. CASE x = n
      BY <1>1, <2>1
    <2>2. CASE x # n
      BY <1>1, <2>2 DEF MappedKindsRegistered
    <2> QED
      BY <2>1, <2>2
  <1> QED
    BY <1>2 DEF MappedKindsRegistered

LEMMA AfterIs ==
  /\ After["create"] = "save"
  /\ After["save"] = "load"
  /\ After["load"] = "get"
  /\ After["run"] = "run"
  /\ DOMAIN After = {"create", "save", "load", "run"}
  BY DEF After

(* Steps outside save and load, and those that leave the file alone.       *)
LEMMA FileFrame ==
  ASSUME BlocksInv, DirInv, UNCHANGED diskVars, pc' # "saving"
  PROVE  BlocksInv' /\ DirInv'
  <1>1. UNCHANGED file /\ UNCHANGED madeDir
    BY DEF diskVars
  <1> QED
    BY <1>1 DEF BlocksInv, DirInv, Offsets

LEMMA IdleFrame ==
  ASSUME IInv, pc \notin {"saving", "dead"},
         todo' \subseteq todo, pc' \notin {"saving", "loading"},
         UNCHANGED fault
  PROVE  SaveInv' /\ LoadInv' /\ SaveDiesOfEmpties' /\ TexturesLoad'
  <1>1. fault = "none" /\ todo' = {}
    BY DEF IInv, Basics, SaveInv
  <1> QED
    BY <1>1 DEF SaveInv, LoadInv, SaveDiesOfEmpties, TexturesLoad

LEMMA CreateKeeps ==
  ASSUME IInv, NEW n \in Names, NEW a \in GoodAssets \cup {NoTexture}, Create(n, a)
  PROVE  IInv'
  <1>1. /\ pc \in {"create", "run"} /\ UNCHANGED << build, loopVars, diskVars >>
        /\ pc = "create" => a.kind = "texture"
    BY DEF Create
  <1>2. a.kind \in Kinds
    BY GoodAssetFacts DEF NoTexture, Texture, Kinds
  <1>3. CASE build = "debug" /\ n \in DOMAIN assets
    <2>1. pc' = After[pc] /\ UNCHANGED << factories, assets, fault >>
      BY <1>3 DEF Create, Goto
    <2>2. pc = "run"
      BY <1>1, <1>3 DEF IInv, KindsInv, MappedKindsRegistered
    <2>3. Basics' /\ KindsInv'
      BY <1>1, <2>1, <2>2, AfterIs DEF IInv, Basics, KindsInv, MappedKindsRegistered, loopVars, diskVars
    <2> QED
      BY <1>1, <2>1, <2>2, <2>3, AfterIs, FileFrame, IdleFrame DEF IInv, loopVars
  <1>4. CASE build = "debug" /\ n \notin DOMAIN assets /\ a = NoTexture
    <2>1. pc' = "dead" /\ fault' = "nullPixels" /\ UNCHANGED << factories, assets >>
      BY <1>4 DEF Create, Die
    <2>2. Basics' /\ KindsInv'
      BY <1>1, <2>1 DEF IInv, Basics, KindsInv, MappedKindsRegistered, loopVars, diskVars
    <2>3. todo' = {}
      BY <1>1 DEF IInv, SaveInv, loopVars
    <2>4. SaveInv' /\ LoadInv' /\ SaveDiesOfEmpties' /\ TexturesLoad'
      BY <2>1, <2>3 DEF SaveInv, LoadInv, SaveDiesOfEmpties, TexturesLoad
    <2> QED
      BY <1>1, <2>1, <2>2, <2>4, FileFrame DEF IInv
  <1>5. CASE build = "release" \/ (n \notin DOMAIN assets /\ a # NoTexture)
    <2>1. /\ pc' = After[pc] /\ UNCHANGED fault
          /\ factories' = factories \cup {a.kind}
          /\ assets' = IF build = "debug" THEN Put(assets, n, a) ELSE assets
      BY <1>5 DEF Create, Goto, Registered
    <2>2. IsMap(assets')
      BY <1>5, <2>1, PutMap DEF IInv, Basics
    <2>3. Basics'
      BY <1>1, <2>1, <2>2, AfterIs DEF IInv, Basics, loopVars, diskVars
    <2>4. MappedKindsRegistered'
      <3>1. CASE assets' = assets
        BY <2>1, <3>1 DEF IInv, KindsInv, MappedKindsRegistered
      <3>2. CASE assets' = Put(assets, n, a)
        BY <2>1, <3>2, MappedOrPut DEF IInv, KindsInv
      <3> QED
        BY <2>1, <3>1, <3>2
    <2>5. KindsInv'
      BY <1>1, <1>2, <2>1, <2>4, AfterIs DEF IInv, KindsInv
    <2> QED
      BY <1>1, <2>1, <2>3, <2>5, AfterIs, FileFrame, IdleFrame DEF IInv, loopVars
  <1>6. build \in {"debug", "release"}
    BY DEF IInv, Basics
  <1> QED
    BY <1>3, <1>4, <1>5, <1>6

(* Appending a block keeps the order of the blocks.                        *)
LEMMA AppendKeeps ==
  ASSUME BlocksInv, NEW n \in Names, NEW a \in GoodAssets,
         n \notin NamesBelow(file.size), a.kind = "texture" => a.bytes > 0,
         NEW b, b.size = EncodedSize(a), Append(Block(n, a, b), b)
  PROVE  /\ BlocksInv'
         /\ Offsets' = Offsets \cup {file.size}
         /\ file'.size > file.size
         /\ \A o \in Offsets : file'.blocks[o] = file.blocks[o]
         /\ file'.blocks[file.size].name = n /\ file'.blocks[file.size].asset = a
  <1> DEFINE e == file.size
             block == [size |-> HeaderSize + b.size, name |-> n, asset |-> a]
  <1>1. /\ file'.size = e + block.size
        /\ file'.blocks = Put(file.blocks, e, block)
        /\ e \in Nat /\ b.size \in Nat /\ block.size \in Nat /\ block.size > 0
    BY GoodAssetFacts DEF Append, Block, BlocksInv, HeaderSize
  <1>2. e \notin Offsets
    BY DEF BlocksInv
  <1>3. /\ Offsets' = Offsets \cup {e}
        /\ file'.blocks[e] = block
        /\ \A o \in Offsets : file'.blocks[o] = file.blocks[o]
    BY <1>1, <1>2 DEF Put, Offsets
  <1>4. block \in [size : Nat, name : Names, asset : GoodAssets]
    BY <1>1
  <1>5. /\ block.size = HeaderSize + EncodedSize(a) /\ block.name = n /\ block.asset = a
        /\ file'.size \in Nat /\ file'.size > e
    BY <1>1
  <1> HIDE DEF block
  <1>6. 0 \in Offsets' \cup {file'.size}
    BY <1>3 DEF BlocksInv
  <1>7. ASSUME NEW o \in Offsets'
        PROVE  /\ o \in Nat /\ o < file'.size
               /\ file'.blocks[o] \in [size : Nat, name : Names, asset : GoodAssets]
               /\ file'.blocks[o].size = HeaderSize + EncodedSize(file'.blocks[o].asset)
               /\ file'.blocks[o].asset.kind = "texture" => file'.blocks[o].asset.bytes > 0
               /\ o + file'.blocks[o].size \in Offsets' \cup {file'.size}
    <2>1. CASE o = e
      BY <1>1, <1>3, <1>4, <1>5, <2>1
    <2>2. CASE o \in Offsets
      <3>1. o \in Nat /\ o < e /\ file'.blocks[o] = file.blocks[o]
        BY <1>3, <2>2 DEF BlocksInv
      <3>2. o < file'.size
        BY <1>1, <1>5, <3>1
      <3> QED
        BY <1>3, <2>2, <3>1, <3>2 DEF BlocksInv
    <2> QED
      BY <1>3, <2>1, <2>2
  <1>8. ASSUME NEW o \in Offsets', NEW p \in Offsets'
        PROVE  /\ o < p => o + file'.blocks[o].size <= p
               /\ file'.blocks[o].name = file'.blocks[p].name => o = p
    <2>1. \A q \in Offsets : /\ q \in Nat /\ q < e /\ q + file.blocks[q].size <= e
                             /\ file.blocks[q].name # n
      <3>1. \A q \in Offsets : q \in Nat /\ q < e
        BY DEF BlocksInv
      <3>2. \A q \in Offsets : q + file.blocks[q].size <= e
        BY <3>1, <1>1 DEF BlocksInv
      <3>3. \A q \in Offsets : file.blocks[q].name # n
        BY <3>1 DEF NamesBelow
      <3> QED
        BY <3>1, <3>2, <3>3
    <2>2. CASE o = e /\ p = e
      BY <1>1, <2>2
    <2>3. CASE o = e /\ p \in Offsets
      BY <1>1, <1>3, <1>5, <2>1, <2>3
    <2>4. CASE o \in Offsets /\ p = e
      BY <1>1, <1>3, <1>5, <2>1, <2>4
    <2>5. CASE o \in Offsets /\ p \in Offsets
      BY <1>3, <2>5 DEF BlocksInv
    <2> QED
      BY <1>3, <2>2, <2>3, <2>4, <2>5
  <1>9. BlocksInv'
    BY <1>5, <1>6, <1>7, <1>8 DEF BlocksInv
  <1> QED
    BY <1>3, <1>5, <1>9

LEMMA SaveAssetKeeps ==
  ASSUME IInv, SaveAsset
  PROVE  IInv'
  <1> DEFINE n == Min(todo)
             a == assets[n]
             b == Reallocate(buff, EncodedSize(a))
  <1>1. /\ pc = "saving" /\ todo # {}
        /\ buff' = b
        /\ UNCHANGED << build, factories, assets, ret, at, before, madeDir >>
    BY DEF SaveAsset
  <1>2. todo \subseteq DOMAIN assets /\ todo \in SUBSET Nat
    BY NamesAssumption DEF IInv, Basics, SaveInv, IsMap, PartialMap
  <1>3. n \in todo /\ n \in Names /\ a \in GoodAssets
    BY <1>1, <1>2, MinIsFirst DEF IInv, Basics, IsMap, PartialMap
  <1>4. buff \in [allocated : Nat, size : Nat]
    BY DEF IInv, Basics
  <1>5. /\ a.kind \in Kinds /\ a.bytes \in Nat /\ EncodedSize(a) \in Nat
        /\ EncodedSize(a) = IF a.kind = "texture" THEN TextureHead + a.bytes ELSE a.bytes
    BY <1>3, GoodAssetFacts
  <1>6. /\ b \in [allocated : Nat, size : Nat]
        /\ EncodedSize(a) > 0 => b.size = EncodedSize(a) /\ b.allocated = b.size
        /\ EncodedSize(a) = 0 => b.size = buff.size /\ b.allocated = 0
    BY <1>4, <1>5 DEF Reallocate
  <1>7. /\ BlocksInv /\ SaveInv /\ LoadInv /\ Basics /\ KindsInv /\ DirInv /\ fault = "none"
    BY <1>1 DEF IInv, Basics
  <1>8. madeDir
    BY <1>7, <1>1 DEF DirInv
  <1> HIDE DEF n, a, b
  <1>9. CASE pc' = "dead"
    <2>1. /\ UNCHANGED << todo, file >> /\ fault' \in {"emptyTexture", "nullBuffer"}
          /\ \/ a.kind = "texture" /\ ~ Reachable(b, TextureHead)
             \/ a.kind = "other" /\ ~ Readable(b)
      BY <1>1, <1>9 DEF SaveAsset, Die, n, a, b
    <2>2. a.bytes = 0
      BY <1>5, <1>6, <2>1 DEF Reachable, Readable, TextureHead
    <2>3. Basics' /\ KindsInv'
      BY <1>1, <1>6, <1>7, <1>9, <2>1 DEF Basics, KindsInv, MappedKindsRegistered
    <2>4. BlocksInv' /\ DirInv'
      BY <1>1, <1>7, <1>8, <2>1 DEF BlocksInv, DirInv, Offsets
    <2>5. SaveInv'
      BY <1>1, <1>7, <1>9, <2>1 DEF SaveInv, NamesBelow, Offsets
    <2>6. LoadInv' /\ TexturesLoad'
      BY <1>9, <2>1 DEF LoadInv, TexturesLoad
    <2>7. SaveDiesOfEmpties'
      BY <1>1, <2>1, <2>2 DEF SaveDiesOfEmpties, n, a
    <2> QED
      BY <2>3, <2>4, <2>5, <2>6, <2>7 DEF IInv
  <1>10. CASE pc' # "dead"
    <2>1. /\ a.kind = "texture" => Reachable(b, TextureHead)
          /\ Readable(b) /\ todo' = todo \ {n}
          /\ Append(Block(n, a, b), b)
          /\ UNCHANGED << pc, fault >>
      BY <1>10 DEF SaveAsset, Die, n, a, b
    <2>2. b.size = EncodedSize(a) /\ (a.kind = "texture" => a.bytes > 0)
      BY <1>5, <1>6, <2>1 DEF Reachable, Readable, TextureHead
    <2>3. n \notin NamesBelow(file.size) /\ n \in DOMAIN assets
      BY <1>1, <1>2, <1>3, <1>7 DEF SaveInv
    <2>4. /\ BlocksInv'
          /\ Offsets' = Offsets \cup {file.size}
          /\ file'.size > file.size
          /\ \A o \in Offsets : file'.blocks[o] = file.blocks[o]
          /\ file'.blocks[file.size].name = n /\ file'.blocks[file.size].asset = a
      BY <1>3, <1>7, <2>1, <2>2, <2>3, AppendKeeps
    <2>5. Basics' /\ KindsInv' /\ DirInv'
      BY <1>1, <1>6, <1>7, <1>8, <2>1 DEF Basics, KindsInv, MappedKindsRegistered, DirInv
    <2>6. /\ NamesBelow(file.size)' = NamesBelow(file.size) \cup {n}
          /\ \A o \in Offsets : o < file.size
      <3>1. \A o \in Offsets : o < file.size /\ o \in Nat
        BY <1>7 DEF BlocksInv
      <3>2. file.size \in Nat /\ file'.size \in Nat
        BY <1>7, <2>4 DEF BlocksInv
      <3>3. \A o \in Offsets' : o < file'.size
        BY <2>4 DEF BlocksInv
      <3>4. NamesBelow(file.size) = {file.blocks[o].name : o \in Offsets}
        BY <3>1 DEF NamesBelow
      <3>5. NamesBelow(file.size)' = {file'.blocks[o].name : o \in Offsets'}
        BY <3>3 DEF NamesBelow
      <3> QED
        BY <2>4, <3>1, <3>4, <3>5
    <2>7. SaveInv'
      <3>1. \A o \in Offsets' : file'.blocks[o].asset = assets'[file'.blocks[o].name]
        BY <1>1, <1>7, <2>4 DEF SaveInv, a
      <3>2. NamesBelow(file.size)' = DOMAIN assets' \ todo'
        BY <1>1, <1>7, <2>1, <2>3, <2>6 DEF SaveInv
      <3> QED
        BY <1>1, <1>2, <2>1, <3>1, <3>2 DEF SaveInv
    <2>8. LoadInv' /\ TexturesLoad' /\ SaveDiesOfEmpties'
      BY <1>1, <1>7, <2>1 DEF LoadInv, TexturesLoad, SaveDiesOfEmpties
    <2> QED
      BY <2>4, <2>5, <2>7, <2>8 DEF IInv
  <1> QED
    BY <1>9, <1>10

(* A texture that was saved is within the limit.                           *)
LEMMA TextureWithinLimit ==
  ASSUME NEW n \in Nat, n <= MaxPixels
  PROVE  WithinLimit(HeaderSize + TextureHead + n)
  BY SMT DEF MaxPixels, WithinLimit, HeaderSize, TextureHead, BlockLimit

LEMMA LoadBlockKeeps ==
  ASSUME IInv, LoadBlock
  PROVE  IInv'
  <1> DEFINE block == file.blocks[at]
             a == block.asset
  <1>1. /\ pc = "loading" /\ at < file.size /\ todo = {} /\ fault = "none"
        /\ UNCHANGED << build, factories, ret, todo, before, file, madeDir >>
    BY DEF LoadBlock, IInv, Basics, SaveInv, diskVars
  <1>2. Basics /\ KindsInv /\ BlocksInv /\ DirInv /\ LoadInv
    BY DEF IInv
  <1>3. at \in Offsets
    BY <1>1, <1>2 DEF LoadInv, Basics, BlocksInv
  <1>4. LoadBlockAt(block)
    BY <1>3 DEF LoadBlock, Offsets
  <1>5. /\ block \in [size : Nat, name : Names, asset : GoodAssets]
        /\ block.size = HeaderSize + EncodedSize(a)
        /\ a.kind = "texture" => a.bytes > 0
        /\ at + block.size \in Offsets \cup {file.size}
        /\ at \in Nat
    BY <1>2, <1>3 DEF BlocksInv
  <1> HIDE DEF block
  <1>6. /\ a \in GoodAssets /\ block.name \in Names /\ Decoded(a) = a
        /\ a.kind \in Kinds /\ a.bytes \in Nat /\ EncodedSize(a) \in Nat
        /\ EncodedSize(a) = IF a.kind = "texture" THEN TextureHead + a.bytes ELSE a.bytes
        /\ a.kind = "texture" => a.bytes = Pixels(a) /\ a.bytes <= MaxPixels
    BY <1>5, GoodAssetFacts
  <1>7. block.size \in Nat /\ block.size > 0 /\ block.size - HeaderSize = EncodedSize(a)
    BY <1>5, <1>6 DEF HeaderSize
  <1>8. buff \in [allocated : Nat, size : Nat]
    BY <1>2 DEF Basics
  <1>9. /\ buff' \in [allocated : Nat, size : Nat]
        /\ EncodedSize(a) > 0 => buff'.size = EncodedSize(a)
    BY <1>4, <1>6, <1>7, <1>8 DEF LoadBlockAt, Reallocate
  <1>10. BlocksInv' /\ SaveInv' /\ SaveDiesOfEmpties'
    BY <1>1, <1>2 DEF BlocksInv, Offsets, SaveInv, SaveDiesOfEmpties, LoadBlock, LoadBlockAt, Goto, Die
  <1>11. CASE pc' = "dead"
    <2>1. /\ UNCHANGED << assets, at >> /\ fault' \in {"limit", "noFactory", "decode"}
          /\ \/ ~ WithinLimit(block.size)
             \/ a.kind \notin factories
             \/ ~ Decodes(a, buff')
      BY <1>1, <1>4, <1>11 DEF LoadBlockAt, Die
    <2>2. ASSUME a.kind = "texture"
          PROVE  FALSE
      <3>1. block.size = HeaderSize + TextureHead + a.bytes
        BY <1>5, <1>6, <2>2 DEF HeaderSize, TextureHead
      <3>2. WithinLimit(block.size)
        BY <1>6, <2>2, <3>1, TextureWithinLimit
      <3>3. "texture" \in factories
        BY <1>1, <1>2 DEF KindsInv
      <3>4. Decodes(a, buff')
        BY <1>5, <1>6, <1>9, <2>2 DEF Decodes, Reachable, TextureHead
      <3> QED
        BY <2>1, <2>2, <3>2, <3>3, <3>4
    <2>3. TexturesLoad'
      BY <1>1, <1>3, <2>2 DEF TexturesLoad, Offsets, block
    <2>4. Basics' /\ KindsInv' /\ DirInv' /\ LoadInv'
      BY <1>1, <1>2, <1>9, <1>11, <2>1 DEF Basics, KindsInv, MappedKindsRegistered, DirInv, LoadInv
    <2> QED
      BY <1>10, <2>3, <2>4 DEF IInv
  <1>12. CASE pc' # "dead"
    <2>1. /\ a.kind \in factories /\ assets' = Put(assets, block.name, a)
          /\ at' = at + block.size /\ UNCHANGED << pc, fault >>
      BY <1>4, <1>6, <1>12 DEF LoadBlockAt, Die, NextBlock
    <2>2. IsMap(assets')
      BY <1>2, <1>6, <2>1, PutMap DEF Basics
    <2>3. at' \in Nat /\ at < at' /\ at' \in Offsets' \cup {file'.size}
      BY <1>1, <1>5, <1>7, <2>1 DEF Offsets
    <2>4. MappedKindsRegistered'
      BY <1>1, <1>2, <2>1, MappedOrPut DEF KindsInv
    <2>5. Basics' /\ KindsInv' /\ DirInv' /\ TexturesLoad'
      BY <1>1, <1>2, <1>9, <2>1, <2>2, <2>3, <2>4 DEF Basics, KindsInv, DirInv, TexturesLoad
    <2>6. \A q \in Offsets : q < at' <=> q < at \/ q = at
      <3>1. \A q \in Offsets : q \in Nat /\ (at < q => at' <= q)
        BY <1>2, <1>3, <2>1 DEF BlocksInv, block
      <3> QED
        BY <1>5, <2>3, <3>1
    <2>7. NamesBelow(at)' = NamesBelow(at) \cup {block.name}
      <3>1. NamesBelow(at)' = {file.blocks[q].name : q \in {q \in Offsets : q < at'}}
        BY <1>1 DEF NamesBelow, Offsets
      <3>2. {q \in Offsets : q < at'} = {q \in Offsets : q < at} \cup {at}
        BY <1>3, <2>6
      <3> QED
        BY <3>1, <3>2 DEF NamesBelow, block
    <2>8. /\ DOMAIN assets' = DOMAIN assets \cup {block.name}
          /\ assets'[block.name] = a
          /\ \A x \in DOMAIN assets : x # block.name => assets'[x] = assets[x]
      BY <2>1 DEF Put
    <2>9. /\ DOMAIN assets = DOMAIN before \cup NamesBelow(at)
          /\ \A o \in Offsets : o < at => assets[file.blocks[o].name] = file.blocks[o].asset
          /\ \A x \in DOMAIN before \ NamesBelow(at) : assets[x] = before[x]
      BY <1>1, <1>2 DEF LoadInv
    <2>10. ASSUME NEW o \in Offsets, o < at'
           PROVE  assets'[file.blocks[o].name] = file.blocks[o].asset
      <3>1. CASE o = at
        BY <2>8, <3>1 DEF block
      <3>2. CASE o < at
        <4>1. file.blocks[o].name # block.name
          <5>1. o \in Nat /\ o # at
            BY <1>2, <1>5, <3>2 DEF BlocksInv
          <5> QED
            BY <1>2, <1>3, <5>1 DEF BlocksInv, block
        <4>2. file.blocks[o].name \in DOMAIN assets
          BY <2>9, <3>2 DEF NamesBelow
        <4> QED
          BY <2>8, <2>9, <3>2, <4>1, <4>2
      <3> QED
        BY <2>6, <2>10, <3>1, <3>2
    <2>11. LoadInv'
      BY <1>1, <2>3, <2>7, <2>8, <2>9, <2>10 DEF LoadInv, Offsets
    <2> QED
      BY <1>10, <2>5, <2>11 DEF IInv
  <1> QED
    BY <1>11, <1>12

LEMMA NextKeeps == IInv /\ [Next]_vars => IInv'
  <1> SUFFICES ASSUME IInv, [Next]_vars
               PROVE  IInv'
    OBVIOUS
  <1>1. /\ Basics /\ KindsInv /\ BlocksInv /\ DirInv /\ SaveInv /\ LoadInv
        /\ SaveDiesOfEmpties /\ TexturesLoad
    BY DEF IInv
  <1>2. ASSUME NEW b \in {"debug", "release"}, Start(b)
        PROVE  IInv'
    <2>1. /\ pc = "off" /\ pc' = "create" /\ build' = b
          /\ UNCHANGED << factories, assets, loopVars, diskVars, fault >>
      BY <1>2 DEF Start, Goto
    <2>2. Basics' /\ KindsInv'
      BY <1>1, <2>1 DEF Basics, KindsInv, MappedKindsRegistered, loopVars, diskVars
    <2> QED
      BY <1>1, <2>1, <2>2, FileFrame, IdleFrame DEF IInv, loopVars
  <1>3. ASSUME NEW n \in Names, NEW i \in Images \cup Unreadable, CreateTexture(n, i)
        PROVE  IInv'
    <2>1. PICK a \in LoadTexture(i) : Create(n, a)
      BY <1>3 DEF CreateTexture
    <2>2. a \in GoodAssets \cup {NoTexture}
      BY MadeIsGood DEF MadeAssets
    <2> QED
      BY <2>1, <2>2, CreateKeeps
  <1>4. ASSUME NEW n \in Names, NEW size \in Payloads, CreateOther(n, size)
        PROVE  IInv'
    <2>1. Other(size) \in GoodAssets \cup {NoTexture}
      BY MadeIsGood DEF MadeAssets
    <2> QED
      BY <1>4, <2>1, CreateKeeps DEF CreateOther
  <1>5. CASE Clear
    <2>1. /\ pc = "run" /\ assets' = NoAssets
          /\ UNCHANGED << pc, build, factories, loopVars, diskVars, fault >>
      BY <1>5 DEF Clear
    <2>2. Basics' /\ KindsInv'
      BY <1>1, <2>1, NoAssetsFacts
         DEF Basics, KindsInv, MappedKindsRegistered, loopVars, diskVars
    <2> QED
      BY <1>1, <2>1, <2>2, FileFrame, IdleFrame DEF IInv, loopVars
  <1>6. CASE SaveSkipped \/ LoadSkipped
    <2>1. /\ pc \in {"save", "load"} /\ pc' = After[pc]
          /\ UNCHANGED << build, factories, assets, loopVars, diskVars, fault >>
      BY <1>6 DEF SaveSkipped, LoadSkipped, Goto
    <2>2. Basics' /\ KindsInv'
      BY <1>1, <2>1, AfterIs DEF Basics, KindsInv, MappedKindsRegistered, loopVars, diskVars
    <2> QED
      BY <1>1, <2>1, <2>2, AfterIs, FileFrame, IdleFrame DEF IInv, loopVars
  <1>7. CASE SaveBegin
    <2>1. /\ pc \in {"save", "run"} /\ pc' = "saving" /\ ret' = After[pc]
          /\ madeDir' = TRUE /\ file' = EmptyFile /\ buff' = NewBuffer
          /\ todo' = DOMAIN assets
          /\ UNCHANGED << build, factories, assets, at, before, fault >>
      BY <1>7 DEF SaveBegin, Goto
    <2>2. Basics' /\ KindsInv'
      BY <1>1, <2>1, AfterIs DEF Basics, KindsInv, MappedKindsRegistered, NewBuffer
    <2>3. BlocksInv' /\ DirInv'
      BY <2>1, NoAssetsFacts DEF BlocksInv, DirInv, Offsets
    <2>4. SaveInv'
      BY <2>1, NoAssetsFacts DEF SaveInv, NamesBelow, Offsets
    <2>5. LoadInv' /\ SaveDiesOfEmpties' /\ TexturesLoad'
      BY <1>1, <2>1 DEF Basics, LoadInv, SaveDiesOfEmpties, TexturesLoad
    <2> QED
      BY <2>2, <2>3, <2>4, <2>5 DEF IInv
  <1>8. CASE SaveAsset
    BY <1>8, SaveAssetKeeps
  <1>9. CASE SaveEnd \/ LoadEnd
    <2>1. /\ pc \in {"saving", "loading"} /\ pc' = ret /\ ret' = "run" /\ fault' = fault
          /\ buff' = NewBuffer /\ todo' = {} /\ at' = 0 /\ before' = NoAssets
          /\ assets' = assets \/ assets' = NoAssets
          /\ UNCHANGED << build, factories, diskVars >>
      BY <1>9 DEF SaveEnd, LoadEnd, Return, Goto
    <2>2. ret \in {"load", "get", "run"} /\ fault = "none"
      BY <1>1, <2>1 DEF Basics
    <2>3. Basics'
      BY <1>1, <2>1, <2>2, NoAssetsFacts DEF Basics, NewBuffer, diskVars
    <2>4. MappedKindsRegistered'
      BY <1>1, <2>1, NoAssetsFacts DEF KindsInv, MappedKindsRegistered
    <2>5. KindsInv'
      BY <1>1, <2>1, <2>2, <2>4 DEF KindsInv
    <2>6. SaveInv' /\ LoadInv' /\ SaveDiesOfEmpties' /\ TexturesLoad'
      BY <2>1, <2>2 DEF SaveInv, LoadInv, SaveDiesOfEmpties, TexturesLoad
    <2> QED
      BY <1>1, <2>1, <2>2, <2>3, <2>5, <2>6, FileFrame DEF IInv
  <1>10. CASE LoadBegin
    <2>1. /\ pc \in {"load", "run"} /\ pc' = "loading" /\ ret' = After[pc]
          /\ at' = 0 /\ buff' = NewBuffer /\ before' = assets
          /\ UNCHANGED << build, factories, assets, todo, diskVars, fault >>
      BY <1>10 DEF LoadBegin, Goto
    <2>2. Basics' /\ KindsInv'
      BY <1>1, <2>1, AfterIs
         DEF Basics, KindsInv, MappedKindsRegistered, NewBuffer, diskVars
    <2>3. NamesBelow(at)' = {}
      BY <1>1, <2>1 DEF NamesBelow, BlocksInv, Offsets, diskVars
    <2>4. \A o \in Offsets' : ~ o < at'
      BY <1>1, <2>1 DEF BlocksInv, Offsets, diskVars
    <2>5. LoadInv'
      BY <1>1, <2>1, <2>3, <2>4 DEF LoadInv, BlocksInv, Offsets, diskVars
    <2>6. SaveInv' /\ SaveDiesOfEmpties' /\ TexturesLoad'
      BY <1>1, <2>1 DEF Basics, SaveInv, SaveDiesOfEmpties, TexturesLoad
    <2> QED
      BY <1>1, <2>1, <2>2, <2>5, <2>6, FileFrame DEF IInv
  <1>11. CASE LoadBlock
    BY <1>11, LoadBlockKeeps
  <1>12. CASE GetAsset
    <2>1. /\ pc = "get" /\ UNCHANGED << build, factories, assets, loopVars, diskVars >>
          /\ \/ pc' = "run" /\ fault' = fault
             \/ pc' = "dead" /\ fault' \in {"nullAsset", "channels", "overread"}
      BY <1>12 DEF GetAsset, Goto, Die
    <2>2. Basics' /\ KindsInv'
      BY <1>1, <2>1 DEF Basics, KindsInv, MappedKindsRegistered, loopVars, diskVars
    <2>3. todo' = {} /\ fault' \notin {"limit", "decode", "noFactory"}
      BY <1>1, <2>1 DEF Basics, SaveInv, loopVars
    <2>4. SaveInv' /\ LoadInv' /\ SaveDiesOfEmpties' /\ TexturesLoad'
      BY <2>1, <2>3 DEF SaveInv, LoadInv, SaveDiesOfEmpties, TexturesLoad
    <2> QED
      BY <1>1, <2>1, <2>2, <2>4, FileFrame DEF IInv
  <1>13. CASE DeleteDirectory
    <2>1. /\ pc \in {"off", "run"} /\ madeDir' = FALSE /\ file' = EmptyFile
          /\ UNCHANGED << pc, build, factories, assets, loopVars, fault >>
      BY <1>13 DEF DeleteDirectory
    <2>2. Basics' /\ KindsInv'
      BY <1>1, <2>1 DEF Basics, KindsInv, MappedKindsRegistered, loopVars
    <2>3. BlocksInv' /\ DirInv'
      BY <2>1, NoAssetsFacts DEF BlocksInv, DirInv, Offsets
    <2> QED
      BY <1>1, <2>1, <2>2, <2>3, IdleFrame DEF IInv, loopVars
  <1>14. CASE End
    <2>1. /\ pc = "run" /\ pc' = "off" /\ assets' = NoAssets /\ factories' = {}
          /\ UNCHANGED << build, loopVars, diskVars, fault >>
      BY <1>14 DEF End, NewFactories, Goto
    <2>2. Basics' /\ KindsInv'
      BY <1>1, <2>1, NoAssetsFacts
         DEF Basics, KindsInv, MappedKindsRegistered, loopVars, diskVars
    <2> QED
      BY <1>1, <2>1, <2>2, FileFrame, IdleFrame DEF IInv, loopVars
  <1>15. CASE UNCHANGED vars
    BY <1>1, <1>15
       DEF vars, loopVars, diskVars, IInv, Basics, KindsInv, MappedKindsRegistered,
           BlocksInv, DirInv, SaveInv, LoadInv, SaveDiesOfEmpties, TexturesLoad,
           NamesBelow, Offsets
  <1> QED
    BY <1>2, <1>3, <1>4, <1>5, <1>6, <1>7, <1>8, <1>9, <1>10, <1>11, <1>12, <1>13, <1>14, <1>15
       DEF Next

LEMMA IInvHolds == Spec => []IInv
  <1>1. Init => IInv
    <2> SUFFICES ASSUME Init PROVE IInv
      OBVIOUS
    <2>1. Basics /\ KindsInv
      BY NoAssetsFacts DEF Init, Basics, KindsInv, MappedKindsRegistered, NewBuffer
    <2>2. BlocksInv /\ DirInv
      BY NoAssetsFacts, EmptyFileBlocks DEF Init, DirInv
    <2>3. SaveInv /\ LoadInv /\ SaveDiesOfEmpties /\ TexturesLoad
      BY DEF Init, SaveInv, LoadInv, SaveDiesOfEmpties, TexturesLoad
    <2> QED
      BY <2>1, <2>2, <2>3 DEF IInv
  <1> QED
    BY <1>1, NextKeeps, PTL DEF Spec
-----------------------------------------------------------------------------
(* Every variable has its type in every state.                             *)
THEOREM TypeCorrect == Spec => []TypeOK
  <1>1. IInv => TypeOK
    <2> SUFFICES ASSUME IInv PROVE TypeOK
      OBVIOUS
    <2>1. PartialMap(assets, Names, Asset) /\ PartialMap(before, Names, Asset)
      BY DEF IInv, Basics, IsMap, PartialMap, GoodAssets
    <2>2. PartialMap(file.blocks, Nat, [size : Nat, name : Names, asset : Asset])
      <3>1. ASSUME NEW o \in Offsets
            PROVE  o \in Nat /\ file.blocks[o] \in [size : Nat, name : Names, asset : Asset]
        BY DEF IInv, BlocksInv, GoodAssets
      <3> QED
        BY <3>1 DEF PartialMap, Offsets
    <2>3. todo \subseteq Names
      BY DEF IInv, Basics, SaveInv, IsMap, PartialMap
    <2>4. file.size \in Nat /\ factories \subseteq Kinds
      BY DEF IInv, BlocksInv, KindsInv
    <2> QED
      BY <2>1, <2>2, <2>3, <2>4, AfterIs DEF TypeOK, IInv, Basics
  <1> QED
    BY <1>1, IInvHolds, PTL

(* The pixels of every loaded texture are as many as it says.              *)
THEOREM PixelsAreAsSaid == Spec => []PixelsMatch
  <1>1. IInv => PixelsMatch
    BY GoodAssetFacts DEF IInv, Basics, IsMap, PartialMap, PixelsMatch
  <1> QED
    BY <1>1, IInvHolds, PTL

(* A save dies of nothing but an asset without bytes.                      *)
THEOREM OnlyEmptiesKillASave == Spec => []SaveDiesOfEmpties
  BY IInvHolds, PTL DEF IInv

(* A file of textures is loaded whole, the largest texture in it too.      *)
THEOREM TextureFilesLoad == Spec => []TexturesLoad
  BY IInvHolds, PTL DEF IInv

(* The loop over the blocks never leaves them.                             *)
THEOREM LoaderIsOnBlocks == Spec => []LoaderStaysOnBlocks
  <1>1. IInv => LoaderStaysOnBlocks
    BY DEF IInv, LoadInv, LoaderStaysOnBlocks, Offsets
  <1> QED
    BY <1>1, IInvHolds, PTL

(* Whatever a run has made or loaded, it has a factory for.                *)
THEOREM KindsRegistered == Spec => []MappedKindsRegistered
  BY IInvHolds, PTL DEF IInv, KindsInv

(* What Initialise gets is a texture, in every run over every file.        *)
THEOREM InitialiseGetsATexture == Spec => []CastIsSound
  <1>1. IInv => CastIsSound
    BY DEF IInv, KindsInv, MappedKindsRegistered, CastIsSound
  <1> QED
    BY <1>1, IInvHolds, PTL

LEMMA AssetSizes ==
  ASSUME NEW a \in Asset
  PROVE  a.width \in Nat /\ a.height \in Nat
  <1> DEFINE w == a.width
             h == a.height
  <1>1. w \in 0 .. 4095 /\ h \in 0 .. 4095
    BY DEF Asset
  <1> HIDE DEF w, h
  <1>2. w \in Nat /\ h \in Nat
    BY <1>1
  <1> QED
    BY <1>2 DEF w, h

(* A row that fills words is as long as OpenGL takes it for.               *)
LEMMA WordRows ==
  ASSUME NEW a, a.width \in Nat, a.height \in Nat,
         a.channels = 4 \/ (a.channels = 3 /\ a.width % 4 = 0)
  PROVE  ~ (UploadReads(a) > Pixels(a))
  <1> DEFINE w == a.width
             h == a.height
             c == a.channels
             row == w * c
             aligned == 4 * ((row + 3) \div 4)
  <1>1. w \in Nat /\ h \in Nat /\ c \in {3, 4}
    OBVIOUS
  <1>2. w * (IF c = 4 THEN 4 ELSE 3) = row
    BY <1>1
  <1>3. UploadReads(a) = IF h = 0 THEN 0 ELSE (h - 1) * aligned + row
    BY <1>2 DEF UploadReads
  <1>4. row \in Nat /\ row % 4 = 0
    <2>1. CASE c = 4
      BY <1>1, <2>1, \A n \in Nat : n * 4 \in Nat /\ (n * 4) % 4 = 0
    <2>2. CASE c = 3
      BY <1>1, <2>2, \A n \in Nat : n % 4 = 0 => n * 3 \in Nat /\ (n * 3) % 4 = 0
    <2> QED
      BY <1>1, <2>1, <2>2
  <1> HIDE DEF row
  <1>5. aligned = row
    BY <1>4
  <1>6. Pixels(a) = h * row
    <2>1. Pixels(a) = w * h * c
      BY DEF Pixels
    <2>2. w * h * c = h * (w * c)
      BY <1>1
    <2> QED
      BY <2>1, <2>2 DEF row
  <1> HIDE DEF w, h, c, aligned
  <1>7. h * row = (h - 1) * row + row /\ 0 * row = 0
    BY <1>1, <1>4
  <1> QED
    BY <1>1, <1>3, <1>4, <1>5, <1>6, <1>7

(* An upload reads too far only in rows that do not fill words.            *)
THEOREM UploadsAreWhole == Spec => WordRowsUploadWhole
  <1> DEFINE A == pc = "get" /\ fault' = "overread" =>
                    \/ assets[Wup].channels < 3
                    \/ assets[Wup].channels = 3 /\ assets[Wup].width % 4 # 0
  <1>1. IInv /\ [Next]_vars => [A]_vars
    <2> SUFFICES ASSUME IInv, Next, pc = "get", fault' = "overread"
                 PROVE  A
      OBVIOUS
    <2>1. GetAsset
      BY DEF Next, Start, CreateTexture, CreateOther, Create, Clear, SaveSkipped, SaveBegin,
             SaveAsset, SaveEnd, LoadSkipped, LoadBegin, LoadBlock, LoadEnd, DeleteDirectory, End
    <2> DEFINE a == assets[Wup]
    <2>2. fault = "none"
      BY DEF IInv, Basics
    <2>3. Wup \in DOMAIN assets /\ a.channels \in 1 .. 4 /\ UploadReads(a) > a.bytes
      BY <2>1, <2>2 DEF GetAsset, Goto, Die
    <2>4. a \in Asset /\ a.kind = "texture" /\ a.bytes = Pixels(a)
      BY <2>3 DEF IInv, Basics, IsMap, PartialMap, GoodAssets, KindsInv, MappedKindsRegistered
    <2> HIDE DEF a
    <2>5. a.width \in Nat /\ a.height \in Nat
      BY <2>4, AssetSizes
    <2>6. a.channels \in {1, 2, 3, 4}
      BY <2>3
    <2>7. ~ (a.channels = 4 \/ (a.channels = 3 /\ a.width % 4 = 0))
      BY <2>3, <2>4, <2>5, WordRows
    <2>8. a.channels < 3 \/ (a.channels = 3 /\ a.width % 4 # 0)
      BY <2>6, <2>7
    <2> QED
      BY <2>8 DEF a
  <1> QED
    BY <1>1, IInvHolds, PTL DEF Spec, WordRowsUploadWhole
-----------------------------------------------------------------------------
(* The refinement.  Functions are equal that agree wherever they are       *)
(* defined.                                                                *)
LEMMA SameMap ==
  ASSUME NEW f, NEW g,
         f = [x \in DOMAIN f |-> f[x]], g = [x \in DOMAIN g |-> g[x]],
         DOMAIN f = DOMAIN g, \A x \in DOMAIN f : f[x] = g[x]
  PROVE  f = g
  <1>1. [x \in DOMAIN f |-> f[x]] = [x \in DOMAIN g |-> g[x]]
    OBVIOUS
  <1> QED
    BY <1>1

(* The file holds, under every name, the asset of the one block of it.     *)
LEMMA StoredFacts ==
  ASSUME BlocksInv
  PROVE  /\ DOMAIN StoredAssets = NamesBelow(file.size)
         /\ StoredAssets = [n \in DOMAIN StoredAssets |-> StoredAssets[n]]
         /\ \A o \in Offsets : StoredAssets[file.blocks[o].name] = file.blocks[o].asset
  <1> DEFINE block(n) == CHOOSE b \in {file.blocks[o] : o \in DOMAIN file.blocks} : b.name = n
             N == {file.blocks[o].name : o \in DOMAIN file.blocks}
  <1>1. StoredAssets = [n \in N |-> Decoded(block(n).asset)]
    BY DEF StoredAssets
  <1>2. N = NamesBelow(file.size)
    <2>1. \A o \in Offsets : o < file.size
      BY DEF BlocksInv
    <2> QED
      BY <2>1 DEF NamesBelow, Offsets
  <1>3. ASSUME NEW o \in Offsets
        PROVE  block(file.blocks[o].name) = file.blocks[o]
    <2> DEFINE B == {file.blocks[p] : p \in DOMAIN file.blocks}
               m == file.blocks[o].name
    <2>1. file.blocks[o] \in B
      BY DEF Offsets
    <2>2. block(m) \in B /\ block(m).name = m
      BY <2>1
    <2>3. PICK p \in Offsets : block(m) = file.blocks[p]
      BY <2>2 DEF Offsets
    <2> HIDE DEF block
    <2>4. p = o
      BY <2>2, <2>3 DEF BlocksInv
    <2> QED
      BY <2>3, <2>4
  <1>4. ASSUME NEW o \in Offsets
        PROVE  StoredAssets[file.blocks[o].name] = file.blocks[o].asset
    <2>1. file.blocks[o].name \in N
      BY DEF Offsets
    <2>2. file.blocks[o].asset \in GoodAssets
      BY DEF BlocksInv
    <2> HIDE DEF block, N
    <2> QED
      BY <1>1, <1>3, <2>1, <2>2, GoodAssetFacts
  <1> HIDE DEF block, N
  <1> QED
    BY <1>1, <1>2, <1>4

LEMMA EmptyStores == file = EmptyFile => StoredAssets = NoAssets
  BY NoAssetsFacts DEF StoredAssets, NoAssets

(* The mapped variables, and what a step does to them.                     *)
Up == pc \notin {"off", "dead"}
Stored == IF pc = "saving" THEN NoAssets ELSE StoredAssets

Stutter == UNCHANGED << Up, LoadedAssets, Stored >>
Stop    == Up /\ ~ Up' /\ LoadedAssets' = NoAssets /\ UNCHANGED Stored

LEMMA StutterStutters == Stutter => [Store!Next]_Store!vars
  BY DEF Stutter, Store!vars, Up, Stored

LEMMA StopIsStop == Stop => Store!Stop
  BY DEF Stop, Store!Stop, Store!Nothing, NoAssets, Up, Stored

LEMMA FileKept == UNCHANGED file => UNCHANGED StoredAssets
  BY DEF StoredAssets

LEMMA CreateRefines ==
  ASSUME IInv, NEW n \in Names, NEW a \in MadeAssets, Create(n, a)
  PROVE  [Store!Next]_Store!vars
  <1>1. /\ pc \in {"create", "run"} /\ pc' \in {After[pc], "dead"}
        /\ UNCHANGED << build, loopVars, diskVars >>
    BY DEF Create, Goto, Die
  <1>2. Up /\ LoadedAssets = assets /\ UNCHANGED Stored
    BY <1>1, AfterIs, FileKept DEF Up, LoadedAssets, Stored, diskVars
  <1>3. CASE pc' = "dead"
    <2>1. Stop
      BY <1>1, <1>2, <1>3 DEF Stop, Up, LoadedAssets
    <2> QED
      BY <2>1, StopIsStop DEF Store!Next
  <1>4. CASE pc' = After[pc] /\ UNCHANGED assets
    BY <1>1, <1>2, <1>4, AfterIs, StutterStutters DEF Stutter, Up, LoadedAssets
  <1>5. CASE pc' = After[pc] /\ n \notin DOMAIN assets /\ assets' = Put(assets, n, a)
    <2>1. Up' /\ LoadedAssets' = Put(assets, n, a)
      BY <1>1, <1>5, AfterIs DEF Up, LoadedAssets
    <2>2. Store!Create(n, a)
      BY <1>2, <1>5, <2>1 DEF Store!Create, Up, Stored, Put
    <2> QED
      BY <2>2 DEF Store!Next
  <1>6. build \in {"debug", "release"}
    BY DEF IInv, Basics
  <1> QED
    BY <1>3, <1>4, <1>5, <1>6 DEF Create, Goto, Die

LEMMA SaveRefines ==
  ASSUME IInv, SaveBegin \/ SaveAsset \/ SaveEnd
  PROVE  [Store!Next]_Store!vars
  <1>1. Basics /\ BlocksInv /\ DirInv /\ SaveInv
    BY DEF IInv
  <1>2. CASE SaveBegin
    <2>1. /\ pc \in {"save", "run"} /\ pc' = "saving" /\ UNCHANGED assets
          /\ file = EmptyFile
      BY <1>1, <1>2 DEF SaveBegin, Goto, DirInv
    <2> QED
      BY <2>1, StutterStutters, EmptyStores DEF Stutter, Up, LoadedAssets, Stored
  <1>3. CASE SaveAsset /\ pc' # "dead"
    <2>1. pc = "saving" /\ pc' = "saving" /\ UNCHANGED assets
      BY <1>3 DEF SaveAsset, Die
    <2> QED
      BY <2>1, StutterStutters DEF Stutter, Up, LoadedAssets, Stored
  <1>4. CASE SaveAsset /\ pc' = "dead"
    <2>1. pc = "saving" /\ UNCHANGED << assets, file >>
      BY <1>4 DEF SaveAsset, Die
    <2> DEFINE part == DOMAIN assets \ todo
    <2>2. /\ Up /\ ~ Up' /\ Stored = NoAssets /\ LoadedAssets = assets
          /\ LoadedAssets' = NoAssets /\ Stored' = StoredAssets
      BY <1>4, <2>1, FileKept DEF Up, LoadedAssets, Stored
    <2>3. StoredAssets = Restrict(assets, part)
      <3>1. DOMAIN StoredAssets = part
        BY <1>1, <2>1, StoredFacts DEF SaveInv
      <3>2. ASSUME NEW n \in part
            PROVE  StoredAssets[n] = assets[n]
        <4>1. PICK o \in Offsets : file.blocks[o].name = n
          BY <1>1, <2>1 DEF SaveInv, NamesBelow
        <4> QED
          BY <1>1, <2>1, <4>1, StoredFacts DEF SaveInv
      <3>3. StoredAssets = [n \in part |-> StoredAssets[n]]
        BY <1>1, <3>1, StoredFacts
      <3> QED
        BY <3>2, <3>3 DEF Restrict
    <2>4. Store!DieSaving
      <3>1. part \in SUBSET DOMAIN assets
        OBVIOUS
      <3> HIDE DEF part
      <3> QED
        BY <2>2, <2>3, <3>1
           DEF Store!DieSaving, Store!Nothing, Store!Restrict, Restrict, NoAssets, Up, Stored
    <2> QED
      BY <2>4 DEF Store!Next
  <1>5. CASE SaveEnd
    <2>1. /\ pc = "saving" /\ todo = {} /\ pc' = ret /\ assets' = NoAssets
          /\ UNCHANGED file /\ ret \in {"load", "get", "run"}
      BY <1>1, <1>5 DEF SaveEnd, Return, Goto, diskVars, Basics
    <2>2. /\ Up /\ Up' /\ Stored = NoAssets /\ LoadedAssets = assets
          /\ LoadedAssets' = NoAssets /\ Stored' = StoredAssets
      BY <2>1, FileKept DEF Up, LoadedAssets, Stored
    <2>3. StoredAssets = assets
      <3>1. DOMAIN StoredAssets = DOMAIN assets
        BY <1>1, <2>1, StoredFacts DEF SaveInv
      <3>2. ASSUME NEW n \in DOMAIN assets
            PROVE  StoredAssets[n] = assets[n]
        <4>1. PICK o \in Offsets : file.blocks[o].name = n
          BY <1>1, <2>1 DEF SaveInv, NamesBelow
        <4> QED
          BY <1>1, <2>1, <4>1, StoredFacts DEF SaveInv
      <3> QED
        BY <1>1, <3>1, <3>2, StoredFacts, SameMap DEF Basics, IsMap
    <2>4. Store!Save
      BY <2>2, <2>3 DEF Store!Save, Store!Nothing, NoAssets, Up, Stored
    <2> QED
      BY <2>4 DEF Store!Next
  <1> QED
    BY <1>2, <1>3, <1>4, <1>5

LEMMA LoadRefines ==
  ASSUME IInv, LoadBegin \/ LoadBlock \/ LoadEnd
  PROVE  [Store!Next]_Store!vars
  <1>1. Basics /\ BlocksInv /\ LoadInv
    BY DEF IInv
  <1>2. UNCHANGED StoredAssets
    BY FileKept DEF LoadBegin, LoadBlock, LoadEnd, diskVars
  <1>3. CASE LoadBegin
    <2>1. pc \in {"load", "run"} /\ pc' = "loading" /\ before' = assets
      BY <1>3 DEF LoadBegin, Goto
    <2> QED
      BY <1>2, <2>1, StutterStutters DEF Stutter, Up, LoadedAssets, Stored
  <1>4. CASE LoadBlock
    <2>1. pc = "loading" /\ pc' \in {"loading", "dead"} /\ UNCHANGED before
      BY <1>4 DEF LoadBlock, LoadBlockAt, Die
    <2>2. CASE pc' = "loading"
      BY <1>2, <2>1, <2>2, StutterStutters DEF Stutter, Up, LoadedAssets, Stored
    <2>3. CASE pc' = "dead"
      <3>1. Stop
        BY <1>2, <2>1, <2>3 DEF Stop, Up, LoadedAssets, Stored
      <3> QED
        BY <3>1, StopIsStop DEF Store!Next
    <2> QED
      BY <2>1, <2>2, <2>3
  <1>5. CASE LoadEnd
    <2>1. /\ pc = "loading" /\ at >= file.size /\ pc' = ret /\ UNCHANGED assets
          /\ ret \in {"load", "get", "run"}
      BY <1>1, <1>5 DEF LoadEnd, Return, Goto, Basics
    <2>2. at = file.size
      BY <1>1, <2>1 DEF LoadInv, BlocksInv
    <2>3. /\ Up /\ Up' /\ LoadedAssets = before /\ LoadedAssets' = assets
          /\ Stored = StoredAssets /\ UNCHANGED Stored
      BY <1>2, <2>1 DEF Up, LoadedAssets, Stored
    <2>4. assets = [n \in DOMAIN StoredAssets \cup DOMAIN before |->
                      IF n \in DOMAIN StoredAssets THEN StoredAssets[n] ELSE before[n]]
      <3>1. DOMAIN assets = DOMAIN StoredAssets \cup DOMAIN before
        BY <1>1, <2>1, <2>2, StoredFacts DEF LoadInv
      <3>2. ASSUME NEW n \in DOMAIN StoredAssets
            PROVE  assets[n] = StoredAssets[n]
        <4>1. PICK o \in Offsets : o < file.size /\ file.blocks[o].name = n
          BY <1>1, <3>2, StoredFacts DEF NamesBelow
        <4> QED
          BY <1>1, <2>1, <2>2, <4>1, StoredFacts DEF LoadInv
      <3>3. ASSUME NEW n \in DOMAIN before, n \notin DOMAIN StoredAssets
            PROVE  assets[n] = before[n]
        BY <1>1, <2>1, <2>2, <3>3, StoredFacts DEF LoadInv
      <3>4. assets = [n \in DOMAIN assets |-> assets[n]]
        BY <1>1 DEF Basics, IsMap
      <3> QED
        BY <3>1, <3>2, <3>3, <3>4
    <2>5. Store!Load
      BY <2>3, <2>4 DEF Store!Load, Up, Stored
    <2> QED
      BY <2>5 DEF Store!Next
  <1> QED
    BY <1>3, <1>4, <1>5

LEMMA NextRefines == IInv /\ [Next]_vars => [Store!Next]_Store!vars
  <1> SUFFICES ASSUME IInv, [Next]_vars
               PROVE  [Store!Next]_Store!vars
    OBVIOUS
  <1>1. ASSUME NEW b \in {"debug", "release"}, Start(b)
        PROVE  [Store!Next]_Store!vars
    <2>1. pc = "off" /\ pc' = "create" /\ UNCHANGED << assets, file >>
      BY <1>1 DEF Start, Goto, diskVars
    <2>2. ~ Up /\ Up' /\ UNCHANGED << LoadedAssets, Stored >>
      BY <2>1, FileKept DEF Up, LoadedAssets, Stored
    <2> QED
      BY <2>2 DEF Store!Next, Store!Start, Up, Stored
  <1>2. ASSUME NEW n \in Names, NEW i \in Images \cup Unreadable, CreateTexture(n, i)
        PROVE  [Store!Next]_Store!vars
    <2>1. PICK a \in LoadTexture(i) : Create(n, a)
      BY <1>2 DEF CreateTexture
    <2>2. a \in MadeAssets
      BY DEF MadeAssets
    <2> QED
      BY <2>1, <2>2, CreateRefines
  <1>3. ASSUME NEW n \in Names, NEW size \in Payloads, CreateOther(n, size)
        PROVE  [Store!Next]_Store!vars
    <2>1. Other(size) \in MadeAssets
      BY DEF MadeAssets
    <2> QED
      BY <1>3, <2>1, CreateRefines DEF CreateOther
  <1>4. CASE Clear
    <2>1. pc = "run" /\ pc' = "run" /\ assets' = NoAssets /\ UNCHANGED file
      BY <1>4 DEF Clear, diskVars
    <2>2. Up /\ Up' /\ LoadedAssets' = NoAssets /\ UNCHANGED Stored
      BY <2>1, FileKept DEF Up, LoadedAssets, Stored
    <2> QED
      BY <2>2 DEF Store!Next, Store!Clear, Store!Nothing, NoAssets, Up, Stored
  <1>5. CASE SaveSkipped \/ LoadSkipped
    <2>1. pc \in {"save", "load"} /\ pc' = After[pc] /\ UNCHANGED << assets, file >>
      BY <1>5 DEF SaveSkipped, LoadSkipped, Goto, diskVars
    <2> QED
      BY <2>1, AfterIs, FileKept, StutterStutters DEF Stutter, Up, LoadedAssets, Stored
  <1>6. CASE GetAsset
    <2>1. pc = "get" /\ pc' \in {"run", "dead"} /\ UNCHANGED << assets, file >>
      BY <1>6 DEF GetAsset, Goto, Die, diskVars
    <2>2. CASE pc' = "run"
      BY <2>1, <2>2, FileKept, StutterStutters DEF Stutter, Up, LoadedAssets, Stored
    <2>3. CASE pc' = "dead"
      <3>1. Stop
        BY <2>1, <2>3, FileKept DEF Stop, Up, LoadedAssets, Stored
      <3> QED
        BY <3>1, StopIsStop DEF Store!Next
    <2> QED
      BY <2>1, <2>2, <2>3
  <1>7. CASE DeleteDirectory
    <2>1. pc \in {"off", "run"} /\ pc' = pc /\ UNCHANGED assets /\ file' = EmptyFile
      BY <1>7 DEF DeleteDirectory
    <2>2. StoredAssets' = NoAssets
      BY <2>1, NoAssetsFacts DEF StoredAssets, NoAssets
    <2>3. UNCHANGED << Up, LoadedAssets >> /\ Stored' = NoAssets
      BY <2>1, <2>2 DEF Up, LoadedAssets, Stored
    <2> QED
      BY <2>3 DEF Store!Next, Store!Lose, Store!Nothing, NoAssets, Up, Stored
  <1>8. CASE End
    <2>1. pc = "run" /\ pc' = "off" /\ assets' = NoAssets /\ UNCHANGED file
      BY <1>8 DEF End, Goto, diskVars
    <2>2. Stop
      BY <2>1, FileKept DEF Stop, Up, LoadedAssets, Stored
    <2> QED
      BY <2>2, StopIsStop DEF Store!Next
  <1>9. CASE UNCHANGED vars
    <2>1. UNCHANGED << pc, assets, before, file >>
      BY <1>9 DEF vars, loopVars, diskVars
    <2> QED
      BY <2>1, FileKept, StutterStutters DEF Stutter, Up, LoadedAssets, Stored
  <1> QED
    BY <1>1, <1>2, <1>3, <1>4, <1>5, <1>6, <1>7, <1>8, <1>9, SaveRefines, LoadRefines
       DEF Next

(* Blocks, buffer and factories implement the store of whole assets.       *)
THEOREM RefinesStore == Spec => ImplementsStore
  <1>1. Init => Store!Init
    <2> SUFFICES ASSUME Init PROVE Store!Init
      OBVIOUS
    <2>1. pc = "off" /\ assets = NoAssets /\ file = EmptyFile
      BY DEF Init
    <2>2. ~ Up /\ LoadedAssets = NoAssets /\ Stored = NoAssets
      BY <2>1, EmptyStores DEF Up, LoadedAssets, Stored
    <2> QED
      BY <2>2 DEF Store!Init, Store!Nothing, NoAssets, Up, Stored
  <1> QED
    BY <1>1, NextRefines, IInvHolds, PTL DEF Spec, ImplementsStore, Store!Spec
=============================================================================
