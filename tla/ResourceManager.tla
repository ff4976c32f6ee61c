--------------------------- MODULE ResourceManager ---------------------------
(***************************************************************************)
(* The resource manager over many runs of the game: the assets on the heap *)
(* and in the map m_loadedAssets, the resource file they are saved to and  *)
(* loaded from, and the engine's own client, GraphicsManager::Initialise,  *)
(* which creates, saves, loads and gets the texture Render then draws.     *)
(*                                                                         *)
(* Names are numbered in the order of the map.  The content of an asset is *)
(* the version of the image it was made from.  A resource file maps names  *)
(* to versions; a missing file and an empty one are both the empty map,    *)
(* since LoadResources returns from both.  A file cut off by a crash, or   *)
(* because the disk is full, has the names below the cut, and is torn if a *)
(* part of one more block is in.                                           *)
(*                                                                         *)
(* A run is one life of the engine.  Reading a null pointer, a deleted     *)
(* object or past the end of a buffer ends it: pc is "dead".               *)
(***************************************************************************)
EXTENDS Integers, FiniteSets

CONSTANTS
  Names,        (* the names of assets                                     *)
  Wup,          (* the name GraphicsManager::Initialise uses               *)
  MaxVersion,   (* bound: the edits of an image                            *)
  MaxObjects,   (* bound: the asset objects one run allocates              *)
  ClientOps,    (* what the application's hooks call                       *)
  DiskFailures  (* external: what can fail, "mkdir" and "write"            *)

ASSUME NamesAssumption   == Names \subseteq Nat /\ IsFiniteSet(Names) /\ Wup \in Names
ASSUME VersionAssumption == MaxVersion \in Nat
ASSUME ObjectsAssumption == MaxObjects \in Nat
ASSUME OpsAssumption     == ClientOps \subseteq {"Create", "Save", "Load", "Clear"}
ASSUME DiskAssumption    == DiskFailures \subseteq {"mkdir", "write"}

Versions == 0 .. MaxVersion
Objects  == 1 .. MaxObjects
NoAsset  == 0   (* nullptr *)

Pcs == {"off", "create", "save", "saving", "load", "get", "run", "dead"}

VARIABLES
  pc,           (* where the run of the game is, "off" between two runs     *)
  client,       (* the call in progress is an application's hook's          *)
  build,        (* "debug" or "release"                                     *)
  source,       (* external: the version of every image                     *)
  madeDir,      (* the directory Res/ro exists                              *)
  file,         (* Res/ro/resource.bin, of the debug builds                 *)
  torn,         (* file ends within a block                                 *)
  failed,       (* history: a save of this run could not write the file     *)
  shipped,      (* data/ro/resource.bin, of the release builds              *)
  shippedTorn,  (* shipped ends within a block                              *)
  heap,         (* the asset objects allocated, with their contents         *)
  next,         (* the next object to be allocated                          *)
  assets,       (* m_loadedAssets                                           *)
  t             (* the global t of ModuleGraphics.cpp                       *)

diskVars   == << madeDir, file, torn, failed >>
shipVars   == << shipped, shippedTorn >>
memoryVars == << heap, next, assets >>
vars == << pc, client, build, source, diskVars, shipVars, memoryVars, t >>

NoAssets == [n \in {} |-> 0]

(* The keys and values of f where it is defined, else those of g.          *)
Over(f, g) ==
  [x \in DOMAIN f \cup DOMAIN g |-> IF x \in DOMAIN f THEN f[x] ELSE g[x]]

Without(f, S) == [x \in DOMAIN f \ S |-> f[x]]

Mapped == {assets[n] : n \in DOMAIN assets}
-----------------------------------------------------------------------------
(* Between the runs the developer edits images or ships the resource file, *)
(* and deletes the directory it is in, perhaps while a game is running.    *)
Edit(n) ==
  /\ pc = "off"
  /\ source[n] < MaxVersion
  /\ source' = [source EXCEPT ![n] = @ + 1]
  /\ UNCHANGED << pc, client, build, diskVars, shipVars, memoryVars, t >>

Ship ==
  /\ pc = "off"
  /\ shipped' = file
  /\ shippedTorn' = torn
  /\ UNCHANGED << pc, client, build, source, diskVars, memoryVars, t >>

DeleteDirectory ==
  /\ pc \in {"off", "run"}
  /\ madeDir' = FALSE
  /\ file' = NoAssets
  /\ torn' = FALSE
  /\ UNCHANGED << pc, client, build, source, failed, shipVars, memoryVars, t >>

Start(b) ==
  /\ pc = "off"
  /\ pc' = "create"
  /\ build' = b
  /\ UNCHANGED << client, source, diskVars, shipVars, memoryVars, t >>
-----------------------------------------------------------------------------
(* The application calls the resource manager from a hook.                 *)
Call(op, p) ==
  /\ pc = "run"
  /\ op \in ClientOps
  /\ client' = TRUE
  /\ pc' = p
  /\ UNCHANGED << build, source, diskVars, shipVars, memoryVars, t >>

(* Where a call returns to: the hook, or the next one of Initialise.       *)
ReturnTo(p) == pc' = IF client THEN "run" ELSE p

(* CreateAsset loads an image in a debug build, unless the name is taken;  *)
(* in a release build it only tells the factory about textures.            *)
MakesAsset_InRelease(n) == n \notin DOMAIN assets

MakesAsset(n) == build = "debug" /\ n \notin DOMAIN assets

CreateAsset(n) ==
  /\ pc = "create"
  /\ client \/ n = Wup
  /\ IF MakesAsset(n)
       THEN /\ next \in Objects
            /\ heap' = Over([o \in {next} |-> source[n]], heap)
            /\ assets' = Over([m \in {n} |-> next], assets)
            /\ next' = next + 1
       ELSE UNCHANGED memoryVars
  /\ ReturnTo("save")
  /\ UNCHANGED << client, build, source, diskVars, shipVars, t >>

Clear_KeepsEntries ==
  /\ heap' = Without(heap, Mapped)
  /\ UNCHANGED assets

Clear ==
  /\ heap' = Without(heap, Mapped)
  /\ assets' = NoAssets

ClearAssets ==
  /\ pc = "run"
  /\ "Clear" \in ClientOps
  /\ Clear
  /\ UNCHANGED << pc, client, build, source, diskVars, shipVars, next, t >>

(* SaveResources gives up if it cannot make the directory, for one because *)
(* it is there; else it truncates the file.                                *)
MakeDirectory_OrUseIt == madeDir' = TRUE

MakeDirectory == ~ madeDir /\ madeDir' = TRUE

GiveUp_Clears == Clear /\ UNCHANGED next

GiveUp == UNCHANGED memoryVars

SaveSkipped ==
  /\ pc = "save"
  /\ build = "release" \/ madeDir \/ "mkdir" \in DiskFailures
  /\ IF build = "debug" THEN GiveUp ELSE UNCHANGED memoryVars
  /\ ReturnTo("load")
  /\ UNCHANGED << client, build, source, diskVars, shipVars, t >>

SaveBegin ==
  /\ pc = "save"
  /\ build = "debug"
  /\ MakeDirectory
  /\ file' = NoAssets
  /\ torn' = FALSE
  /\ pc' = "saving"
  /\ UNCHANGED << client, build, source, failed, shipVars, memoryVars, t >>

(* What it writes, up to the block of the name cut.                        *)
Saved_NamesShifted(cut) ==
  [n \in {m + 1 : m \in {k \in DOMAIN assets : k < cut}} |-> heap[assets[n - 1]]]

Saved(cut) == [n \in {m \in DOMAIN assets : m < cut} |-> heap[assets[n]]]

AllNames == 1 + CHOOSE n \in Names : \A m \in Names : m <= n

SaveEnd ==
  /\ pc = "saving"
  /\ file' = Saved(AllNames)
  /\ Clear
  /\ ReturnTo("load")
  /\ UNCHANGED << client, build, source, madeDir, torn, failed, shipVars, next, t >>

(* Only a part of the file is written, or it could not be opened.  Nobody  *)
(* asks the stream, and the map is cleared all the same.                   *)
WrittenInPart ==
  \E cut \in Names \cup {AllNames} :
    /\ file' = Saved(cut)
    /\ torn' \in {FALSE, \E n \in DOMAIN assets : n >= cut}

SaveFails ==
  /\ pc = "saving"
  /\ "write" \in DiskFailures
  /\ WrittenInPart
  /\ failed' = TRUE
  /\ Clear
  /\ ReturnTo("load")
  /\ UNCHANGED << client, build, source, madeDir, shipVars, next, t >>

(* LoadResources makes a new object of every block (the factory knows how, *)
(* since Initialise has called CreateAsset before) and maps its name to    *)
(* it; an object the name was mapped to before stays on the heap.          *)
Superseded_Deleted(names) == {assets[n] : n \in DOMAIN assets \cap names}

Superseded(names) == {}

MapLoaded_KeepsOld(loaded) == Over(assets, loaded)

MapLoaded(loaded) == Over(loaded, assets)

Stored     == IF build = "debug" THEN file ELSE shipped
StoredTorn == IF build = "debug" THEN torn ELSE shippedTorn

ObjectOf_OneForAll(n) == next

ObjectOf(n) == next + Cardinality({m \in DOMAIN Stored : m < n})

LoadResources ==
  /\ pc = "load"
  /\ ~ StoredTorn
  /\ LET names == DOMAIN Stored
         made  == {ObjectOf(n) : n \in names}
     IN  /\ made \subseteq Objects
         /\ heap' = Over([o \in made |->
                            Stored[CHOOSE n \in names : ObjectOf(n) = o]],
                         Without(heap, Superseded(names)))
         /\ assets' = MapLoaded([n \in names |-> ObjectOf(n)])
         /\ next' = next + Cardinality(names)
  /\ ReturnTo("get")
  /\ UNCHANGED << client, build, source, diskVars, shipVars, t >>

(* The last block of a torn file is read past the end of the buffer.       *)
LoadTorn ==
  /\ pc = "load"
  /\ StoredTorn
  /\ pc' = "dead"
  /\ UNCHANGED << client, build, source, diskVars, shipVars, memoryVars, t >>

(* Initialise ignores what GetAsset returns, and makes a GL texture of t.  *)
GetAsset ==
  /\ pc = "get"
  /\ IF Wup \in DOMAIN assets
       THEN t' = assets[Wup] /\ pc' = "run"
       ELSE pc' = "dead" /\ UNCHANGED t
  /\ UNCHANGED << client, build, source, diskVars, shipVars, memoryVars >>

(* Render draws with t, which kills the run if t is no object any more.    *)
RenderDangling ==
  /\ pc = "run"
  /\ t \notin DOMAIN heap
  /\ pc' = "dead"
  /\ UNCHANGED << client, build, source, diskVars, shipVars, memoryVars, t >>

(* The game ends or is killed, and its memory is gone; if that cuts a save *)
(* short, the stream may have written out any part of it.                  *)
Ended ==
  /\ pc' = "off"
  /\ client' = FALSE
  /\ heap' = NoAssets
  /\ next' = 1
  /\ assets' = NoAssets
  /\ t' = NoAsset
  /\ failed' = FALSE
  /\ UNCHANGED << build, source, madeDir, shipVars >>

End ==
  /\ pc \in Pcs \ {"off", "saving"}
  /\ Ended
  /\ UNCHANGED << file, torn >>

CrashInSave ==
  /\ pc = "saving"
  /\ Ended
  /\ WrittenInPart

Init ==
  /\ pc = "off"
  /\ client = FALSE
  /\ build = "debug"
  /\ source = [n \in Names |-> 0]
  /\ madeDir = FALSE
  /\ file = NoAssets
  /\ torn = FALSE
  /\ failed = FALSE
  /\ shipped = NoAssets
  /\ shippedTorn = FALSE
  /\ heap = NoAssets
  /\ next = 1
  /\ assets = NoAssets
  /\ t = NoAsset

Next ==
  \/ \E n \in Names : Edit(n) \/ CreateAsset(n)
  \/ Ship
  \/ DeleteDirectory
  \/ \E b \in {"debug", "release"} : Start(b)
  \/ Call("Create", "create")
  \/ Call("Save", "save")
  \/ Call("Load", "load")
  \/ ClearAssets
  \/ SaveSkipped
  \/ SaveBegin
  \/ SaveEnd
  \/ SaveFails
  \/ LoadResources
  \/ LoadTorn
  \/ GetAsset
  \/ RenderDangling
  \/ End
  \/ CrashInSave

Spec == Init /\ [][Next]_vars
-----------------------------------------------------------------------------
(* Every variable has its type; contents are kept under the names and the  *)
(* objects they belong to.                                                 *)
PartialMap(f, S, T) == f \in [DOMAIN f -> T] /\ DOMAIN f \subseteq S

TypeOK ==
  /\ pc \in Pcs
  /\ client \in BOOLEAN
  /\ build \in {"debug", "release"}
  /\ source \in [Names -> Versions]
  /\ madeDir \in BOOLEAN
  /\ PartialMap(file, Names, Versions)
  /\ torn \in BOOLEAN
  /\ failed \in BOOLEAN
  /\ PartialMap(shipped, Names, Versions)
  /\ shippedTorn \in BOOLEAN
  /\ PartialMap(heap, Objects, Versions)
  /\ next \in 1 .. MaxObjects + 1
  /\ PartialMap(assets, Names, Objects)
  /\ t \in Objects \cup {NoAsset}

(* Every entry of m_loadedAssets points to an object that has not been     *)
(* deleted, and no two entries share one: Clear deletes nothing twice.     *)
MapIsLive ==
  /\ Mapped \subseteq DOMAIN heap
  /\ \A n, m \in DOMAIN assets : assets[n] = assets[m] => n = m

(* The texture Render draws with outlives everything but the end of a run, *)
(* a hook's call of Clear and a save that clears, which takes a directory  *)
(* deleted under the game; above all a load that maps its name anew.       *)
TextureKept ==
  [][(t \in DOMAIN heap /\ t \notin DOMAIN heap')
       => pc' = "off" \/ pc = "run" \/ pc = "saving"]_vars

(* What leaks is the objects whose names a load maps anew, those and no    *)
(* other: the rest of the heap stays within reach of Clear.                *)
Leaked == DOMAIN heap \ Mapped

LeaksOnlyReloads ==
  [][Leaked' # Leaked =>
       \/ pc' = "off"
       \/ pc = "load" /\ Leaked' = Leaked \cup {assets[n] : n \in DOMAIN assets \cap DOMAIN Stored}]_vars

(* No run damages a resource file that has assets in it, wherever it is    *)
(* killed: it goes only with the directory the developer deletes.          *)
FileIsSafe ==
  [][file # NoAssets => << file', torn' >> = << file, torn >> \/ ~ madeDir']_vars

(* Asset.hpp: "Once a resource file has been generated during development, *)
(* this asset will get its data from there instead", in debug builds too:  *)
(* Initialise does not get the image it has just created.                  *)
ServedFromFile ==
  [][pc = "get" /\ pc' = "run" /\ build = "debug" /\ Wup \in DOMAIN file
       => heap[t'] = file[Wup]]_vars

(* A debug build starts whatever an earlier run, its death or a full disk  *)
(* has left, unless that is a torn file or its own save fails to write;    *)
(* then the map is cleared and the texture nowhere.                        *)
DebugStartSurvives ==
  pc = "dead" /\ build = "debug" /\ t = NoAsset => torn \/ failed

(* A release build has nothing but the assets that were shipped with it.   *)
ReleaseServesShipped ==
  build = "release" /\ pc # "off" =>
    \A n \in DOMAIN assets : n \in DOMAIN shipped /\ heap[assets[n]] = shipped[n]
-----------------------------------------------------------------------------
(* What a debug build has loaded, by value; a release build, and what is   *)
(* shipped to it, are not seen here.                                       *)
InDebugRun == build = "debug" /\ pc \notin {"off", "dead"}

LoadedVersions ==
  IF InDebugRun THEN [n \in DOMAIN assets |-> heap[assets[n]]] ELSE NoAssets

DebugStore == INSTANCE AssetStore WITH
  Contents <- Versions,
  up       <- InDebugRun,
  loaded   <- LoadedVersions,
  stored   <- file

(* Objects, a map of pointers to them and a file that may exist already    *)
(* implement a store of values: through every run, kill, failing disk and  *)
(* deletion of the directory what is loaded is what was saved.             *)
ImplementsStore == DebugStore!Spec
-----------------------------------------------------------------------------
(* What the repository says of the manager and its code does not do.       *)

(* ModuleResource.hpp: SaveResources is there "to store any loaded assets  *)
(* in the resource manager to the binary resource file".                   *)
SaveStores ==
  [][pc = "save" /\ build = "debug" /\ pc' \notin {"saving", "off"} =>
       \A n \in DOMAIN assets : n \in DOMAIN file /\ file[n] = heap[assets[n]]]_vars
=============================================================================
