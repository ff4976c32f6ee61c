# Meridian 2D Game Engine: a TLA+ verification development

Meridian is a small, single-threaded 2D game engine in C++ (16 source files of
its own under `src/Meridian 2D Game Engine/Src/`; the other 1389 files are
vendored libraries in `Dep/`, of which GLFW, GLM, an OpenGL loader and STB are
used). A host program creates a `MeridianEngine`, registers up to three hooks,
and calls `Load`, `Run` and `Unload`. There are no threads and no network. What
makes the engine hard to get right is the order of calls: hooks that call back
into the engine in the middle of a tick, several keyboard events in one poll,
construction that fails half way, an engine that is loaded again, a resource
file that outlives the process that wrote it, and pointers that outlive what
they point to.

This directory holds TLA+ modules of the engine's own logic, TLC runs on small
instances, and TLAPS proofs for all values of the constants. Paths below are
relative to `src/Meridian 2D Game Engine/Src/`.

    tlc -config Engine.cfg MCMeridianEngine      model-checks one run
    tlapm MeridianEngineProofs.tla               checks the proofs of a module

## 1. Inventory

| Component | Source | State | Operations | Modelled in |
|---|---|---|---|---|
| Engine object | `Engine/Core/Meridian.*` | two flags, window, four manager pointers, three hook pointers | `Load`, `Run`, `Unload`, `Terminate`, `HookTo...`, destructor | `MeridianEngine` |
| Viewport | same, and `GraphicsManager::Render` | previous and present viewport, size of the frame buffer | `SetViewport`, the refresh in `Run`, `ViewportWhatChanged` | `MeridianEngine` |
| Input manager | `Engine/Managers/ModuleInput.*` | static key table of 348 entries, mouse position | `OnKey` (callback), `Update`, constructor, getters | `InputManager` |
| Resource manager | `Engine/Managers/ModuleResource.*` | map of loaded assets, asset factories, the resource file | `CreateAsset`, `GetAsset`, `Clear`, `SaveResources`, `LoadResources` | `ResourceManager`; the blocks and the factories in `ResourceFile`; both implement `AssetStore` |
| Asset serialisation | `Engine/Core/Asset.*`, `Engine/Assets/AssetTexture.*` | buffers with a size and a cursor, texture pixels | `Load`, `Encode`, `Decode`, `Reallocate` | `ResourceFile` |
| Graphics manager | `Engine/Managers/ModuleGraphics.*` | OpenGL objects, what is bound | `Initialise`, `Render`, `Finalise`; creation, resize, binding and deletion of frame buffers and textures | `GraphicsManager`; the frame buffer's size in `MeridianEngine`, the use of the resource manager in `ResourceManager` |
| Frame clock | `Run`, after the tick's work | delta time | sleep, delta | `MeridianEngine` |
| Audio manager | `Engine/Managers/ModuleAudio.*` | none | empty functions | not modelled |
| Demonstration program | `Main.cpp` | none | sets two hooks; `Load`, `Run`, `Unload` | one host of `MeridianEngine` |
| JenHash | `Engine/Common/JenHash.hpp` | none | included by nothing | not modelled |

**How they interact.** Everything runs on one thread. `Run` calls
`glfwPollEvents`, inside which GLFW calls `InputManager::OnKey`; then it
refreshes the viewports and calls `GraphicsManager::Render`, which asks
`ViewportWhatChanged`, may recreate its frame buffer, and draws with a texture
pointer it once got from the resource manager; then the loop hook; then
`InputManager::Update`, then the clock. Hooks have the engine pointer and may
call anything. `GraphicsManager::Initialise` is itself a client of the resource
manager: it creates, saves, loads and gets one texture. The resource file is the
only state that survives the process; the static key table and the viewports
are the only states that survive `Unload`.

**What makes each part correct, and where it is hard.**

* *Engine.* Nothing runs on half an engine, whichever hook calls what; the loop
  ends for either of its two reasons and the host gets to `Unload`; a load that
  fails unloads what it has made; every pointer is set before it is used.
* *Viewport.* The frame buffer has the size of the window in every frame, and
  `Render` learns of every change, although a viewport may be changed by the
  user (in the poll), by a hook (between two refreshes) or by neither.
* *Input.* The table agrees with the keyboard for any sequence of events in a
  poll, every edge is visible to exactly one hook, no transient state lingers,
  and a reload starts from a clean table.
* *Resources.* No pointer in the map or in the renderer dangles; a run killed
  anywhere leaves a file the next run can start with; a release build has what
  was shipped; what is saved is what is loaded, also
  when the directory cannot be made or the disk is full.
* *Serialisation.* Sizes agree with buffers, an image that does not fit or does
  not load gives a defined asset, decoding inverts encoding.
* *Graphics objects.* What is held exists and what exists is held, through any
  order of creations, resizes and deletions by the engine and by hooks; every
  draw finds the target and the texture it means.
* *Clock.* Quantities of one unit are compared; the delta is that of the last frame.

The hazards behind these, with the line where each bites and the properties that
watch it, are listed in `PROJECT.json`.

## 2. Modules

| Module | What it is |
|---|---|
| `KeyEdges` | abstract: a key has a level and an edge mark; marks are taken back together |
| `InputManager` | the key table, `OnKey`, `Update`, reload; refines `KeyEdges` |
| `InputManagerProofs` | its theorems |
| `EngineLifecycle` | abstract: down, up, looping; all resources are owned together or not at all |
| `MeridianEngine` | the engine object, its loop and clock, hooks, viewports and nested unloads; refines `EngineLifecycle` |
| `MeridianEngineProofs` | its theorems |
| `ResourceManager` | assets, map, resource file over many runs and crashes, with the engine's own client; refines `AssetStore` |
| `ResourceManagerProofs` | its theorems |
| `AssetStore` | abstract: named assets are created, moved to a store, and loaded back as they were |
| `ResourceFile` | the blocks of the resource file, textures and assets of another kind, the buffer and the factory table; refines `AssetStore` |
| `ResourceFileProofs` | its theorems |
| `GraphicsManager` | OpenGL's frame buffers, renderbuffers and textures, who holds them, and what is bound |
| `GraphicsManagerProofs` | its theorems |
| `MC...` | constants for TLC |

### 2.1 InputManager

`phase` is where the tick is: `poll` (inside `glfwPollEvents`), `hook`, `update`.
`KeyEvent` is one call of `OnKey`; `AfterKey` is its three `if`s and `Update`
settles the table. `glfwDown` is GLFW's own memory of the keys: it reports a
press of a key that is down as a repeat and never releases twice (external, from
`_glfwInputKey`). `GLFW_KEY_UNKNOWN` has no such memory, so any action may be
reported with it. The last and first codes of the table and the ones just
outside it are told apart: a write outside the table sets `stray`. The history
variables `touched` (keys pressed or released this tick) and `seen` (what the
last hook read) exist for the properties. The mouse position is the clamped
cursor. `Reload` is an `Unload` and a `Load` between two ticks.

### 2.2 MeridianEngine

`pc` is a program counter of the one thread: at the host (`new`, `loaded`,
`ran`, `unloaded`, `deleted`), in the loop (`cond`, `poll`, `frame`, `loopHook`,
`input`), in an `Unload` (`unload`, `postHook`, `finalise`) or in the pre hook.
`ret` is the stack of return points of the `Unload`s in progress, so that a hook
may unload the engine it is called from, and a post hook may unload again. The
steps of `Load` that fail are actions of their own, because what is missing
afterwards differs. The constructor leaves the hook pointers alone, but the
project is built with `/sdl`, under which the compiler makes them null. A step
outside the contract of C++ or OpenGL ends the run with `pc = "dead"`, and `fault` says why; a GLFW that has been terminated
answers with an error and zeros, which is inside its contract. `Frame` is the refresh of both
viewports and `Render`, in the code's order: the previous viewport is copied
first, the present one is then given the window's size, then `Render` asks what changed.

A size stands for a width and a height, 0 for the area of a minimised window; a
position for a pair of coordinates. `SetViewport` of a size sets the window's size.

`EndOfFrame` is the clock. A duration is a number of units of which `Resolution` make
a millisecond, as finely as one likes, since `m_duration` is a `float` and much finer
than the milliseconds of `Sleep`. The code takes this duration, in seconds, from
the target, in milliseconds; `Remainder` is that difference in parts of
1000 * `Resolution` * `Frequency`, so that it stays an integer, and `SleepFor` the whole
milliseconds of it that `Sleep` is given, the conversion to `DWORD` dropping the rest.
`delta` is in parts of 1000000 * `Resolution`. Only a frame
without a remainder sets it. The rounding of `float` is left out, and `Sleep` is taken at
its word.

Life of the host: hooks are registered before `Load`; after `Load` it calls `Run`
or `Unload`, after `Run` it calls `Unload`, after that it may `Load` again or
delete the engine. A `Load` from a hook and a second `Run` without an `Unload`
are not modelled.

### 2.3 ResourceManager

One *run* is one life of a process, in a debug or release build; between runs
the developer edits images or ships the file (copies `Res/` to `data/`); he may
delete the directory then or while the game runs, which is the only way a save
by a hook ever does anything, because `Initialise` leaves the directory behind.
`heap` is every asset object allocated, with the version of the image it was made from; `assets` is `m_loadedAssets`; `t` the global texture of
`ModuleGraphics.cpp`. Initialise is `create`, `save`, `load`, `get`, in this
order, and then hooks of the application call the same operations
(`client`). Saving is two steps, truncation and writing, and a kill between them
leaves any prefix of the file, cut between two blocks or inside one (`torn`).
`_mkdir` fails on a directory that exists, and `SaveResources` then returns; it may
fail for other reasons too ("mkdir" in `DiskFailures`), with the same result. The
code never asks the stream whether the file was opened and written. On a full disk ("write")
`SaveFails` writes any part of the file, none of it if it could not be opened, and clears
the map as if all were saved; `failed` is the history of that in a run.
Reading a null or deleted asset or past the end of a buffer makes `pc` "dead".
Blocks are abstracted to a name and a version; their bytes are the next module's.
`Superseded` is what a load deletes of the objects whose names it maps anew: nothing,
so that they stay allocated and out of reach of `Clear`.

`DebugStore` maps a debug build to `AssetStore`: what is loaded is the contents of the
objects the map points to, what is stored is the file. `SaveEnd` is the abstract
`Save`, since the file was empty before; a kill in a save is `DieSaving`, with the part
before the cut; a failed write is `SavePart`, after which the run goes on; the developer's
`rmdir` is `Lose`; a run that dies has stopped. Release
runs, edits and shipping stutter: of a release build `ReleaseServesShipped` speaks.

### 2.4 ResourceFile

The same functions, seen from the bytes. `SaveAsset` and `LoadBlock` are each one
turn of the loops in `SaveResources` and `LoadResources`; both loops use one
`SerialBuffer` for all blocks, and `Reallocate` to nothing frees its memory and
keeps its size, so a block may meet the size of the one before. `file` is a size and a
map from offsets to blocks; a block has the size it states, a name, and an asset;
a texture's pixels are counted (`bytes`) and known by the image they are of.
`LoadBlock` stands at the offset `at` and knows nothing but what the block there
says; an offset inside a block is "astray".

There are two kinds of assets: `AssetTexture` and "other", which stands for a
class an application derives from `IAsset` and is external: it encodes some
number of bytes, and copies as many as the buffer says it holds. `factories` is
`m_factoryTable`, which belongs to a run. A `RawProperty` is the path of an image.
After a failed `stbi_load` the code reads uninitialised sizes; they are any element
of `Leftovers`, which may be out of range (as the fill patterns of a debug build's
run-time checks are), or may fit, with or without channels.

`GetAsset` ends in `CreateTexture`, which gives the texture to OpenGL. `UploadReads` is how
many bytes `glTexImage2D` takes from it: images of one and two channels are called `GL_RGB`, and
`GL_UNPACK_ALIGNMENT` is left at 4, so that each row but the last is rounded up. If these are
more than there are, the process dies of the read or nobody notices.

Kills in the middle of a save, failing disks, torn files, shipping and deleted pointers belong to
`ResourceManager` and are not repeated here: here the file a release run
loads is the one the last debug run saved, and a failed assert or a null pointer
ends everything (`fault` says which). `Store` maps this to `AssetStore`: what is
stored is what `Decode` makes of the blocks (`StoredAssets`), except that nothing is stored before a
save is over; what is loaded is the map, except that it is still the old one until a
load is over. So the turns of both loops stutter, and the last step of each is the
abstract `Save` or `Load`.

### 2.5 GraphicsManager

`textures`, `renderbuffers` and `framebuffers` are the names OpenGL has in use;
`fbo` holds the `FrameBufferObject`s and `handle` the texture handles of the
`AssetTexture`s, the engine's and those of the application's hooks. `bound` is
the frame buffer drawn to, `unit0` the texture bound to unit 0, which is the one
the shaders sample, and `atUnit0` whether that unit is the active one. OpenGL is
external: it gives any name not in use, so a deleted name soon comes back, it
unbinds a deleted object and ignores the deletion of one that does not exist. `Load`
sets no hint before `glfwCreateWindow`, so the context is a compatibility one: binding the
name of a texture that does not exist makes one (`BindTextures`), while the name of
a frame buffer that is not one is refused (`BindFrame`). `Initialise` creates the frame buffer and then the texture;
`Render` is three steps, the resize if there is one, the scene into the frame
buffer, the frame buffer onto the screen. Hooks run between frames. They use the
public functions on variables of their own, create nothing twice into one
variable and use nothing they have deleted. `Finalise` is taken together with
the loss of the context, a few lines later in `Unload`.

The depth attachment has a texture handle that `CreateDepth` leaves unset; it is
any value of the constant `Garbage` and keeps it through a resize, which copies
the attachment (from a vector that has just dropped it: its bytes are still
there). `BindFrameBufferObjectTexture` binds every attachment, this handle too, and so makes
a texture nobody asked for if none has the name; `OnlyUnsetStrays` allows for these
and no others, and only while the frame buffer is in use, since deleting it deletes the
texture of that name, its stray or somebody else's. Once it has been somebody else's
(`struck`), nothing is promised; until then the properties below hold. `struck` and `resizes` are history.

## 3. Runs

| Run | Bounds | Checks |
|---|---|---|
| `Input` | two keys (one the last of the table), three cursors | types, `HeldIffDown`, `FreshIffTouched`, `NoSilentEdge`, `ReleasedKeySettles`, refinement of `KeyEdges` |
| `Engine` | two sizes with an area, two positions, two loads, documented use, ticks of 0.3, 1, 40 and 17000 ms | types, `WholeEngineInUse`, `FboIsWindowsOrLoads`, `WholeEngineSurvives`, `NeverTooFast`, `ClosedWindowUnloads`, `TerminateUnloads`, refinement of `EngineLifecycle` |
| `EngineRough` | one load, all failures, a window that may be minimised, hooks that call `Unload` | `FboMatchesWindow`, `TerminateEndsLoop`, `AllOrNothing` |
| `Resources` | three names, two versions, five objects a run, a disk on which directories and writes may fail, hooks that create, save, load and clear | types, `MapIsLive`, `TextureKept`, `ServedFromFile`, `DebugStartSurvives`, `ReleaseServesShipped`, `FileIsSafe`, `LeaksOnlyReloads`, refinement of `AssetStore` |
| `Codec` | two names, six images (one unreadable, one too wide, one the largest that fits, rows of 1, 9 and 12 bytes), other assets of no, some and too many bytes | types, `PixelsMatch`, `SaveDiesOfEmpties`, `TexturesLoad`, `LoaderStaysOnBlocks`, `MappedKindsRegistered`, `CastIsSound`, `WordRowsUploadWhole`, refinement of `AssetStore` |
| `Graphics` | two frame buffers with up to two colours, two `AssetTexture`s; four textures, three renderbuffers, two frame buffers; symmetry of the names | types, `HandlesLive`, `OnlyUnsetStrays`, `ResizeLeaksDepth`, `DrawsAsMeant` |

`NeverTooFast` deserves a word: the clock mixes its units, and still no tick
ends a millisecond or more before the target, because a tick that is not
slow is made longer than it should be. The millisecond is what `Sleep` cannot express,
and within it a tick may indeed be too short: at 60 Hz one of 0.3 ms sleeps 16 ms, and ends at
16.3 ms instead of 16.7. `SlowFrameIsTimed`, below, is the other half.

Each of the other runs checks one statement that a comment or a header in the code
makes and the code does not keep; TLC's counterexample is the finding:

| Run | Statement | What happens |
|---|---|---|
| `InputKeyRange` | GLFW has 348 keys | codes -1 and 348 write outside the table |
| `EngineNoWindow` | without a window, the engine is unloaded | that `Unload` dies on what `Load` has not made yet |
| `EngineMinimised` | a frame buffer has at least one pixel | a minimised window asks for one without, and trips the assert |
| `EngineSlowFrame` | a frame below the target rate has its delta time used | at 60 Hz a frame of 40 ms sleeps on and sets no delta; one has to take over 16 seconds |
| `ResourcesSaveTwice` | `SaveResources` stores the loaded assets | only if the directory does not exist |
| `CodecInvalidImage` | an invalid image becomes the missing texture | one that is too large becomes a texture of 0 by 0 pixels, and saving it trips an assert |

The models also show the following, for which no run is kept.

* Input: a key pressed and released in one poll is a RELEASE no hook ever saw
  held (`ModuleInput.cpp:24`).
* Engine: `Terminate` in the pre hook is undone by `Run` (`Meridian.cpp:86`). A post
  hook that calls `Unload` comes back to an `Unload` that finalises a second time
  (`Meridian.cpp:161`; `fault = "noGL"` in `EngineRough`). The destructor leaves the
  audio manager, and the managers of every `Load` but the last (`Delete`).
* Viewport: one moved by a hook is copied into the previous one before `Render`
  asks, so `Render` hears of resizes only, and `ViewportWhatChanged` never says
  `VIEWPORT_ALL` (lemma `NeverAll`). The viewport survives `Unload`, so in a second
  life a frame buffer of `Load`'s size may be kept for a window that has the size
  the first one had: `FboMatchesWindow` is false with two loads, and `FboIsWindowsOrLoads`
  says that this is all that goes wrong.
* Clock: a short tick may end up to a millisecond before the target, as said above,
  although the loop is to "wait out the rest" (`Meridian.hpp:185`). The delta, once set, is handed to every later frame (`EndOfFrame` leaves
  it alone).
* Resources: `Clear` from a hook leaves the renderer's texture dangling
  (`RenderDangling`; `TextureKept` allows for it). After a save that failed to write, the
  map is empty and nothing says so (`SaveFails`): in `Initialise` the texture is then
  nowhere, and the null pointer is used (`DebugStartSurvives` allows for it). A file cut off inside a block is not
  refused but read past its end (`LoadTorn`). An object whose name is loaded anew is
  never deleted (`LeaksOnlyReloads` says that no other leaks).
* Resource file: a block of a kind no `CreateAsset` has registered kills the load, and
  `Initialise` loads before an application can register any
  (`fault = "noFactory"`). An asset of no bytes saved after one with bytes is
  read from a freed buffer (`"nullBuffer"`), a block over the limit is written and then not
  readable (`"limit"`), and a texture without channels kills `Initialise` (`"channels"`). A texture of one or
  two channels is uploaded as one of three, and rows are taken to end at a multiple of 4 bytes,
  so the upload reads past the pixels (`"overread"`; `ModuleGraphics.cpp:492`);
  `WordRowsUploadWhole` says of which textures this cannot happen.
* Graphics: the renderbuffers that resizes leak stay until the context goes
  (`ModuleGraphics.cpp:403`). `DeleteFrameBufferObject` deletes the texture whose
  name happens to be in the depth attachment's unset handle, perhaps somebody else's
  (`struck`). `BindFrameBufferObjectTexture` ignores the units it is given
  and binds the depth attachment as well (`ModuleGraphics.cpp:419`), though `ModuleGraphics.hpp:149`
  excepts it; if the unset handle names no texture, that makes one (`OnlyUnsetStrays`).

**Why the bounds are enough.** Input: keys do not interact except through the
tick, so two show every pair; the theorems cover all sets of codes. Engine: the
sizes are the one `Load` sets and another one, and in the rough run no area, which is
what the comparisons can tell apart; two loads show everything a first life leaves to
a second; at 60 Hz the sleep of a tick of 0.3 ms is cut by more than the tick took, that of a tick of 1 ms
is not; one of 40 ms misses the target and is
taken for one in time, and only one over 16667 ms is slow to the code too. Asserts
are on, as no configuration of the project defines `NDEBUG`. `MaxCalls = 2` allows
one `Unload` nested in another, and a deeper one only repeats it (the theorems hold
at any depth). `EngineRough` has one load because the frame buffer's size is right
only in a first life. Resources: the engine's own name
has one before and one after it in the order of the map, so a cut falls on either
side of it; one edit tells an image from its saved form; five objects allow a
run to create one asset, load a file of all three names and create or load one
again, and another run to create all three and save them. Codec: two names give
files of no, one and two blocks and every order of a full and an empty one in the shared buffer;
the images lie on either side of every comparison in `Load` and of the
limit in `LoadResources`, and one of each is uploaded right, with too many channels, and with rows that
are not aligned. It is the theorems that cover any number of names and sizes. Graphics: four textures
are the engine's two and two for the application, whose frame buffer may have two
colours, or one beside its own texture; the textures that binding an unset handle makes are
among these four, and a request for more does not happen. Three
renderbuffers leave one for a leak beside both depth attachments in use, and two
with one in use. The names are interchangeable and only safety is checked with
symmetry.

**Deadlock** is checked for the input, resource and graphics managers. The runs of the
engine and of the resource file switch it off: a deleted engine, and anything dead,
takes no more steps.

**Fairness.** The input module assumes weak fairness of the end of a poll, the hook
and `Update`: `glfwPollEvents` handles the events already queued, hooks return,
and `Update` is straight-line code. The engine assumes weak fairness of its one
thread: the loop, a hook's return and `Unload` take their next step, and a host
whose `Run` has returned calls `Unload`, as `Main.cpp` does on the next line.
Nothing is assumed of the user or of what the hooks call.

## 4. Proofs

For all sets of key codes (any integers) and cursor positions, `InputManagerProofs`
proves `TypeCorrect`, `HeldIsDown`, `FreshIsTouched`, `NoEdgeIsSilent` and
`RefinesKeyEdges`. `HeldIffDown` and `FreshIffTouched` are inductive with the
types. `NoSilentEdge` is not: it compares the present table with one a tick old.
The invariant `SeenSettled` ties the two: up to the next hook, every key not
touched since `Update` has the settled form of what the hook saw, and between the
hook and `Update` the hook saw the table as it is. The refinement maps a key to
its level and mark; an event that is no repeat is `Flip`, a repeat stutters,
`Update` is `Settle`, `Reload` is `Reset`.

`MeridianEngineProofs`, for all sizes, positions, numbers of loads and depths of
nesting:

* `TypeCorrect`, under every failure and hook call. The types need
  `StackOK`: the innermost return points are post hooks, the outermost is a
  caller, and the stack is empty outside `Unload`.
* `TerminateIsFinal` (`TerminateEndsLoop`), likewise without restriction. The
  invariant `TermInv` says where the thread can be after a `Terminate` in the loop
  hook, including in the `Unload`s that return to that hook.
* `LoopIsNeverTooFast` (`NeverTooFast`), for every frequency but 0, every
  duration and every `Resolution`, likewise. Its arithmetic is in two lemmas: a sleep fills the tick but for
  less than a millisecond (`SleepFillsTheTick`), and a tick without a remainder is long anyway (`OverrunIsLong`).
* `ResourcesAreOwnedTogether` (`AllOrNothing`), likewise. `OwnInv` says what holds inside
  `Unload` too: a context has its window and its frame buffer, and an engine that is
  initialised and has no context is on its way to dying in `Unload`.
* `WholeSurvives` (`WholeEngineSurvives`) assumes that there is no size without area or that
  asserts are compiled out, since `EngineMinimised` refutes it otherwise.
* `FboIsNeverOfAnotherSize` (`FboIsWindowsOrLoads`), without restriction. `ViewInv` keeps,
  before the first frame of a life as well as after it, that a viewport with an area has the
  frame buffer's size, unless there was a life before and the frame buffer is the one
  `Load` made. `FboFollowsWindow` (`FboMatchesWindow`) is the case `MaxLoads = 1`.
* `EngineInUseIsWhole` and `RefinesLifecycle` assume `DocumentedUse`: no step
  of `Load` fails, hooks do not call `Unload`, and there is no size without area or
  asserts are compiled out. Each part is needed: `EngineNoWindow`, `EngineMinimised`
  and the faults of `EngineRough` named above show what happens without it.

`ResourceFileProofs`, for all finite sets of names, all images and leftovers, all
sizes of other assets, and any number of runs, saves and loads:

* `IInv` is the inductive invariant. `BlocksInv` ties each block to the asset
  in it (its size is the header and the encoded bytes, its texture is not empty) and to its
  neighbours (where a block ends another begins or the file ends, and no name is in two
  blocks), `SaveInv` and `LoadInv` the file and the map to the progress of the loop,
  `KindsInv` the factories to the map and to where the run is.
* From it follow `TypeCorrect`, `PixelsAreAsSaid`, `OnlyEmptiesKillASave`,
  `TextureFilesLoad`, `LoaderIsOnBlocks`, `KindsRegistered` and `InitialiseGetsATexture`:
  all the invariants of the run `Codec`. `TextureFilesLoad` needs that the largest
  texture `Load` accepts, 4095 by 4095 pixels of four bytes, is within the limit
  of a block, a bound on a product.
* `UploadsAreWhole` (`WordRowsUploadWhole`) follows too: `WordRows` says that a row that fills words
  is as long as OpenGL takes it for, and `PixelsMatch` that all rows are there.
* `RefinesStore`: `ResourceFile` implements `AssetStore`. The step that ends a save
  stores what was loaded because every name has been visited and each block decodes to
  its asset; the step that ends a load has replaced exactly the names in the file.

`ResourceManagerProofs`, for all finite sets of names, all numbers of edits and objects,
all calls of the hooks, every failure of the disk and any number of runs:

* `IInv` is the inductive invariant. `ObjectsInv` is `MapIsLive` and that objects are
  numbered as they are allocated; `DiskInv` that a file without its directory is
  empty, and that a save in progress, which is in a debug build, found it empty; `RunInv` that hooks run only
  after `Initialise` has its texture; `StartInv` that up to the save this texture is in the
  map, then there or in the file, and after the load in the map; `ServedInv` that what the
  load mapped is what the file has. `DebugStartSurvives` and `ReleaseServesShipped` are
  inductive with these; the first names the two causes that are left, a torn file and a save of
  this run that failed to write.
* `CreateAdds`, `ClearDeletes` and `LoadMaps` say what the three operations on the map
  do to it. The last rests on `Ranks`: a load numbers its objects by the rank of their
  names among those in the file, no two alike and all of them new.
* From these follow `TypeCorrect`, `ClearDeletesOnce`, `OnlyTornFilesKillAStart` and
  `ReleaseIsShipped`, and of the steps `TextureOutlivesLoads`, `LeaksAreOfReloads`,
  `FilesAreSafe` and `InitialiseIsServedFromFile`: all the properties of the run `Resources`.
* `RefinesStore`: seen by its values, a debug build implements `AssetStore`. The steps that
  read through pointers need `MapIsLive`, the steps that write the file need `DiskInv`.

`GraphicsManagerProofs`, for all sets of names (of renderbuffers and variables, finite
ones), numbers of colour attachments and contents of the unset handle:

* `IInv` says that the textures (`TexturesInv`, until an unset handle strikes) and the frame
  buffers (`FramesInv`, always) are a `Partition`: each belongs to one variable or one asset,
  and what these have exists. Of the textures some may be strays, and then an unset handle
  names them. `DepthsInv` adds the owners of the renderbuffers to
  `ResizeLeaksDepth`, without which a deletion might take another's and the count be off;
  `PhaseInv` says what the engine has when.
* `PartitionReplace` covers creation, resize and deletion alike: a variable gives what it
  has back and takes objects nobody has.
* From it follow `TypeCorrect`, `HandlesAreLive`, `OnlyUnsetsStray`, `ResizesLeakDepths` and
  `FramesAreDrawnAsMeant`: all the properties of the run `Graphics`.

Every invariant and every action property of a passing run, and all four refinements, are
thus proved. TLC checked each inductive invariant on the instance of its run before. What TLC checks and
is not proved is the liveness: `ReleasedKeySettles`, `ClosedWindowUnloads` and
`TerminateUnloads`, which rest on fairness and are beyond the proof system here.

## 5. Not modelled, and why

* Drawing, shaders, programs and the vertex array: made once by `Initialise`, with no
  state that changes afterwards (`DeleteVertexArrayObject` is empty, and the shaders
  are never deleted; all go with the context).
* A `Load` or a `Run` called from a hook, and a second `Run` without an `Unload`.
* Frequencies of 0 (the conversion of an infinite remainder is undefined), the
  rounding of `float`, a `Sleep` that is shorter than asked, and resource files of two gigabytes or more, whose size the
  code's `int` cannot hold, nor can TLC's integers.
* What happens after undefined behaviour (a null or deleted pointer, a
  read past a buffer): the run ends there. The one exception is a write outside
  the key table, which is recorded and goes on.
* Audio (empty), JenHash (unused), the vendored libraries, which are nearly all of
  the repository's lines: GLFW, OpenGL and STB appear only as what they answer.

## 6. Plan

In this order; the first eight exist.

1. `InputManager` with `KeyEdges`, and proofs.
2. `MeridianEngine` with `EngineLifecycle`, and proofs.
3. `ResourceManager`.
4. `GraphicsManager`.
5. The loop's clock, in `MeridianEngine`, with proofs.
6. `ResourceFile` with `AssetStore`, and proofs.
7. Theorems about `ResourceManager`, and its refinement of `AssetStore`.
8. Theorems about `GraphicsManager`.
9. A composition of the loop, the input manager and the graphics manager: reload
   with keys held, and resizes across lives.
