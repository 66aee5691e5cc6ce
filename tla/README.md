# A verification development of Lumos

Lumos is a game engine in C++ (`src/Lumos/Source/Lumos`), an editor
(`src/Editor/Source`) and a sandbox game. The repository has no unit tests. This
directory holds TLA+ modules for the parts of the engine whose state is hard to
get right, TLC configurations that check them on small instances, and proofs
that TLAPS checks for instances of every size. `PROJECT.json` lists components,
runs, mutants (a plausible bug for every checked property, which the run must
catch), the source lines of every definition, hazards and findings.

Paths below are relative to `src/Lumos/Source/Lumos/`.

## 1. The system

### Parts, state, operations

| Component | State | Operations | Module |
|---|---|---|---|
| Job system, `Core/JobSystem.cpp` | ring buffer of jobs, issued and finished labels, condition variable, worker threads | `Execute`, `Dispatch`, `Wait`, `IsBusy`, the worker loop | `JobSystem` and below |
| Scene hierarchy, `Scene/SceneGraph.cpp`, `Scene/Entity.h`, `Scene/Scene.cpp`, `Editor/Source/HierarchyWindow.cpp` | Parent, First, Next, Prev of every entity; which entt handlers are connected; the scene's file | `SetParent`, `Destroy`, emplace and remove with their handlers, tree view commands, `Serialise`, `Deserialise` | `SceneGraph` and below |
| Scenes and sessions, `Scene/SceneManager.cpp`, `Core/Application.cpp`, `Editor/Source/Editor.cpp` | scene list, current scene, queued switch, editor state, scene files, cached scene, project file | launch, the steps of a frame, `SwitchScene`, Play, Stop, Pause, Next, New, Open, Save, quit, kill | `SceneManager` |
| Reference counting, `Core/Reference.h`, `Core/ReferenceCounter.h` | pointer and counter of each handle, atomic counts | construct, copy, assign, `reset`, destroy | `Reference` |
| Path finding, `AI/AStar.cpp` | open and closed list, scores, parents | `FindPath` | `AStar` |
| Frame loop and events, `Core/Application.cpp`, `Events/Event.h` | whether it is closing, minimised | `OnFrame`, `OnUpdate`, `OnRender`, `OnEvent` | `Application` |
| Framebuffers and resizing, `Graphics/API/Framebuffer.cpp`, `Graphics/Renderers/`, `Application::OnWindowResize` | the cache, what each renderer holds, the sizes of GBuffer and swapchain | `Get`, `DeleteUnusedCache` each frame, `OnResize`, `Begin` | `RenderTargets` |
| Input, `Core/OS/Input.cpp`, `ImGui/ImGuiManager.cpp`, `Platform/GLFW/GLFWWindow.cpp`, `GLFWKeyCodes.h` | codes of keys and buttons held and pressed, the gui's copy of them | the window's callbacks and their conversion to codes, `OnEvent`, `ResetPressed` | `Input` |
| 2D physics, `Physics/B2PhysicsEngine/` | accumulated time | `OnUpdate`, `SetDefaults` | `FixedSteps` |
| 3D physics frame, `Physics/LumosPhysicsEngine/` | bodies with their cached boxes, flags and manifolds | `OnUpdate` and its phases; setters of bodies between frames | `Physics` |
| Broad phases, `OctreeBroadphase.cpp`, `SortAndSweepBroadphase.cpp`, `BruteForceBroadphase.cpp` | node pool, leaves, pairs | `FindPotentialCollisionPairs`, `Divide` | `Octree` |
| Resource, pipeline and render pass caches; Vulkan frame | maps from a key to a counted object; images, semaphores, fences | `Get`, `DeleteUnusedCache`; `Begin`, `Present` | not modelled, section 7 |
| Renderers, OpenGL, audio, Lua, ImGui windows, platforms, maths, models, files, logging | | | not modelled, section 7 |

### How they interact

One main thread runs `Application::OnFrame`: apply a queued scene switch, update
the scene (scripts, physics, scene graph), draw the gui, handle the editor's keys,
poll the window's events. Components call each other directly on that thread.
Three things cut across it:

* **Worker threads** take jobs from the ring buffer. A job captures the caller's
  stack by reference, so the caller relies on `Wait`. The callers in the
  repository (the rigid body update and the shadow cascades) are compiled in by
  `THREAD_RIGID_BODY_UPDATE` and `THREAD_CASCADE_GEN`; the job system itself is
  always started (`CoreSystem.cpp` 20).
* **entt signals** run `Hierarchy`'s handlers inside `emplace`, `remove` and
  `destroy`. `Scene::OnInit` connects them; `Scene::Deserialise` disconnects one
  while it loads, and connects it again only if it succeeds.
* **Files** outlive a session: scenes, the scene cached by Play, and the project,
  which the game and the editor share (both open `/Sandbox/Sandbox.lmproj`).

### What is hard, and what makes it correct

* Job system: notifications that nobody hears, a full buffer, the order of label
  updates. Correct: every accepted index runs once, `Wait` returns when none is
  left, and does return.
* Hierarchy: four links per entity rewritten by handlers that may or may not be
  connected. Correct: the links are an ordered forest, `Update` goes down it from
  the roots that have a Transform and meets everyone below, no walk hits a destroyed entity or goes round for ever.
* Scenes: a switch asked for at one point of the frame and applied at another;
  play controls that save and restore; a project written by one launch and read
  by the next. Correct: scenes other than the current one are empty, a game
  initialises what it updates, Stop restores what a file keeps of a scene that still
  has its name, a game reopens where it was closed.
* References: several threads, one count. Correct: the count is the number of
  holders, nobody holds what was freed, what nobody holds is freed.
* Framebuffers: images are destroyed and made again behind keys that stay the
  same, by events whose number in a frame is not bounded. Correct: what a renderer
  draws to is made from the images there are, sizes agree, nothing piles up.
* Input: the gui takes some events and not others, and what takes them changes
  between a press and its release; several keys and buttons have one code. Correct:
  no code sticks, none is lost but to the gui or to another key of its code, a press
  is read once.
* 3D physics: a body keeps its box until someone marks it invalid; the octree
  keeps its root's box for ever; objects lie in several children; bodies sleep and
  wake in the middle of a frame. Correct: no contact is missed, no contact is solved
  of a body that is gone or asleep, no response to one is computed and then dropped.
* Path finding: scores and parents change while nodes wait, or after they were
  dropped. Correct: what is returned
  is a path.

The full list, with lines, is under `hazards` in `PROJECT.json`.

## 2. Plan

Written, in this order: `RingBuffer`, `JobGroups`, `ForkJoin`, `JobSystem`;
`Hierarchy`, `SceneTree`, `SceneGraph`; `AStar`; `Reference`; `SceneManager`;
`RenderTargets`, `Input`, `FixedSteps` and `Application`, which composes the
three; `Octree` and `Physics`, which refines it. Proofs for all of them.

Left, in the order of what it would add:

1. Constraints of the physics frame: `WeldConstraint` moves a body through raw
   pointers while the solver runs.
2. `VulkanFrame`: images, semaphores, fences and a resize between any two steps.
3. The editor's side of `RenderTargets`: the scene view's texture, and the grid
   renderer, which no window event reaches.
4. Proofs: what is left of the lists when a parent is destroyed without its
   children (`Next` instead of `TreeNext` in `SceneGraph`).

## 3. Modules

### Job system

* `RingBuffer`: `ThreadSafeRingBuffer` as a record with `PushBack`, `PopFront`,
  `IsFull`. Each is one critical section, so one atomic operator.
* `JobGroups`: the `uint32_t` arithmetic of `Dispatch`, modulo `Word`.
* `JobSystem`: the main thread (`main`) and the workers (`wpc`). A step is one
  critical section, one atomic operation or one call of the condition variable.
  `PopFails`, then `Sleep`, are two steps: between them a notification is lost,
  as in the code. `ran` is a history of the indices passed to the caller.
* `ForkJoin`: what it promises: items are submitted, performed once, and a wait
  ends when none is left. `ImplementsForkJoin` is the refinement.

### Scene hierarchy

* `Hierarchy`: the component and its handlers, as operators from registry to
  registry. A call that would assert, follow null or never end gives a registry
  that is not `ok`. `Walk` follows one kind of link. `DestroyTree` is the recursion
  of `HierarchyWindow::DestroyEntity`, which reads the next sibling before it
  destroys a child: it destroys the entities that the lists reach, every one after
  its children. Any such order is allowed, the recursion's own is one of them; if
  the lists are no tree (`IsTree`), the recursion meets an entity twice and fails.
  `Clear` takes any order at all: entt's is that of the identifiers.
* `SceneGraph`: the calls of `Entity.h`, `Scene.cpp` and the tree view as
  actions. `hooks` is the set of connected handlers. `TreeNext` leaves out the
  two uses that orphan children (see the findings), `Next` has them.
* `SceneTree`: an ordered forest; `ImplementsSceneTree` is the refinement under
  the mapping that reads children off the linked lists.

### Others

* `SceneManager`: `pc` is where `OnFrame` is. A scene is its name, what it
  contains (a value) and whether `OnInit` ran for it. Each launch starts the game
  or the editor. A file keeps `Serialised[e]` of a content `e`: the editor adds an
  `AxisConstraintComponent` (`HierarchyWindow.cpp` 440) that `Scene::Serialise`
  (`Scene.cpp` 167-170) does not write. `Rename` is the name field of the hierarchy
  window, which is there while the scene plays too; `SaveKey` is Ctrl+S. `played`
  and `closedOn` are history variables of two properties.
* `Reference`: `pc` of a handle is where the call that writes it is; atomic
  operations of different handles interleave. A handle is written by one thread
  at a time and not while another reads it, as for any C++ object. Addresses that
  were freed are used again.
* `RenderTargets`: `phase` is where `OnFrame` is. A framebuffer is its key and the
  attachments whose image was destroyed since it was made, so no image needs a
  name. The cache is a function on the keys whose entry is not null (an entry
  that is null is made again like one that is absent). Renderers are constants:
  a render pass and the textures they draw to. What a renderer keeps as
  `m_ScreenBufferWidth` is the width in its key. `seen`, `returned` and
  `outOfDate` are history variables of one property. On OpenGL `glTexImage2D`
  keeps the texture's name, and the stale framebuffers of the model do no harm.
* `Input`: the keys and buttons that are down, as the window reported them, and the
  codes the gui and `Input` know, with one action per callback, which converts its
  input to a code (`Code`, any function: `GLFWKeyCodes.h` gives the plus key of the
  number pad the code of A, every key outside its map the code 0 and every extra
  button that of the left one). What `OnEvent` does with a code is an operator, the
  gui's handler first. `Unfiltered` inputs may be pressed twice, or released without
  a press: the window library filters those of named keys only. Mouse buttons are
  inputs the gui takes no press of and that do not repeat. `last`, `taken` and
  `dropped` are history variables: `taken` is what is down and `Input` was never told
  of, `dropped` what is down and lost its code to the release of another input.
* `FixedSteps`: the accumulator of `B2PhysicsEngine::OnUpdate` in whole ticks, a
  step of the loop at a time. `m_MultipleUpdates` off, where there is no
  accumulator, is left out. `LumosPhysicsEngine::OnUpdate` has the same loop.
* `Application`: `OnFrame` as a composition. It EXTENDS `RenderTargets`, takes
  `Input` and `FixedSteps` by INSTANCE, and says which of their actions each part
  of a frame makes. Every step is a step of each component or leaves it alone.
* `Octree`: the recursion of `Divide` as a stack of calls; the objects of a node
  are a set, because only membership and the sort's order matter, and two boxes
  with one lower end may be sorted either way (`Sweeps` allows both). Dimensions,
  divisions and limits are constants; coordinates are integers.
* `Physics`: `phase` is where `UpdatePhysics` is; between two frames the editor
  and scripts act. The octree's actions are its own, over the boxes the bodies
  answer with: `Broadphase == INSTANCE Octree WITH box <- ...`. A cached box is a
  set of at most one. Several updates in one frame are frames with nothing
  between them. `turned` is a history variable.
* `AStar`: one step per iteration of `FindPath`; the neighbours' scores are
  written at once, the edges in any order. Queue operations are what
  `PathNodePriorityQueue.h` has, not a heap.

## 4. What the runs show

| Run | Checks | Size and why it is enough |
|---|---|---|
| `job_system` | types, the invariant of the proof, Wait as a barrier, jobs start in order, refinement of `ForkJoin`, every call returns | two workers, a buffer that holds two jobs, two calls of one to three groups: the buffer fills, the last group is short, workers miss notifications; 8-value words make one rounding sum wrap |
| `job_any_idle_thread` | *violated*: "Any idle thread will execute this job" (`JobSystem.h` 19) | one call |
| `scene_tree` | types, no stuck walk, lists agree with parents, Update gives world matrices down the tree, whoever has a Transform, refinement of `SceneTree` | four entities: a middle child, a child of a child, a move under a sibling. The entities are symmetric |
| `scene_removal` | *violated*: links are updated on removal (`SceneGraph.h` 196) | three entities |
| `sessions` | types, one scene holds entities, a game initialises what it updates, a game reopens its scene | two files, one of them the name a new scene is saved under, projects of one or two scenes, two scenes a session, any number of launches; one content, which no file keeps: these properties do not tell what is in a file from nothing |
| `sessions_stop` | Stop restores what a file keeps | the project of two scenes; a content that a file keeps, one of which it keeps that alone, and nothing; renamed, saved, reloaded and switched at any point, also while the scene plays |
| `sessions_update` | *violated*: updated scenes were initialised (`Scene.h` 40) | as `sessions` |
| `reference` | types, exact counts, nothing dangles, what is dropped is freed | three handles (two race while a third holds), two addresses |
| `a_star` | types, parents are nearer, the path is a path, what waits was reached and waits once | every graph of four nodes, costs 1 to 3, edges absent or blocked: a way over two edges can beat one edge, so a node that waits gets a better score and another parent |
| `frame` | types; sizes agree, what is held is cached, a sweep drops the rest, framebuffers of destroyed images only in two named orders; no code sticks or is lost but to the gui or to another input of its code, the gui sees every code, a press is read once; the 2D clock keeps pace | the four renderers of the render graph's list that draw to the window, two of which share framebuffers; two sizes and minimised, two addresses, two resizes in a poll (away and back); a control key and two keys with one code, one of which the window library has no name for: the gui takes the press of one and not of the other, and each is let go while the other is down; a frame of one step and a rest, and one of more steps than the loop does. A button is a key that does not repeat and that the gui neither takes nor looks at the control keys for: the proofs have buttons, the run has none |
| `physics` | types and the depth of the recursion, no contact missed, no pair too many, stale boxes only after a turn in place, manifolds of bodies that are awake, responses to contacts applied, refinement of `Octree` | a plane with a floor, a plank that lies or stands in two places, a ball in two places that declines collisions and may be destroyed, a body without a shape; one object a leaf and two divisions below the root: boxes that cross a border, a root larger than what is left in it, and a division that ends by depth |
| `physics_stale_box` | *violated*: the flag tells that the box is invalid (`RigidBody3D.h` 275) | as above |

Deadlock is checked except in `a_star`, where the search ends, and a search may
also stop for good.

`StopRestores` is stated from Play pressed in Preview up to the next switch, or
Play pressed after Pause, which caches the scene again, and of a scene that has the
name it was played under: renamed meanwhile (`HierarchyWindow.cpp` 475), Stop looks
for a file of the new name (`Editor.cpp` 1701) and restores nothing, or another
scene. What it brings back is what a file keeps. `ReopensLastScene` is stated of sessions of the game: in the editor the index also counts scenes that
have no file, and a launch that ends in the crash described below
opens no scene. These limits are hazards of their own in `PROJECT.json`.

### Findings

* A job can stay queued while every worker sleeps, when the caller does not wait.
* A destroyed parent leaves children that name it.
* Next, or Pause twice, before Play updates a scene `OnInit` did not see.
* A body turned by `SetOrientation` alone keeps the box it had: a plank at rest
  that is stood up in the inspector is not paired with what it now reaches.
  `NoContactMissed` therefore leaves out the bodies in `turned`, and
  `StaleOnlyIfTurned` says that there is no other way to get a stale box.

Further disagreements were met and have no run of their own:

* Before Play, a scene without a file has no handler connected (`Scene::OnInit`
  or a `Deserialise` that succeeds does that). An entity dropped on another in the
  tree view names it as its parent and is not in its list, although
  `HierarchyWindow.cpp` 236 says "append to the end of it's children list".
* A project saved without scene files still has a `SceneIndex`
  (`Core/Application.h` 211): the next launch queues it, adds no default scene,
  and `ApplySceneSwitch` (104) indexes an empty vector. In `SceneManager` the
  session ends there.
* The comment "Disable until fix resize issue" (`Framebuffer.cpp` 36) stands above
  the line that returns the cached framebuffer: a window that goes to another size
  and back within one `Window::OnUpdate` draws to destroyed images, the first of
  the two orders `StaleOnlyIfReturned` names.
* `IRenderer.h` 46 asserts that no renderer gets the size zero, while
  `Application::OnWindowResize` (387-392) returns false for it and `OnEvent` (344)
  sends the event on to the renderers.
* `io.KeyCtrl` is "Keyboard modifier pressed: Control" (`imgui.h` 1504), and stays
  set after the control key is let go until another key is pressed:
  `OnKeyReleasedEvent` does not compute it again. `GuiKeysAreDown` states the
  direction that holds.
* `io.KeysDown` are "Keyboard keys that are pressed" (`imgui.h` 1508), `io.MouseDown`
  is "0=left, 1=right, 2=middle + extras" (1500). Of two keys or buttons with one code
  (`GLFWKeyCodes.h` 76, 87, 99) that are down, the gui and `Input` drop both
  when one is let go: hold the left button and click a side button, and a drag ends.
  `HeldIsDown`, `GuiKeysAreDown` and `PressedIsLast` are therefore about codes, and
  leave out what is in `dropped`.
* `AStar.cpp` 50 says "Move this node to the closed list" of the node `Top` returned:
  `Top` is the front of the list, `Pop` removes its back (`PathNodePriorityQueue.h`).
  The list loses nodes that were never expanded, so the search misses paths, and the
  node that was taken stays. `AStar` models this, and what is returned is a path.

### Bounds

`Capacity`, `Word`, `MaxCalls`, `Shapes` (job system); `Entity`; `MaxScenes`,
`FileName`, `Entities`, `Serialised`, `Projects` (sessions); `Handle`, `Object`; `N`, `MaxCost`;
`Sizes`, `Addresses`, `MaxResizes`, `KeyboardKeys`, `Buttons`, `Code`, `DeltaTimes` (frame); `Positions`,
`Orientations`, `Toggled`, `Removed` (physics). `MaxCalls`, `MaxScenes` and `MaxResizes` are
the only ones that guard actions. Names of scene
files are compared without case, as on Windows and macOS: the editor saves to
`Assets/scenes` and the project has `Assets/Scenes`.

## 5. Fairness

`job_system`: weak fairness of the main thread inside the job system, and of every
worker. The scheduler runs a thread that can run, the two mutexes are held for a
few instructions, and the jobs return. Nothing is assumed of the caller (it may
never call again) nor of spurious wakeups. `CallsReturn` holds because `poll`
notifies in every turn of its loops.

`reference`: weak fairness of every handle's call, which runs to its end.

The other modules have safety properties only.

## 6. What is proved

For every value of the constants, from the named assumptions of the modules:

* **Job system.** `TypeCorrect`, `Invariance` (`[]IInv`), `WaitIsABarrier`
  (`[]IdleMeansDone`), `JobSystemIsForkJoin` (`Spec => ImplementsForkJoin`).
  `IdleMeansDone` is not inductive: nothing in it relates the labels to the jobs.
  `IInv` says that the labels differ by the jobs not yet pushed, queued or in a
  worker's hands (`Accounting`), that each index still to run belongs to one such
  job (`Coverage`), that no two of those are one job (`JobsDistinct`), and that
  none will run an index again (`RanOnce`). It rests on lemmas about `RingBuffer` (a
  push adds one item, a pop takes one away) and about `JobGroups`:
  `GroupsPartitionJobs`, the groups cover every index once if the sum does not
  wrap, and `WrappedSumGivesNoGroup`, what happens if it does. `JobsStartInOrder`
  (`[]OldestFirst`) follows the queue as a sequence: a push appends a job issued
  after every pushed one, a pop takes the first and moves the others up.
* **References.** `Invariance`, `TypeCorrect`, `CountsAreExact`, `NothingDangles`. The
  counts alone are not inductive: `IInv` adds that the source of a copy is at rest,
  that at most one call frees an object and only when nobody holds it, and that what
  exists is held or about to be freed. Cardinalities are handled by lemmas that
  add or remove one holder.
* **Scene hierarchy.** `TypeCorrect`, `CallsSucceed`, `ListsAgree`,
  `UpdateGoesDown`, `ListsAreATree` (`TreeSpec => ImplementsSceneTree`), for any
  set of entities. What the run checks, that the lists agree, is not inductive: a
  cycle of Parents with agreeing lists survives, and it says nothing of the file.
  `IInv` says that links and lists are one forest: `Rep(r, C, X)` relates a
  registry `r` to a function `C` from entities to sequences of entities and names
  the entities `X` that are in no list at the moment, and `Ranked(C)` gives each
  entity a number below those of its children, which is how nobody is above itself.
  The same is asked of the registry in the file. Each handler has a lemma of what
  it makes of `C`: `OnDestroyFacts` cuts one entity out (`SpliceOut`, with the cases
  of the first, the last and the only child), `OnConstructFacts` appends one
  (`SpliceIn`), and the calls combine them; `DestroyTreeFacts` and `ClearFacts` go
  along the order of destruction. `ClearFacts` needs less than a forest, because in
  the middle of `Clear` there are children without a parent: every next sibling
  names the previous one (`Linked`), and no handler fails. A walk is a list because
  a list without repetition is shorter than `WalkBound` (`WalkIsList`), and what a
  recursion reaches is the least set closed under the children (`ReachFacts`).
  `UpdateGoesDown` is about any set of entities with a Transform: an entity is
  reached from its root, the one without a parent among those above it
  (`ReachedFromRoots`), so it is updated if that root and its parent have one.
* **Scene manager.** `OneSceneHasEntities`, `GameScenesAreInitialised`,
  `TypeCorrect`, `StopBringsBack`, `GamesReopen`. The
  invariant adds that a frame has a scene once it applied the switch, that the
  current index is in the list unless the process crashed, and that a game is in
  Play from its launch on. Every step is one of four kinds, each with a lemma: it
  changes the current scene only, leaves the scenes alone, adds an empty one, or
  ends the process; launch and switch have their own. `StopBringsBack` needs
  `PlayedOK`: until the next switch the cached file of the name Play was pressed
  under holds what a file keeps of what Play found, which rests on names of files having no spaces (`NoSpaces`), so the
  scene saved and the scene loaded have one name. `GamesReopen` needs `ReopenInv`:
  the scenes of a game are the files of the project in their order, the project
  that a game left has the index of the scene it was closed on, and a launch asks
  for that index.
* **Render targets.** `HeldStaysCached`, `SweepDropsTheRest`, `SizesStayEqual`,
  `StaleFramebuffers`, of `RenderTargets` alone. The invariant adds `KeysSeen`: a
  cached framebuffer has a width renderers had since the last sweep, so a resize
  that finds one came back to it. `CountedIsHeld` relates the count the sweep
  reads to the holders.
* **Frame loop.** `FrameImplementsTargets`: a run of `Application` is a behaviour
  of `RenderTargets`, so the four theorems above hold in the loop
  (`FrameKeepsTargets`). `NoKeySticks`, `GuiSeesEveryKey` and `PressIsReadOnce`
  hold for any conversion to codes that keeps keys and buttons apart. They are
  inductive together with the types of the histories: what was taken or dropped is
  down, and a release drops all that share its code (`ReleaseKeepsInputInv`), so a
  code leaves the held ones just when nothing is left that holds it. `ClockKeepsPace` rests on `TimeKept`: steps
  made and time kept add up to what the frame had. `FrameTypes` adds that the
  clock's loop runs only inside an update.
* **Octree.** `NoContactIsMissed`, `NoPairIsStray`, `BroadphaseTypeOK`, for any
  axes, divisions that are all choices of halves, limits and boxes. That two
  objects share a leaf in the end says nothing of the middle of the recursion.
  `ContactsKept` does: the greatest of the two lower corners, a point of both
  boxes, lies in a child that some call on the stack has still to make and both
  objects are in that call, or the two share a leaf. The root holds the point once
  both are merged, the choice of halves that holds it is one of the divisions
  (`Parameters`), and an object that holds the point is inside the child.
* **Physics frame.** `FrameImplementsBroadphase`: no box the bodies answer with,
  and no answer to whether one is still, changes during a search
  (`Physics => Octree!Spec`). So the octree's theorems hold of the boxes bodies
  answer with; `OnlyTurnedIsStale` makes these the true boxes, and together they
  give `NoContactIsMissed` of a frame. `SolverWakesBodies` and
  `ResponsesAreApplied` rest on `FrameInv`, which follows a pair from the octree
  to the manifold: its bodies are in the scene, each was woken when the manifold
  was added and nobody sleeps before the manifolds are solved, and a body that is in one,
  not static, and no longer waits has no cached box.

* **Path finding.** `ParentsLeadBack`, `WaitingWereMet`, `PathsLeadToTheEnd`, for any
  graph. That scores grow along `Parent` is not inductive: a node may get its score
  after it was dropped or expanded. `IInv` adds that parents are closed and that
  scores grow with the closed nodes only, so no node that was not reached has a
  score below infinity and the start never gets a parent. A path is a walk along
  `Parent`; a walk visits no node twice as scores fall, so it meets the start
  within `N` nodes (an injection of `1 .. N` into the other nodes would exist).
  The walk is a recursive function: the prover sees a `CHOOSE`, and
  `NumberInduction`, from the library's first-order theorem that a set of numbers
  has a least member, shows that a function with these equations exists.

Only model-checked: liveness (`CallsReturn`, `DroppedIsFreed`), which needs
fairness and is out of the prover's reach. Recursive functions and walks are
reasoned about with `NumberInduction`, as under Path finding. The properties the
runs find violated hold for no theorem, of course; what is true in their place is
stated beside them (`StaleOnlyIfTurned`, `TreeNext`).

## 7. Not modelled

* Solver, collision geometry, integration, maths, Box2D: floating point. Their
  answers are choices of `Physics`. Constraints of bodies are left out, and with
  them the second half of `SolveConstraints`: a weld moves its second body
  (`WeldConstraint.cpp` 26-29), a distance or a spring changes velocities of bodies
  that sleep (`DistanceConstraint.cpp` 54-58, `SpringConstraint.cpp` 69-73). What
  the project says of bodies the solver works on is said of contacts.
* The renderers of `DebugRenderer`, which get a resize after those of the render
  graph's list (`RenderGraph.cpp` 87, `LineRenderer.cpp` 316-330) and keep
  framebuffers of their own.
* The node pool's 512 entries (`OctreeBroadphase.cpp` 114): a node of `Octree` is
  the call that made it. See the hazard.
* Resource, pipeline and render pass caches: pipelines and render passes are asked
  for when renderers are made and `ClearCache` runs in `Quit`, so between the two
  the sweep finds nothing to drop; the rule itself is the framebuffers'.
* OpenGL, Vulkan resources, semaphores and fences, renderers, audio: calls of
  drivers. What `Begin` does when the swapchain is out of date is modelled.
* Scrolling, the mouse's position, typed characters, focus: no state that relates
  to another. The window of `Platform/Windows`, which reports no release of keys
  that are let go while another window has the focus: `Input` is the GLFW window's.
* Lua, ImGui windows: bindings and drawing; what they may do to scenes and to the
  hierarchy is in those models.
* Platforms, file system, logging, profiling: input and output.
* `AreaAllocator`, `BinAllocator`, `StateMachine`: unused, or empty.
* `WeakReference`, `release` and converting assignments of `Ref`; components other
  than `Hierarchy`; the affinity calls of Windows in the job system.
* `src/Lumos/External`: vendored. It is most of the repository's C and C++ lines;
  the engine and the editor themselves are a small part of them, so a share of
  mapped lines counted over the whole repository says little.
