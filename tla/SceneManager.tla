---------------------------- MODULE SceneManager ----------------------------
(***************************************************************************)
(* Scene/SceneManager.cpp, Core/Application.cpp and the play controls of   *)
(* Editor/Source/Editor.cpp: which scene is current, when it is updated    *)
(* and what it contains, over the frames of a session and over sessions.   *)
(* The game and the editor open the same project (SandboxApp.cpp 12,       *)
(* Editor.cpp 56); each launch starts one of them.                         *)
(*                                                                         *)
(* What a scene contains is a value: the properties ask only which one.    *)
(* A file keeps less: AxisConstraintComponent is not among the components  *)
(* Scene::Serialise writes.                                                *)
(* File names are compared without regard to case, as on Windows and       *)
(* macOS: the editor saves to Assets/scenes and mounts Assets/Scenes.      *)
(***************************************************************************)
EXTENDS Integers, Sequences

CONSTANTS FileName,    \* names of scene files, which have no spaces
          Entities,    \* what a scene may contain
          Serialised,  \* what a file keeps of them
          Empty,       \* nothing
          None,        \* no file, no scene
          Projects,    \* what the first launch finds as project file
          MaxScenes    \* bound on the scenes of a session

ASSUME SceneManagerAssumption ==
    /\ Empty \in Entities /\ Serialised \in [Entities -> Entities]
    /\ "NewScene" \in FileName
    /\ None \notin Int \cup Entities
    /\ \A p \in Projects : p = None \/ (p.Scenes \in Seq(FileName) /\ p.SceneIndex \in Int)
    /\ MaxScenes \in Nat \ {0}

ASSUME NoSpaces == "New Scene" \notin FileName

ASSUME NoneIsNoProject == None \notin [Scenes : Seq(FileName), SceneIndex : Int]

VARIABLES m_vpAllScenes,       \* [name, entities, initialised]
          m_SceneFilePaths,    \* the files scenes were enqueued from
          m_CurrentScene,      \* its index, m_SceneIdx, or None
          m_QueuedSceneIndex, m_SwitchingScenes,
          m_EditorState,
          app,                 \* AppType
          pc,                  \* where OnFrame is
          scenesDir,           \* Assets/Scenes: what a file contains, or None
          tempDir,             \* m_TempSceneSaveFilePath, likewise
          project,             \* [Scenes, SceneIndex], or None
          played,              \* what Play was pressed on, until something else replaces it:
                               \* its name and what it contained
          closedOn             \* the scene a game was closed on

scenes   == <<m_vpAllScenes, m_SceneFilePaths>>
request  == <<m_QueuedSceneIndex, m_SwitchingScenes>>
files    == <<scenesDir, tempDir, project>>
history  == <<played, closedOn>>
vars     == <<scenes, m_CurrentScene, request, m_EditorState, app, pc, files, history>>

SceneName == FileName \cup {"New Scene"}
Storable == {Serialised[e] : e \in Entities}

RemoveSpaces(name) == IF name = "New Scene" THEN "NewScene" ELSE name

Scene(name) == [name |-> name, entities |-> Empty, initialised |-> FALSE]

Current == m_vpAllScenes[m_CurrentScene + 1]
SetCurrent(scene) == m_vpAllScenes' = [m_vpAllScenes EXCEPT ![m_CurrentScene + 1] = scene]

Contains(dir, name) == name \in FileName /\ dir[name] # None

Init == /\ m_vpAllScenes = <<>> /\ m_SceneFilePaths = <<>> /\ m_CurrentScene = None
        /\ m_QueuedSceneIndex = -1 /\ m_SwitchingScenes = FALSE
        /\ m_EditorState = "Play" /\ app = "Game" /\ pc = "off"
        /\ scenesDir \in [FileName -> Storable \cup {None}]
        /\ tempDir = [f \in FileName |-> None]
        /\ project \in Projects
        /\ played = None /\ closedOn = None

\* The constructor reads the project and asks for its scene, Init enqueues the
\* scenes of its list.
Launch(type) ==
    /\ pc = "off"
    /\ LET paths == IF project = None THEN <<>> ELSE project.Scenes
       IN  /\ m_SceneFilePaths' = paths
           /\ m_vpAllScenes' = [i \in DOMAIN paths |-> Scene(paths[i])]
    /\ m_SwitchingScenes' = (project # None)
    /\ m_QueuedSceneIndex' = IF project = None THEN -1 ELSE project.SceneIndex
    /\ m_CurrentScene' = None
    /\ app' = type
    /\ m_EditorState' = IF type = "Editor" THEN "Preview" ELSE "Play"
    /\ pc' = "switch"
    /\ played' = None
    /\ UNCHANGED <<files, closedOn>>

\* Scene::Deserialise; the file holds the name it is saved under.
Deserialise(scene, dir) ==
    LET name == RemoveSpaces(scene.name)
    IN  [name |-> name,
         entities |-> IF Contains(dir, name) THEN dir[name] ELSE Empty,
         initialised |-> scene.initialised]

-----------------------------------------------------------------------------
(* SceneManager. *)

SwitchTo(idx) == m_QueuedSceneIndex' = idx /\ m_SwitchingScenes' = TRUE

SwitchNext == SwitchTo((m_CurrentScene + 1) % Len(m_vpAllScenes))

\* The first scene of that name.  An unknown name leaves the index that was
\* queued last, and switches.
SwitchToName(name) ==
    LET found == {i \in DOMAIN m_vpAllScenes : m_vpAllScenes[i].name = name}
    IN  /\ m_SwitchingScenes' = TRUE
        /\ IF found = {} THEN UNCHANGED m_QueuedSceneIndex
           ELSE m_QueuedSceneIndex' = (CHOOSE i \in found : \A j \in found : i <= j) - 1

EnqueueScene(name) == m_vpAllScenes' = Append(m_vpAllScenes, Scene(name))

\* Faulty: a scene that OnInit was called for is left as it is.
CleanedUpUnplayed(list) ==
    IF m_CurrentScene = None \/ Current.initialised THEN list
    ELSE [list EXCEPT ![m_CurrentScene + 1].entities = Empty]

\* OnCleanupScene.
CleanedUp(list) ==
    IF m_CurrentScene = None THEN list
    ELSE [list EXCEPT ![m_CurrentScene + 1].entities = Empty]

\* Faulty: OnInit only for a scene that has a file.
ActivatedFromFile(scene) ==
    IF Contains(scenesDir, scene.name)
    THEN [Deserialise(scene, scenesDir) EXCEPT !.initialised = m_EditorState = "Play"]
    ELSE [scene EXCEPT !.initialised = FALSE]

Activated(scene) ==
    [(IF Contains(scenesDir, scene.name) THEN Deserialise(scene, scenesDir) ELSE scene)
        EXCEPT !.initialised = m_EditorState = "Play"]

\* Faulty: no test.
AnyIndex(index, list) == index

\* An index that is no scene's is replaced by the first scene's.
ValidIndex(index, list) == IF index \in 0 .. Len(list) - 1 THEN index ELSE 0

ApplySceneSwitch ==
    /\ pc = "switch"
    /\ m_SwitchingScenes \/ m_CurrentScene = None
    /\ LET list   == IF ~m_SwitchingScenes /\ m_vpAllScenes = <<>> THEN <<Scene("NewScene")>>
                     ELSE m_vpAllScenes
           queued == IF m_SwitchingScenes THEN ValidIndex(m_QueuedSceneIndex, list) ELSE 0
       IN  /\ m_QueuedSceneIndex' = queued
           /\ m_CurrentScene' = queued
           /\ IF list = <<>>   \* m_vpAllScenes[0] is read through null
              THEN pc' = "crashed" /\ m_vpAllScenes' = list
              ELSE /\ pc' = "update"
                   /\ m_vpAllScenes' = [CleanedUp(list) EXCEPT ![queued + 1] = Activated(@)]
    /\ m_SwitchingScenes' = FALSE
    /\ played' = None
    /\ UNCHANGED <<m_SceneFilePaths, m_EditorState, app, files, closedOn>>

KeepScene == /\ pc = "switch"
             /\ ~m_SwitchingScenes /\ m_CurrentScene # None
             /\ pc' = "update"
             /\ UNCHANGED <<scenes, m_CurrentScene, request, m_EditorState, app, files, history>>

-----------------------------------------------------------------------------
(* Application::OnFrame. *)

IsUpdated == m_EditorState \notin {"Paused", "Preview"}

\* Physics and scripts move the scene about; scripts may ask for another.
OnUpdate ==
    /\ pc = "update" /\ IsUpdated
    /\ \E e \in Entities : SetCurrent([Current EXCEPT !.entities = e])
    /\ \/ UNCHANGED request
       \/ SwitchNext
       \/ \E i \in -1 .. MaxScenes : SwitchTo(i)
       \/ \E name \in FileName : SwitchToName(name)
    /\ pc' = "gui"
    /\ UNCHANGED <<m_SceneFilePaths, m_CurrentScene, m_EditorState, app, files, history>>

SkipUpdate == /\ pc = "update" /\ ~IsUpdated
              /\ pc' = "gui"
              /\ UNCHANGED <<scenes, m_CurrentScene, request, m_EditorState, app, files, history>>

\* After the gui: the window's events, one of which may close it.
NextFrame == /\ pc = "events"
             /\ pc' = "switch"
             /\ UNCHANGED <<scenes, m_CurrentScene, request, m_EditorState, app, files, history>>

\* The process is gone, files are left.
Gone == /\ pc' = "off" /\ m_vpAllScenes' = <<>> /\ m_SceneFilePaths' = <<>>
        /\ m_CurrentScene' = None /\ m_QueuedSceneIndex' = -1 /\ m_SwitchingScenes' = FALSE
        /\ m_EditorState' = "Play" /\ app' = "Game" /\ played' = None

\* Faulty: the scene asked for last, entered or not.
SavedQueued == [Scenes |-> m_SceneFilePaths, SceneIndex |-> m_QueuedSceneIndex]

SavedProject == [Scenes |-> m_SceneFilePaths, SceneIndex |-> m_CurrentScene]

\* Application::Quit saves the project first.
Quit == /\ pc = "events"
        /\ project' = SavedProject
        /\ closedOn' = IF app = "Game" THEN Current.name ELSE None
        /\ Gone
        /\ UNCHANGED <<scenesDir, tempDir>>

\* The process may end at any point.
Kill == /\ pc \notin {"off", "crashed"}
        /\ Gone
        /\ UNCHANGED <<files, closedOn>>

-----------------------------------------------------------------------------
(* The editor's gui.  One item is clicked in a frame, or none. *)

Gui == pc = "gui" /\ app = "Editor" /\ pc' = "keys"

\* The toolbar is drawn in every frame.
Shown == IF m_EditorState = "Next" THEN "Paused" ELSE m_EditorState

NoClick == /\ Gui
           /\ m_EditorState' = Shown
           /\ UNCHANGED <<scenes, m_CurrentScene, request, app, files, history>>

\* Changes the scene's entities by any of the windows.
Edit == /\ Gui
        /\ \E e \in Entities : SetCurrent([Current EXCEPT !.entities = e])
        /\ m_EditorState' = Shown
        /\ UNCHANGED <<m_SceneFilePaths, m_CurrentScene, request, app, files, history>>

\* The name above the tree of the hierarchy window, also while the scene plays.
Rename == /\ Gui
          /\ \E name \in SceneName \ {Current.name} : SetCurrent([Current EXCEPT !.name = name])
          /\ m_EditorState' = Shown
          /\ UNCHANGED <<m_SceneFilePaths, m_CurrentScene, request, app, files, history>>

NewScene == /\ Gui /\ Len(m_vpAllScenes) < MaxScenes
            /\ EnqueueScene("New Scene")
            /\ SwitchTo(Len(m_vpAllScenes))
            /\ m_EditorState' = Shown
            /\ UNCHANGED <<m_SceneFilePaths, m_CurrentScene, app, files, history>>

OpenScene(file) == /\ Gui /\ Len(m_vpAllScenes) < MaxScenes
                   /\ scenesDir[file] # None
                   /\ EnqueueScene(file)
                   /\ m_SceneFilePaths' = Append(m_SceneFilePaths, file)
                   /\ SwitchTo(Len(m_vpAllScenes))
                   /\ m_EditorState' = Shown
                   /\ UNCHANGED <<m_CurrentScene, app, files, history>>

SelectScene == /\ Gui
               /\ \E i \in DOMAIN m_vpAllScenes : SwitchToName(m_vpAllScenes[i].name)
               /\ m_EditorState' = Shown
               /\ UNCHANGED <<scenes, m_CurrentScene, app, files, history>>

\* Faulty: RemoveSpaces works on a copy.
SavedCopy(scene) == scene

\* RemoveSpaces works on m_SceneName itself.
Saved(scene) == [scene EXCEPT !.name = RemoveSpaces(@)]

Stored(dir) == [dir EXCEPT ![RemoveSpaces(Current.name)] = Serialised[Current.entities]]

SaveScene == /\ Gui
             /\ SetCurrent(Saved(Current))
             /\ scenesDir' = Stored(scenesDir)
             /\ m_EditorState' = Shown
             /\ UNCHANGED <<m_SceneFilePaths, m_CurrentScene, request, app, tempDir, project, history>>

\* The Play button when the state is not Play: CacheScene, OnInit.
Play == /\ Gui /\ Shown # "Play"
        /\ SetCurrent([Saved(Current) EXCEPT !.initialised = TRUE])
        /\ tempDir' = Stored(tempDir)
        /\ m_EditorState' = "Play"
        /\ played' = IF Shown = "Preview"
                     THEN [name |-> Saved(Current).name, entities |-> Current.entities] ELSE None
        /\ UNCHANGED <<m_SceneFilePaths, m_CurrentScene, request, app, scenesDir, project, closedOn>>

LoadCachedScene(scene) ==
    IF Contains(tempDir, scene.name) THEN Deserialise(scene, tempDir)
    ELSE IF Contains(scenesDir, scene.name) THEN Deserialise(scene, scenesDir) ELSE scene

\* The Play button when the state is Play.
Stop == /\ Gui /\ Shown = "Play"
        /\ SetCurrent(LoadCachedScene(Current))
        /\ m_EditorState' = "Preview"
        /\ played' = None
        /\ UNCHANGED <<m_SceneFilePaths, m_CurrentScene, request, app, files, closedOn>>

Pause == /\ Gui
         /\ m_EditorState' = IF Shown = "Paused" THEN "Play" ELSE "Paused"
         /\ UNCHANGED <<scenes, m_CurrentScene, request, app, files, history>>

StepForward == /\ Gui
               /\ m_EditorState' = "Next"
               /\ UNCHANGED <<scenes, m_CurrentScene, request, app, files, history>>

\* CTRL+S and CTRL+O, in Editor::OnUpdate; both may be pressed in a frame.
SaveKey == /\ pc = "keys" /\ m_EditorState = "Preview"
           /\ SetCurrent(Saved(Current))
           /\ scenesDir' = Stored(scenesDir)
           /\ UNCHANGED <<m_SceneFilePaths, m_CurrentScene, request, m_EditorState, app, pc,
                          tempDir, project, history>>

Reload == /\ pc = "keys" /\ m_EditorState = "Preview"
          /\ SetCurrent(Deserialise(Current, scenesDir))
          /\ pc' = "events"
          /\ UNCHANGED <<m_SceneFilePaths, m_CurrentScene, request, m_EditorState, app, files, history>>

NoKey == /\ pc = (IF app = "Editor" THEN "keys" ELSE "gui")
         /\ pc' = "events"
         /\ UNCHANGED <<scenes, m_CurrentScene, request, m_EditorState, app, files, history>>

Click == \/ NoClick \/ Edit \/ Rename \/ NewScene \/ SelectScene \/ SaveScene
         \/ \E file \in FileName : OpenScene(file)
         \/ Play \/ Stop \/ Pause \/ StepForward

Next == \/ \E type \in {"Game", "Editor"} : Launch(type)
        \/ ApplySceneSwitch \/ KeepScene \/ OnUpdate \/ SkipUpdate \/ NextFrame
        \/ Click \/ SaveKey \/ Reload \/ NoKey
        \/ Quit \/ Kill

Spec == Init /\ [][Next]_vars

-----------------------------------------------------------------------------
(* Properties. *)

SceneType == [name : SceneName, entities : Entities, initialised : BOOLEAN]

IsProject(p) == p = None \/ (p.Scenes \in Seq(FileName) /\ p.SceneIndex \in Int)

TypeOK ==
    /\ m_vpAllScenes \in Seq(SceneType)
    /\ m_SceneFilePaths \in Seq(FileName)
    /\ pc # "crashed" => m_CurrentScene \in {None} \cup (0 .. Len(m_vpAllScenes) - 1)
    /\ m_QueuedSceneIndex \in Int /\ m_SwitchingScenes \in BOOLEAN
    /\ m_EditorState \in {"Paused", "Play", "Next", "Preview"}
    /\ app \in {"Game", "Editor"}
    /\ pc \in {"off", "switch", "update", "gui", "keys", "events", "crashed"}
    /\ scenesDir \in [FileName -> Storable \cup {None}]
    /\ tempDir \in [FileName -> Storable \cup {None}]
    /\ IsProject(project)
    /\ played \in [name : SceneName, entities : Entities] \cup {None}
    /\ closedOn \in SceneName \cup {None}

\* A scene that is not the current one holds nothing: OnCleanupScene ran when it
\* was left (SceneManager.cpp 96-103, Scene.h 44-47).
OnlyCurrentHasEntities ==
    \A i \in DOMAIN m_vpAllScenes : i - 1 # m_CurrentScene => m_vpAllScenes[i].entities = Empty

\* In a game a scene is updated only once OnInit was called for it (Scene.h 40-42).
GameInitialises ==
    app = "Game" /\ pc = "update" => Current.initialised

\* "Called when scene is being activated, and will begin being rendered/updated"
\* (Scene.h 40), in the editor as well.
UpdatedScenesAreInitialised ==
    pc = "update" /\ IsUpdated => Current.initialised

\* Stop brings back what a file keeps of the scene Play was pressed on in Preview,
\* if the scene has the name it was played under, and unless another scene was
\* entered or Play was pressed again after Pause (Editor.cpp 542-556, 1691-1714).
StopRestores ==
    [][pc = "gui" /\ m_EditorState = "Play" /\ m_EditorState' = "Preview"
        => (played # None /\ Current.name = played.name
              => Current'.entities = Serialised[played.entities])]_vars

\* A game that was closed opens on the scene it was closed on, whichever of the
\* game and the editor is launched (Application.h 211, 247-249).  A project saved
\* without a scene file ends the session instead.
ReopensLastScene ==
    [][m_CurrentScene = None /\ m_CurrentScene' # None /\ closedOn # None /\ pc' # "crashed"
        => Current'.name = closedOn]_vars
=============================================================================
