------------------------- MODULE SceneManager_proofs ------------------------
(***************************************************************************)
(* One scene at a time holds entities, for any number of scenes, sessions  *)
(* and contents, and a game updates initialised scenes only.               *)
(***************************************************************************)
EXTENDS SceneManager, SequenceTheorems, WellFoundedInduction, TLAPS

\* The files and the request for a switch.
FilesOK == /\ m_SceneFilePaths \in Seq(FileName)
           /\ scenesDir \in [FileName -> Storable \cup {None}]
           /\ tempDir \in [FileName -> Storable \cup {None}]
           /\ IsProject(project)
           /\ m_SwitchingScenes \in BOOLEAN

ScenesOK == m_vpAllScenes \in Seq(SceneType)

\* A frame has a scene once it applied the switch.
CurrentOK == /\ pc # "crashed" /\ m_CurrentScene # None
                => m_CurrentScene \in Nat /\ m_CurrentScene + 1 \in DOMAIN m_vpAllScenes
             /\ pc \in {"update", "gui", "keys", "events"} => m_CurrentScene # None

\* A game plays from its launch, and every switch initialises what it enters.
GameOK == /\ app \in {"Game", "Editor"}
          /\ app = "Game" => m_EditorState = "Play"
          /\ app = "Game" /\ pc # "crashed" /\ m_CurrentScene # None => Current.initialised

IInv == FilesOK /\ ScenesOK /\ CurrentOK /\ GameOK /\ OnlyCurrentHasEntities

\* A new scene is empty.
LEMMA SceneIsEmpty ==
    ASSUME NEW name \in SceneName
    PROVE  Scene(name) \in SceneType /\ Scene(name).entities = Empty
BY SceneManagerAssumption DEF Scene, SceneType

\* The names of files are names of scenes.
LEMMA FileNames ==
    /\ FileName \subseteq SceneName
    /\ \A name \in SceneName : RemoveSpaces(name) \in FileName
BY SceneManagerAssumption, Zenon DEF RemoveSpaces, SceneName

\* What a file keeps is a content (Scene.cpp 167-204).
LEMMA StorableOK ==
    /\ Storable \subseteq Entities /\ \A e \in Entities : Serialised[e] \in Storable
BY SceneManagerAssumption DEF Storable

\* Changing a field of a scene leaves the others.
LEMMA WithEntities ==
    ASSUME NEW scene \in SceneType, NEW e \in Entities
    PROVE  /\ [scene EXCEPT !.entities = e] \in SceneType
           /\ [scene EXCEPT !.entities = e].entities = e
           /\ [scene EXCEPT !.entities = e].initialised = scene.initialised
BY DEF SceneType

LEMMA WithInitialised ==
    ASSUME NEW scene \in SceneType, NEW b \in BOOLEAN
    PROVE  /\ [scene EXCEPT !.initialised = b] \in SceneType
           /\ [scene EXCEPT !.initialised = b].initialised = b
BY DEF SceneType

LEMMA InitInv == Init => IInv
<1> SUFFICES ASSUME Init PROVE IInv OBVIOUS
<1> USE SceneManagerAssumption DEF Init
<1>1. m_vpAllScenes \in Seq(SceneType) /\ m_SceneFilePaths \in Seq(FileName)
      BY EmptySeq
<1>2. tempDir \in [FileName -> Storable \cup {None}] OBVIOUS
<1>3. IsProject(project) BY DEF IsProject
<1>5. m_SwitchingScenes \in BOOLEAN /\ scenesDir \in [FileName -> Storable \cup {None}]
      BY ONLY Init, Zenon DEF Init
<1>8. FilesOK /\ ScenesOK BY ONLY <1>1, <1>2, <1>3, <1>5 DEF ScenesOK, FilesOK
<1>6. CurrentOK /\ GameOK BY DEF CurrentOK, GameOK
<1>7. OnlyCurrentHasEntities BY DEF OnlyCurrentHasEntities
<1> QED BY <1>6, <1>7, <1>8 DEF IInv

\* Loading a scene gives it what a file contains, or nothing.
LEMMA DeserialiseOK ==
    ASSUME NEW scene \in SceneType, NEW dir \in [FileName -> Storable \cup {None}]
    PROVE  /\ Deserialise(scene, dir) \in SceneType
           /\ Deserialise(scene, dir).initialised = scene.initialised
<1> DEFINE name == RemoveSpaces(scene.name)
           entities == IF Contains(dir, name) THEN dir[name] ELSE Empty
<1>1. name \in SceneName
      BY FileNames DEF SceneType
<1>2. entities \in Entities BY SceneManagerAssumption, StorableOK DEF Contains
<1>3. Deserialise(scene, dir) =
        [name |-> name, entities |-> entities, initialised |-> scene.initialised]
      BY DEF Deserialise
<1>4. scene.initialised \in BOOLEAN BY DEF SceneType
<1> HIDE DEF name, entities
<1>5. [name |-> name, entities |-> entities, initialised |-> scene.initialised] \in SceneType
      BY ONLY <1>1, <1>2, <1>4 DEF SceneType
<1>6. Deserialise(scene, dir).initialised = scene.initialised
      BY ONLY <1>3
<1> QED BY <1>3, <1>5, <1>6

\* A launch starts with scenes that are empty (Application.cpp 165).
LEMMA LaunchInv == ASSUME IInv, NEW type \in {"Game", "Editor"}, Launch(type) PROVE IInv'
<1> USE SceneManagerAssumption DEF IInv
<1> DEFINE paths == IF project = None THEN <<>> ELSE project.Scenes
<1>1. paths \in Seq(FileName) BY DEF FilesOK, IsProject
<1>2. m_vpAllScenes' = [i \in DOMAIN paths |-> Scene(paths[i])] /\ m_SceneFilePaths' = paths
      BY DEF Launch
<1>3. \A i \in DOMAIN paths : Scene(paths[i]) \in SceneType /\ Scene(paths[i]).entities = Empty
  <2> TAKE i \in DOMAIN paths
  <2>1. paths[i] \in SceneName BY <1>1, ElementOfSeq, LenProperties, FileNames
  <2> QED BY <2>1, SceneIsEmpty
<1>4. m_vpAllScenes' \in Seq(SceneType) BY <1>1, <1>2, <1>3
<1>5. ScenesOK' BY <1>4 DEF ScenesOK
<1>8. FilesOK' BY <1>1, <1>2 DEF FilesOK, IsProject, Launch, files
<1>6. CurrentOK' /\ GameOK' BY DEF CurrentOK, GameOK, Launch
<1>7. OnlyCurrentHasEntities' BY <1>2, <1>3 DEF OnlyCurrentHasEntities
<1> QED BY <1>5, <1>6, <1>7, <1>8

\* The steps that change the current scene only.
LEMMA CurrentInv ==
    ASSUME IInv, pc \in {"update", "gui", "keys"}, pc' \in {"gui", "keys", "events"},
           NEW scene \in SceneType, SetCurrent(scene),
           app = "Game" => scene.initialised,
           UNCHANGED <<m_CurrentScene, app>>,
           app = "Game" => m_EditorState' = m_EditorState,
           FilesOK'
    PROVE  IInv'
<1> USE SceneManagerAssumption DEF IInv
<1>1. m_CurrentScene \in Nat /\ m_CurrentScene + 1 \in DOMAIN m_vpAllScenes BY DEF CurrentOK
<1>2. m_vpAllScenes' = [m_vpAllScenes EXCEPT ![m_CurrentScene + 1] = scene] BY DEF SetCurrent
<1>3. m_vpAllScenes' \in Seq(SceneType) /\ DOMAIN m_vpAllScenes' = DOMAIN m_vpAllScenes
      BY <1>1, <1>2, ExceptSeq DEF ScenesOK
<1>4. ScenesOK' BY <1>3 DEF ScenesOK
<1>5. CurrentOK' BY <1>1, <1>3 DEF CurrentOK
<1>6. GameOK' BY <1>1, <1>2 DEF GameOK, Current
<1>7. OnlyCurrentHasEntities' BY <1>1, <1>2, <1>3 DEF OnlyCurrentHasEntities
<1> QED BY <1>4, <1>5, <1>6, <1>7

\* The steps that leave the scenes alone.
LEMMA QuietInv ==
    ASSUME IInv, pc \notin {"off", "crashed"}, pc' \in {"switch", "update", "gui", "keys", "events"},
           pc' # "switch" => m_CurrentScene # None,
           UNCHANGED <<m_vpAllScenes, m_CurrentScene, app>>,
           app = "Game" => m_EditorState' = m_EditorState,
           FilesOK'
    PROVE  IInv'
<1>1. ScenesOK' /\ CurrentOK' BY DEF IInv, ScenesOK, CurrentOK
<1>2. GameOK' BY DEF IInv, GameOK, Current
<1>3. OnlyCurrentHasEntities' BY DEF IInv, OnlyCurrentHasEntities
<1> QED BY <1>1, <1>2, <1>3 DEF IInv

\* The steps that add a scene (SceneManager.cpp 143-148).
LEMMA EnqueueInv ==
    ASSUME IInv, pc = "gui", pc' = "keys", NEW name \in SceneName,
           EnqueueScene(name), UNCHANGED <<m_CurrentScene, app>>, app = "Editor",
           FilesOK'
    PROVE  IInv'
<1> USE SceneManagerAssumption DEF IInv
<1>1. m_CurrentScene \in Nat /\ m_CurrentScene + 1 \in DOMAIN m_vpAllScenes BY DEF CurrentOK
<1>2. Scene(name) \in SceneType /\ Scene(name).entities = Empty BY SceneIsEmpty
<1>3. m_vpAllScenes' = Append(m_vpAllScenes, Scene(name)) BY DEF EnqueueScene
<1> DEFINE size == Len(m_vpAllScenes)
<1>4. /\ m_vpAllScenes' \in Seq(SceneType) /\ Len(m_vpAllScenes') = size + 1
      /\ \A i \in 1 .. size : m_vpAllScenes'[i] = m_vpAllScenes[i]
      /\ m_vpAllScenes'[size + 1] = Scene(name)
      BY ONLY ScenesOK, <1>2, <1>3, AppendProperties DEF ScenesOK
<1>5. size \in Nat /\ DOMAIN m_vpAllScenes = 1 .. size /\ DOMAIN m_vpAllScenes' = 1 .. size + 1
      BY <1>4, LenProperties DEF ScenesOK
<1>9. m_CurrentScene' = m_CurrentScene OBVIOUS
<1> HIDE DEF size
<1>6. CurrentOK' BY <1>1, <1>5, <1>9 DEF CurrentOK
<1>7. GameOK' BY DEF GameOK
<1>8. OnlyCurrentHasEntities'
  <2> SUFFICES ASSUME NEW i \in DOMAIN m_vpAllScenes', i - 1 # m_CurrentScene'
               PROVE  m_vpAllScenes'[i].entities = Empty
      BY DEF OnlyCurrentHasEntities
  <2>1. CASE i = size + 1 BY <2>1, <1>2, <1>4
  <2>2. CASE i \in 1 .. size BY <2>2, <1>4, <1>5 DEF OnlyCurrentHasEntities
  <2>3. i = size + 1 \/ i \in 1 .. size BY ONLY <1>5, i \in DOMAIN m_vpAllScenes'
  <2> QED BY <2>1, <2>2, <2>3
<1> QED BY <1>4, <1>6, <1>7, <1>8 DEF ScenesOK

\* The process ends.
LEMMA GoneInv == ASSUME IInv, Gone, FilesOK' PROVE IInv'
<1>1. ScenesOK' BY EmptySeq DEF Gone, ScenesOK
<1>2. CurrentOK' /\ GameOK' BY DEF Gone, CurrentOK, GameOK
<1>3. OnlyCurrentHasEntities' BY DEF Gone, OnlyCurrentHasEntities
<1> QED BY <1>1, <1>2, <1>3 DEF IInv

\* A scene that is entered is initialised when the state is Play
\* (SceneManager.cpp 105-133).
LEMMA ActivatedOK ==
    ASSUME FilesOK, NEW scene \in SceneType
    PROVE  Activated(scene) \in SceneType /\ Activated(scene).initialised = (m_EditorState = "Play")
<1> DEFINE base == IF Contains(scenesDir, scene.name) THEN Deserialise(scene, scenesDir) ELSE scene
           playing == m_EditorState = "Play"
<1>1. base \in SceneType BY DeserialiseOK DEF FilesOK
<1>2. Activated(scene) = [base EXCEPT !.initialised = playing] BY DEF Activated
<1>3. playing \in BOOLEAN OBVIOUS
<1> HIDE DEF base, playing
<1>4. /\ [base EXCEPT !.initialised = playing] \in SceneType
      /\ [base EXCEPT !.initialised = playing].initialised = playing
      BY <1>1, <1>3, WithInitialised
<1> QED BY <1>2, <1>4 DEF playing

\* The scene that was current is cleaned up before another is entered.
LEMMA CleanedUpOK ==
    ASSUME ScenesOK, CurrentOK, OnlyCurrentHasEntities, pc = "switch",
           NEW list \in Seq(SceneType), m_CurrentScene # None => list = m_vpAllScenes,
           m_CurrentScene = None => \A i \in DOMAIN list : list[i].entities = Empty
    PROVE  /\ CleanedUp(list) \in Seq(SceneType)
           /\ DOMAIN CleanedUp(list) = DOMAIN list
           /\ \A i \in DOMAIN list : CleanedUp(list)[i].entities = Empty
<1>1. CASE m_CurrentScene = None BY <1>1 DEF CleanedUp
<1>2. CASE m_CurrentScene # None
  <2> DEFINE cur == m_CurrentScene + 1
             scene == [list[cur] EXCEPT !.entities = Empty]
  <2>1. m_CurrentScene \in Nat /\ cur \in DOMAIN list BY <1>2 DEF CurrentOK
  <2>2. list[cur] \in SceneType BY <2>1
  <2>3. scene \in SceneType /\ scene.entities = Empty
        BY <2>2, WithEntities, SceneManagerAssumption
  <2>4. CleanedUp(list) = [list EXCEPT ![cur] = scene] BY <1>2, <2>1 DEF CleanedUp
  <2>5. \A i \in DOMAIN list : i # cur => list[i].entities = Empty
        BY <1>2, <2>1 DEF OnlyCurrentHasEntities
  <2> HIDE DEF scene
  <2> QED BY <2>1, <2>3, <2>4, <2>5, ExceptSeq
<1> QED BY <1>1, <1>2

\* Entering a scene (SceneManager.cpp 53-140).
LEMMA SwitchInv == ASSUME IInv, ApplySceneSwitch PROVE IInv'
<1> USE DEF IInv
<1> DEFINE list   == IF ~m_SwitchingScenes /\ m_vpAllScenes = <<>> THEN <<Scene("NewScene")>>
                     ELSE m_vpAllScenes
           queued == IF m_SwitchingScenes THEN ValidIndex(m_QueuedSceneIndex, list) ELSE 0
           active == Activated(CleanedUp(list)[queued + 1])
<1>1. /\ m_QueuedSceneIndex' = queued /\ m_CurrentScene' = queued
      /\ list = <<>> => pc' = "crashed" /\ m_vpAllScenes' = list
      /\ list # <<>> => pc' = "update" /\ m_vpAllScenes' = [CleanedUp(list) EXCEPT ![queued + 1] = active]
      BY DEF ApplySceneSwitch
<1>2. list \in Seq(SceneType)
  <2>1. Scene("NewScene") \in SceneType BY SceneIsEmpty, FileNames, SceneManagerAssumption
  <2>2. <<Scene("NewScene")>> \in Seq(SceneType) BY <2>1
  <2> QED BY <2>2 DEF ScenesOK
<1>3. m_CurrentScene # None => list = m_vpAllScenes BY DEF ApplySceneSwitch
<1>4. m_CurrentScene = None => \A i \in DOMAIN list : list[i].entities = Empty
  <2>1. Scene("NewScene").entities = Empty BY SceneIsEmpty, FileNames, SceneManagerAssumption
  <2>2. \A i \in DOMAIN <<Scene("NewScene")>> : <<Scene("NewScene")>>[i].entities = Empty BY <2>1
  <2>3. m_CurrentScene = None => \A i \in DOMAIN m_vpAllScenes : m_vpAllScenes[i].entities = Empty
        BY SceneManagerAssumption DEF OnlyCurrentHasEntities, ScenesOK
  <2> QED BY <2>2, <2>3
<1>5. /\ CleanedUp(list) \in Seq(SceneType) /\ DOMAIN CleanedUp(list) = DOMAIN list
      /\ \A i \in DOMAIN list : CleanedUp(list)[i].entities = Empty
      BY <1>2, <1>3, <1>4, CleanedUpOK DEF ApplySceneSwitch
<1>6. list # <<>> => queued \in Nat /\ queued + 1 \in DOMAIN list
      BY <1>2 DEF ValidIndex
<1>7. FilesOK'
  <2>1. UNCHANGED <<m_SceneFilePaths, scenesDir, tempDir, project>> /\ m_SwitchingScenes' = FALSE
        BY DEF ApplySceneSwitch, files
  <2> QED BY <2>1 DEF FilesOK
<1>8. app' = app /\ m_EditorState' = m_EditorState BY DEF ApplySceneSwitch
<1> HIDE DEF list, queued, active
<1>9. CASE list = <<>>
  <2>1. m_vpAllScenes' = <<>> /\ pc' = "crashed" BY <1>1, <1>9
  <2>2. ScenesOK' /\ CurrentOK' BY <2>1, EmptySeq DEF ScenesOK, CurrentOK
  <2>3. GameOK' BY <1>8, <2>1 DEF GameOK
  <2>4. OnlyCurrentHasEntities' BY <2>1 DEF OnlyCurrentHasEntities
  <2> QED BY <1>7, <2>2, <2>3, <2>4
<1>10. CASE list # <<>>
  <2>1. queued \in Nat /\ queued + 1 \in DOMAIN list BY <1>6, <1>10
  <2>2. CleanedUp(list)[queued + 1] \in SceneType BY <1>5, <2>1
  <2>3. active \in SceneType /\ active.initialised = (m_EditorState = "Play")
        BY <2>2, ActivatedOK DEF active
  <2>4. m_vpAllScenes' = [CleanedUp(list) EXCEPT ![queued + 1] = active] /\ pc' = "update"
        BY <1>1, <1>10
  <2>5. /\ m_vpAllScenes' \in Seq(SceneType) /\ DOMAIN m_vpAllScenes' = DOMAIN list
        /\ m_vpAllScenes'[queued + 1] = active
        /\ \A i \in DOMAIN list : i # queued + 1 => m_vpAllScenes'[i].entities = Empty
        BY <1>5, <2>1, <2>3, <2>4, ExceptSeq
  <2>6. ScenesOK' /\ CurrentOK'
        BY <1>1, <2>1, <2>4, <2>5, SceneManagerAssumption DEF ScenesOK, CurrentOK
  <2>7. GameOK'
    <3>1. app = "Game" => active.initialised BY <2>3 DEF GameOK
    <3>2. Current' = active BY <1>1, <2>5 DEF Current
    <3> QED BY <1>8, <3>1, <3>2 DEF GameOK
  <2>8. OnlyCurrentHasEntities' BY <1>1, <1>5, <2>1, <2>5 DEF OnlyCurrentHasEntities
  <2> QED BY <1>7, <2>6, <2>7, <2>8
<1> QED BY <1>9, <1>10

\* A scene that is given another name.
LEMMA Renamed ==
    ASSUME NEW scene \in SceneType, NEW name \in SceneName
    PROVE  [scene EXCEPT !.name = name] \in SceneType
BY DEF SceneType

\* What the play controls and the file commands do to a scene.
LEMMA WithName ==
    ASSUME NEW scene \in SceneType
    PROVE  /\ Saved(scene) \in SceneType
           /\ Saved(scene).entities = scene.entities
           /\ Saved(scene).initialised = scene.initialised
<1> DEFINE name == RemoveSpaces(scene.name)
<1>1. name \in SceneName BY FileNames DEF SceneType
<1>2. Saved(scene) = [scene EXCEPT !.name = name] BY DEF Saved
<1> HIDE DEF name
<1> QED BY <1>1, <1>2 DEF SceneType

LEMMA LoadedOK ==
    ASSUME FilesOK, NEW scene \in SceneType
    PROVE  LoadCachedScene(scene) \in SceneType
BY DeserialiseOK DEF FilesOK, LoadCachedScene

LEMMA CurrentOfFrame ==
    ASSUME IInv, pc \in {"update", "gui", "keys", "events"}
    PROVE  Current \in SceneType
<1>1. m_CurrentScene \in Nat /\ m_CurrentScene + 1 \in DOMAIN m_vpAllScenes
      BY DEF IInv, CurrentOK
<1> QED BY <1>1 DEF Current, IInv, ScenesOK

LEMMA StoredOK ==
    ASSUME NEW dir \in [FileName -> Storable \cup {None}], Current \in SceneType
    PROVE  Stored(dir) \in [FileName -> Storable \cup {None}]
<1> DEFINE name == RemoveSpaces(Current.name)
<1>1. name \in FileName BY FileNames DEF SceneType
<1>2. Serialised[Current.entities] \in Storable BY StorableOK DEF SceneType
<1>3. Stored(dir) = [dir EXCEPT ![name] = Serialised[Current.entities]] BY DEF Stored
<1> HIDE DEF name
<1> QED BY <1>1, <1>2, <1>3

\* One item of the editor's gui (Editor.cpp 514-640, 1691-1728).
LEMMA ClickInv == ASSUME IInv, Click PROVE IInv'
<1> DEFINE Kept == UNCHANGED <<m_SceneFilePaths, files>>
<1>1. pc = "gui" /\ pc' = "keys" /\ app = "Editor"
      BY DEF Click, Gui, NoClick, Edit, Rename, NewScene, SelectScene, SaveScene, OpenScene, Play, Stop,
             Pause, StepForward
<1>2. Current \in SceneType BY <1>1, CurrentOfFrame
<1>3. m_CurrentScene # None BY <1>1 DEF IInv, CurrentOK
<1>4. m_SwitchingScenes \in BOOLEAN BY DEF IInv, FilesOK
<1>5. \A i : SwitchTo(i) => m_SwitchingScenes' \in BOOLEAN BY Zenon DEF SwitchTo
<1>6. \A name : SwitchToName(name) => m_SwitchingScenes' \in BOOLEAN BY Zenon DEF SwitchToName
<1>7. ASSUME Kept, m_SwitchingScenes' \in BOOLEAN PROVE FilesOK'
      BY <1>7 DEF IInv, FilesOK, files
<1>8. ASSUME FilesOK', UNCHANGED <<scenes, m_CurrentScene, app>> PROVE IInv'
      BY <1>1, <1>3, <1>8, QuietInv DEF scenes
<1>9. ASSUME FilesOK', UNCHANGED <<m_CurrentScene, app>>,
             NEW scene \in SceneType, SetCurrent(scene)
      PROVE  IInv'
      BY <1>1, <1>9, CurrentInv
<1>10. CASE NoClick
  <2>1. FilesOK' BY <1>4, <1>7, <1>10 DEF NoClick, scenes, request
  <2> QED BY <1>8, <1>10, <2>1 DEF NoClick
<1>11. CASE Edit
  <2>1. PICK e \in Entities : SetCurrent([Current EXCEPT !.entities = e]) BY <1>11 DEF Edit
  <2>2. FilesOK' BY <1>4, <1>7, <1>11 DEF Edit, request
  <2> DEFINE scene == [Current EXCEPT !.entities = e]
  <2>3. scene \in SceneType BY <1>2, WithEntities
  <2> HIDE DEF scene
  <2>4. SetCurrent(scene) BY <2>1 DEF scene
  <2> QED BY <1>9, <1>11, <2>2, <2>3, <2>4 DEF Edit
<1>20. CASE Rename
  <2>1. PICK name \in SceneName : SetCurrent([Current EXCEPT !.name = name]) BY <1>20 DEF Rename
  <2>2. FilesOK' BY <1>4, <1>7, <1>20 DEF Rename, request
  <2> DEFINE scene == [Current EXCEPT !.name = name]
  <2>3. scene \in SceneType BY <1>2, Renamed
  <2> HIDE DEF scene
  <2>4. SetCurrent(scene) BY <2>1 DEF scene
  <2> QED BY <1>9, <1>20, <2>2, <2>3, <2>4 DEF Rename
<1>12. CASE NewScene
  <2>1. FilesOK' BY <1>5, <1>7, <1>12 DEF NewScene
  <2>2. EnqueueScene("New Scene") BY <1>12 DEF NewScene
  <2>3. "New Scene" \in SceneName BY Zenon DEF SceneName
  <2>4. UNCHANGED <<m_CurrentScene, app>> BY <1>12 DEF NewScene
  <2>5. PICK name \in SceneName : EnqueueScene(name) BY <2>2, <2>3, Zenon
  <2> QED BY <1>1, <2>1, <2>4, <2>5, EnqueueInv
<1>13. ASSUME NEW file \in FileName, OpenScene(file) PROVE IInv'
  <2>1. m_SceneFilePaths' \in Seq(FileName)
        BY <1>13, AppendProperties DEF OpenScene, IInv, FilesOK
  <2>2. m_SwitchingScenes' \in BOOLEAN BY <1>5, <1>13 DEF OpenScene
  <2>3. UNCHANGED files BY <1>13 DEF OpenScene
  <2>4. FilesOK' BY <2>1, <2>2, <2>3 DEF IInv, FilesOK, files, IsProject
  <2>5. file \in SceneName BY FileNames
  <2> QED BY <1>1, <1>13, <2>4, <2>5, EnqueueInv DEF OpenScene
<1>14. CASE SelectScene
  <2>1. FilesOK' BY <1>6, <1>7, <1>14 DEF SelectScene, scenes
  <2> QED BY <1>8, <1>14, <2>1 DEF SelectScene
<1>15. CASE SaveScene
  <2>1. scenesDir' \in [FileName -> Storable \cup {None}]
        BY <1>2, <1>15, StoredOK DEF SaveScene, IInv, FilesOK
  <2>2. FilesOK' BY <1>4, <1>15, <2>1 DEF SaveScene, request, IInv, FilesOK, IsProject
  <2> QED BY <1>2, <1>9, <1>15, <2>2, WithName DEF SaveScene
<1>16. CASE Play
  <2>1. tempDir' \in [FileName -> Storable \cup {None}]
        BY <1>2, <1>16, StoredOK DEF Play, IInv, FilesOK
  <2>2. FilesOK' BY <1>4, <1>16, <2>1 DEF Play, request, IInv, FilesOK, IsProject
  <2> DEFINE scene == [Saved(Current) EXCEPT !.initialised = TRUE]
  <2>3. scene \in SceneType BY <1>2, WithName, WithInitialised
  <2> HIDE DEF scene
  <2>4. SetCurrent(scene) BY <1>16 DEF Play, scene
  <2> QED BY <1>9, <1>16, <2>2, <2>3, <2>4 DEF Play
<1>17. CASE Stop
  <2>1. FilesOK' BY <1>4, <1>7, <1>17 DEF Stop, request
  <2>2. LoadCachedScene(Current) \in SceneType BY <1>2, LoadedOK DEF IInv
  <2> QED BY <1>9, <1>17, <2>1, <2>2 DEF Stop
<1>18. CASE Pause
  <2>1. FilesOK' BY <1>4, <1>7, <1>18 DEF Pause, scenes, request
  <2> QED BY <1>8, <1>18, <2>1 DEF Pause
<1>19. CASE StepForward
  <2>1. FilesOK' BY <1>4, <1>7, <1>19 DEF StepForward, scenes, request
  <2> QED BY <1>8, <1>19, <2>1 DEF StepForward
<1> QED BY <1>10, <1>11, <1>12, <1>13, <1>14, <1>15, <1>16, <1>17, <1>18, <1>19,
           <1>20 DEF Click

LEMMA StepInv == IInv /\ [Next]_vars => IInv'
<1> SUFFICES ASSUME IInv, [Next]_vars PROVE IInv' OBVIOUS
<1> DEFINE Kept == UNCHANGED <<m_SceneFilePaths, files>>
<1>1. ASSUME Kept, m_SwitchingScenes' \in BOOLEAN PROVE FilesOK'
      BY <1>1 DEF IInv, FilesOK, files
<1>2. m_SwitchingScenes \in BOOLEAN BY DEF IInv, FilesOK
<1>3. \A i : SwitchTo(i) => m_SwitchingScenes' \in BOOLEAN BY Zenon DEF SwitchTo
<1>4. \A name : SwitchToName(name) => m_SwitchingScenes' \in BOOLEAN BY Zenon DEF SwitchToName
<1>10. ASSUME NEW type \in {"Game", "Editor"}, Launch(type) PROVE IInv'
       BY <1>10, LaunchInv
<1>11. CASE ApplySceneSwitch BY <1>11, SwitchInv
<1>12. CASE KeepScene
  <2>1. FilesOK' BY <1>1, <1>2, <1>12 DEF KeepScene, scenes, request
  <2> QED BY <1>12, <2>1, QuietInv DEF KeepScene, scenes
<1>13. CASE OnUpdate
  <2>1. PICK e \in Entities : SetCurrent([Current EXCEPT !.entities = e]) BY <1>13 DEF OnUpdate
  <2>2. Current \in SceneType BY <1>13, CurrentOfFrame DEF OnUpdate
  <2>3. app = "Game" => Current.initialised
        BY <1>13 DEF OnUpdate, IInv, GameOK, CurrentOK
  <2>4. m_SwitchingScenes' \in BOOLEAN
        BY <1>2, <1>3, <1>4, <1>13 DEF OnUpdate, request, SwitchNext
  <2>5. FilesOK' BY <1>1, <1>13, <2>4 DEF OnUpdate
  <2> DEFINE scene == [Current EXCEPT !.entities = e]
  <2>6. scene \in SceneType /\ scene.initialised = Current.initialised BY <2>2, WithEntities
  <2> HIDE DEF scene
  <2>7. SetCurrent(scene) BY <2>1 DEF scene
  <2> QED BY <1>13, <2>3, <2>5, <2>6, <2>7, CurrentInv DEF OnUpdate
<1>14. CASE SkipUpdate
  <2>1. FilesOK' BY <1>1, <1>2, <1>14 DEF SkipUpdate, scenes, request
  <2> QED BY <1>14, <2>1, QuietInv DEF SkipUpdate, scenes, IInv, CurrentOK
<1>15. CASE NextFrame
  <2>1. FilesOK' BY <1>1, <1>2, <1>15 DEF NextFrame, scenes, request
  <2> QED BY <1>15, <2>1, QuietInv DEF NextFrame, scenes
<1>16. CASE Click BY <1>16, ClickInv
<1>17. CASE Reload
  <2>1. FilesOK' BY <1>1, <1>2, <1>17 DEF Reload, request
  <2>2. Current \in SceneType BY <1>17, CurrentOfFrame DEF Reload
  <2> DEFINE scene == Deserialise(Current, scenesDir)
  <2>3. scene \in SceneType /\ scene.initialised = Current.initialised
        BY <2>2, DeserialiseOK DEF IInv, FilesOK
  <2>4. app = "Game" => Current.initialised BY <1>17 DEF Reload, IInv, GameOK, CurrentOK
  <2> HIDE DEF scene
  <2>5. SetCurrent(scene) BY <1>17 DEF Reload, scene
  <2> QED BY <1>17, <2>1, <2>3, <2>4, <2>5, CurrentInv DEF Reload
<1>18. CASE NoKey
  <2>1. FilesOK' BY <1>1, <1>2, <1>18 DEF NoKey, scenes, request
  <2> QED BY <1>18, <2>1, QuietInv DEF NoKey, scenes, IInv, CurrentOK
<1>22. CASE SaveKey
  <2>1. pc = "keys" /\ pc' = "keys" /\ SetCurrent(Saved(Current)) /\ scenesDir' = Stored(scenesDir)
        /\ UNCHANGED <<m_SceneFilePaths, m_CurrentScene, request, m_EditorState, app, tempDir, project>>
        BY <1>22 DEF SaveKey
  <2>2. Current \in SceneType BY <2>1, CurrentOfFrame
  <2>3. scenesDir' \in [FileName -> Storable \cup {None}]
        BY <2>1, <2>2, StoredOK DEF IInv, FilesOK
  <2>4. FilesOK' BY <1>2, <2>1, <2>3 DEF request, IInv, FilesOK, IsProject
  <2>5. Saved(Current) \in SceneType /\ Saved(Current).initialised = Current.initialised
        BY <2>2, WithName
  <2>6. app = "Game" => Current.initialised BY <2>1 DEF IInv, GameOK, CurrentOK
  <2> QED BY <2>1, <2>4, <2>5, <2>6, CurrentInv
<1>19. CASE Quit
  <2>1. SavedProject.Scenes = m_SceneFilePaths /\ SavedProject.SceneIndex = m_CurrentScene
        BY DEF SavedProject
  <2>2. project' = SavedProject /\ m_SwitchingScenes' = FALSE /\ m_SceneFilePaths' = <<>>
        BY <1>19 DEF Quit, Gone
  <2>3. UNCHANGED <<scenesDir, tempDir>> BY <1>19 DEF Quit
  <2>4. IsProject(project)' BY <1>19, <2>1, <2>2 DEF IsProject, IInv, FilesOK, CurrentOK, Quit
  <2>5. FilesOK' BY <2>2, <2>3, <2>4, EmptySeq DEF IInv, FilesOK
  <2> QED BY <1>19, <2>5, GoneInv DEF Quit
<1>20. CASE Kill
  <2>1. FilesOK' BY <1>20, EmptySeq DEF Kill, Gone, files, IInv, FilesOK, IsProject
  <2> QED BY <1>20, <2>1, GoneInv DEF Kill
<1>21. CASE UNCHANGED vars
  BY <1>21 DEF vars, scenes, request, files, IInv, FilesOK, ScenesOK, CurrentOK, GameOK, Current,
               OnlyCurrentHasEntities, IsProject
<1> QED BY <1>10, <1>11, <1>12, <1>13, <1>14, <1>15, <1>16, <1>17, <1>18, <1>19, <1>20, <1>21,
           <1>22 DEF Next

\* One scene at a time holds entities: a scene that is not current was cleaned
\* up when it was left, or never entered (SceneManager.cpp 96-103, Scene.h 44-47).
THEOREM OneSceneHasEntities == Spec => []OnlyCurrentHasEntities
<1>1. IInv => OnlyCurrentHasEntities BY DEF IInv
<1> QED BY InitInv, StepInv, <1>1, PTL DEF Spec

\* A game updates a scene only once OnInit was called for it (Scene.h 40-42,
\* SceneManager.cpp 118-119).
THEOREM GameScenesAreInitialised == Spec => []GameInitialises
<1>1. IInv => GameInitialises BY DEF IInv, GameOK, CurrentOK, GameInitialises
<1> QED BY InitInv, StepInv, <1>1, PTL DEF Spec
-----------------------------------------------------------------------------
(* Types. *)

StateOK == /\ m_QueuedSceneIndex \in Int
           /\ m_EditorState \in {"Paused", "Play", "Next", "Preview"}
           /\ pc \in {"off", "switch", "update", "gui", "keys", "events", "crashed"}
           /\ played \in [name : SceneName, entities : Entities] \cup {None}
           /\ closedOn \in SceneName \cup {None}

\* The index of the first scene of a name is a number (SceneManager.cpp 47-70).
LEMMA FoundIndex ==
    ASSUME ScenesOK, m_QueuedSceneIndex \in Int, NEW name, SwitchToName(name)
    PROVE  m_QueuedSceneIndex' \in Int
<1> DEFINE found == {i \in DOMAIN m_vpAllScenes : m_vpAllScenes[i].name = name}
           first == CHOOSE i \in found : \A j \in found : i <= j
<1>1. CASE found = {} BY <1>1 DEF SwitchToName
<1>2. CASE found # {}
  <2> DEFINE R == OpToRel(<, Nat)
  <2>1. found \subseteq Nat BY LenProperties DEF ScenesOK
  <2>2. R = {pair \in Nat \X Nat : pair[1] < pair[2]} BY DEF OpToRel
  <2>3. IsWellFoundedOn(R, Nat) BY NatLessThanWellFounded
  <2>4. m_QueuedSceneIndex' = first - 1 BY <1>2 DEF SwitchToName
  <2> HIDE DEF R, found
  <2>5. PICK i \in found : \A j \in found : <<j, i>> \notin R BY <1>2, <2>1, <2>3, WFMin
  <2>6. ASSUME NEW j \in found PROVE i <= j
    <3>1. i \in Nat /\ j \in Nat /\ <<j, i>> \in Nat \X Nat BY <2>1
    <3>2. j < i => <<j, i>> \in R BY <2>2, <3>1
    <3> QED BY <2>5, <3>1, <3>2
  <2>7. first \in found BY <2>6
  <2> QED BY <2>1, <2>4, <2>7
<1> QED BY <1>1, <1>2

LEMMA StateStep == ASSUME IInv, StateOK, [Next]_vars PROVE StateOK'
<1> USE SceneManagerAssumption
<1> DEFINE Same == UNCHANGED <<m_QueuedSceneIndex, m_EditorState, played, closedOn>>
<1>1. ASSUME Same, pc' \in {"off", "switch", "update", "gui", "keys", "events", "crashed"}
      PROVE  StateOK'
      BY <1>1 DEF StateOK
<1>2. \A i : SwitchTo(i) => m_QueuedSceneIndex' = i BY DEF SwitchTo
<1>3. \A name : SwitchToName(name) => m_QueuedSceneIndex' \in Int
      BY FoundIndex DEF IInv, StateOK
<1>4. Shown \in {"Paused", "Play", "Next", "Preview"} BY DEF Shown, StateOK
<1>5. ASSUME NEW type \in {"Game", "Editor"}, Launch(type) PROVE StateOK'
  <2>1. m_QueuedSceneIndex' = (IF project = None THEN -1 ELSE project.SceneIndex)
        BY <1>5 DEF Launch
  <2>2. m_QueuedSceneIndex' \in Int BY <2>1 DEF IInv, FilesOK, IsProject
  <2>3. m_EditorState' \in {"Paused", "Play", "Next", "Preview"} /\ pc' = "switch"
        /\ played' = None /\ closedOn' = closedOn
        BY <1>5 DEF Launch
  <2> QED BY <2>2, <2>3 DEF StateOK
<1>6. CASE ApplySceneSwitch
  <2> DEFINE list == IF ~m_SwitchingScenes /\ m_vpAllScenes = <<>> THEN <<Scene("NewScene")>>
                     ELSE m_vpAllScenes
  <2>1. m_QueuedSceneIndex' = (IF m_SwitchingScenes THEN ValidIndex(m_QueuedSceneIndex, list) ELSE 0)
        BY <1>6 DEF ApplySceneSwitch
  <2>2. m_QueuedSceneIndex' \in Int BY <2>1 DEF ValidIndex, StateOK
  <2>3. pc' \in {"crashed", "update"} /\ played' = None
        /\ UNCHANGED <<m_EditorState, closedOn>>
        BY <1>6 DEF ApplySceneSwitch
  <2> QED BY <2>2, <2>3 DEF StateOK
<1>7. CASE KeepScene BY <1>1, <1>7 DEF KeepScene, request, history
<1>8. CASE OnUpdate
  <2>1. m_CurrentScene \in Nat /\ m_CurrentScene + 1 \in DOMAIN m_vpAllScenes
        BY <1>8 DEF OnUpdate, IInv, CurrentOK
  <2>2. (m_CurrentScene + 1) % Len(m_vpAllScenes) \in Int
    <3>1. Len(m_vpAllScenes) \in Nat \ {0} BY <2>1, LenProperties DEF IInv, ScenesOK
    <3> QED BY <2>1, <3>1
  <2>3. m_QueuedSceneIndex' \in Int
        BY <1>2, <1>3, <1>8, <2>2 DEF OnUpdate, request, SwitchNext, StateOK
  <2>4. pc' = "gui" /\ UNCHANGED <<m_EditorState, played, closedOn>> BY <1>8 DEF OnUpdate, history
  <2> QED BY <2>3, <2>4 DEF StateOK
<1>9. CASE SkipUpdate BY <1>1, <1>9 DEF SkipUpdate, request, history
<1>10. CASE NextFrame BY <1>1, <1>10 DEF NextFrame, request, history
<1>11. CASE Click
  <2>1. pc' = "keys" /\ pc = "gui"
        BY <1>11 DEF Click, Gui, NoClick, Edit, Rename, NewScene, SelectScene, SaveScene, OpenScene, Play, Stop,
               Pause, StepForward
  <2>2. closedOn' = closedOn
        BY <1>11 DEF Click, history, NoClick, Edit, Rename, NewScene, SelectScene, SaveScene, OpenScene, Play,
               Stop, Pause, StepForward
  <2>3. m_EditorState' \in {"Paused", "Play", "Next", "Preview"}
        BY <1>4, <1>11 DEF Click, NoClick, Edit, Rename, NewScene, SelectScene, SaveScene, OpenScene, Play,
               Stop, Pause, StepForward
  <2>4. m_QueuedSceneIndex' \in Int
    <3>1. Len(m_vpAllScenes) \in Int BY LenProperties DEF IInv, ScenesOK
    <3> QED BY <1>2, <1>3, <1>11, <3>1 DEF Click, request, NoClick, Edit, Rename, NewScene, SelectScene, SaveScene,
               OpenScene, Play, Stop, Pause, StepForward, StateOK
  <2>5. played' \in [name : SceneName, entities : Entities] \cup {None}
    <3>1. Current \in SceneType /\ Saved(Current) \in SceneType BY <2>1, CurrentOfFrame, WithName
    <3>2. Current.entities \in Entities /\ Saved(Current).name \in SceneName BY <3>1 DEF SceneType
    <3>3. [name |-> Saved(Current).name, entities |-> Current.entities]
            \in [name : SceneName, entities : Entities]
          BY <3>2
    <3> QED BY <1>11, <3>3 DEF Click, history, NoClick, Edit, Rename, NewScene, SelectScene, SaveScene,
               OpenScene, Play, Stop, Pause, StepForward, StateOK
  <2> QED BY <2>1, <2>2, <2>3, <2>4, <2>5 DEF StateOK
<1>12. CASE Reload BY <1>1, <1>12 DEF Reload, request, history
<1>13. CASE NoKey BY <1>1, <1>13 DEF NoKey, request, history
<1>14. CASE Quit
  <2>1. Current.name \in SceneName BY <1>14, CurrentOfFrame DEF Quit, SceneType
  <2> QED BY <1>14, <2>1 DEF Quit, Gone, StateOK
<1>15. CASE Kill BY <1>15 DEF Kill, Gone, StateOK
<1>16. CASE UNCHANGED vars BY <1>16 DEF vars, request, history, StateOK
<1>17. CASE SaveKey BY <1>1, <1>17 DEF SaveKey, request, history
<1> QED BY <1>5, <1>6, <1>7, <1>8, <1>9, <1>10, <1>11, <1>12, <1>13, <1>14, <1>15, <1>16,
           <1>17 DEF Next

\* The variables of the scene manager keep their types: in every frame the
\* current index is that of a scene, whatever index was asked for
\* (SceneManager.cpp 85-91).
THEOREM TypeCorrect == Spec => []TypeOK
<1>1. Init => StateOK BY SceneManagerAssumption DEF Init, StateOK
<1>2. IInv /\ StateOK => TypeOK
  <2> SUFFICES ASSUME IInv, StateOK PROVE TypeOK OBVIOUS
  <2>1. pc # "crashed" => m_CurrentScene \in {None} \cup (0 .. Len(m_vpAllScenes) - 1)
        BY LenProperties DEF IInv, CurrentOK, ScenesOK
  <2> QED BY <2>1 DEF IInv, StateOK, FilesOK, ScenesOK, GameOK, TypeOK
<1> QED BY InitInv, StepInv, StateStep, <1>1, <1>2, PTL DEF Spec
-----------------------------------------------------------------------------
(* Stop. *)

\* While something is played, the cache holds it under the name it was played
\* under, whatever the scene is called since.
PlayedOK == played # None =>
    played.name \in FileName /\ tempDir[played.name] = Serialised[played.entities]

\* A file's name has no spaces to remove.
LEMMA FileNameKept == ASSUME NEW name \in FileName PROVE RemoveSpaces(name) = name
BY NoSpaces DEF RemoveSpaces

\* A frame's current scene is the one that was set.
LEMMA CurrentSet ==
    ASSUME IInv, pc \in {"update", "gui", "keys", "events"},
           NEW scene, SetCurrent(scene), m_CurrentScene' = m_CurrentScene
    PROVE  Current' = scene
<1>1. m_CurrentScene \in Nat /\ m_CurrentScene + 1 \in DOMAIN m_vpAllScenes
      BY DEF IInv, CurrentOK
<1>2. m_vpAllScenes' = [m_vpAllScenes EXCEPT ![m_CurrentScene + 1] = scene] BY DEF SetCurrent
<1> QED BY <1>1, <1>2 DEF Current, IInv, ScenesOK

LEMMA PlayedStep == ASSUME IInv, PlayedOK, [Next]_vars PROVE PlayedOK'
<1>1. ASSUME played' = None PROVE PlayedOK' BY <1>1 DEF PlayedOK
<1>2. ASSUME UNCHANGED <<played, tempDir>> PROVE PlayedOK' BY <1>2 DEF PlayedOK
<1>3. ASSUME NEW type \in {"Game", "Editor"}, Launch(type) PROVE PlayedOK' BY <1>1, <1>3 DEF Launch
<1>4. CASE ApplySceneSwitch BY <1>1, <1>4 DEF ApplySceneSwitch
<1>5. CASE KeepScene \/ OnUpdate \/ SkipUpdate \/ NextFrame
      BY <1>2, <1>5 DEF KeepScene, OnUpdate, SkipUpdate, NextFrame, files, history
<1>6. CASE Click
  <2>1. CASE Play
    <3> DEFINE name == RemoveSpaces(Current.name)
    <3>1. pc = "gui" /\ tempDir' = Stored(tempDir)
          /\ played' = IF Shown = "Preview"
                       THEN [name |-> Saved(Current).name, entities |-> Current.entities] ELSE None
          BY <2>1 DEF Play, Gui
    <3>2. Current \in SceneType BY <3>1, CurrentOfFrame
    <3>3. name \in FileName BY <3>2, FileNames DEF SceneType
    <3>4. Saved(Current).name = name BY <3>2 DEF Saved, SceneType
    <3>5. tempDir' = [tempDir EXCEPT ![name] = Serialised[Current.entities]] BY <3>1 DEF Stored
    <3> HIDE DEF name
    <3>6. tempDir'[name] = Serialised[Current.entities] BY <3>3, <3>5 DEF IInv, FilesOK
    <3> QED BY <3>1, <3>3, <3>4, <3>6 DEF PlayedOK
  <2>2. CASE Stop BY <1>1, <2>2 DEF Stop
  <2>3. CASE NoClick \/ Edit \/ Rename \/ SelectScene \/ SaveScene \/ Pause \/ StepForward
        BY <1>2, <2>3 DEF NoClick, Edit, Rename, SelectScene, SaveScene, Pause, StepForward,
                          files, history
  <2>4. CASE NewScene \/ (\E file \in FileName : OpenScene(file))
        BY <1>2, <2>4 DEF NewScene, OpenScene, files, history
  <2> QED BY <1>6, <2>1, <2>2, <2>3, <2>4 DEF Click
<1>7. CASE SaveKey \/ Reload \/ NoKey BY <1>2, <1>7 DEF SaveKey, Reload, NoKey, files, history
<1>8. CASE Quit \/ Kill BY <1>1, <1>8 DEF Quit, Kill, Gone
<1>9. CASE UNCHANGED vars BY <1>2, <1>9 DEF vars, files, history
<1> QED BY <1>3, <1>4, <1>5, <1>6, <1>7, <1>8, <1>9 DEF Next

\* Only Stop leads from Play to Preview within a frame's gui.
LEMMA OnlyStopPreviews ==
    ASSUME [Next]_vars, pc = "gui", m_EditorState = "Play", m_EditorState' = "Preview"
    PROVE  Stop
<1>1. Shown = "Play" BY DEF Shown
<1>2. ~(\E type \in {"Game", "Editor"} : Launch(type)) BY DEF Launch
<1>3. ~ApplySceneSwitch /\ ~KeepScene /\ ~OnUpdate /\ ~SkipUpdate /\ ~NextFrame /\ ~Reload
      /\ ~SaveKey
      BY DEF ApplySceneSwitch, KeepScene, OnUpdate, SkipUpdate, NextFrame, Reload, SaveKey
<1>4. ~NoKey /\ ~Quit /\ ~Kill /\ ~UNCHANGED vars BY DEF NoKey, Quit, Kill, Gone, vars
<1>5. ~NoClick /\ ~Edit /\ ~Rename /\ ~NewScene /\ ~SelectScene /\ ~SaveScene /\ ~Play /\ ~Pause /\ ~StepForward
      BY <1>1 DEF NoClick, Edit, Rename, NewScene, SelectScene, SaveScene, Play, Pause, StepForward
<1>6. ~(\E file \in FileName : OpenScene(file)) BY <1>1 DEF OpenScene
<1> QED BY <1>2, <1>3, <1>4, <1>5, <1>6 DEF Next, Click

\* Stop brings back what a file keeps of what Play was pressed on: CacheScene and
\* LoadCachedScene agree on the file as long as the scene has the name it was played
\* under, whatever it was called before, in between, and however often it was saved
\* or reloaded (Editor.cpp 542-556, 1691-1714).
THEOREM StopBringsBack == Spec => StopRestores
<1>1. Init => PlayedOK BY DEF Init, PlayedOK
<1>2. ASSUME IInv, StateOK, PlayedOK, [Next]_vars
      PROVE  pc = "gui" /\ m_EditorState = "Play" /\ m_EditorState' = "Preview"
                => (played # None /\ Current.name = played.name
                      => Current'.entities = Serialised[played.entities])
  <2> SUFFICES ASSUME pc = "gui", m_EditorState = "Play", m_EditorState' = "Preview",
                      played # None, Current.name = played.name
               PROVE  Current'.entities = Serialised[played.entities]
      OBVIOUS
  <2>1. Stop BY OnlyStopPreviews, <1>2
  <2>2. /\ Current.name \in FileName
        /\ tempDir[Current.name] = Serialised[played.entities]
        BY <1>2 DEF PlayedOK
  <2>3. RemoveSpaces(Current.name) = Current.name BY <2>2, FileNameKept
  <2>4. Contains(tempDir, Current.name)
    <3>1. Serialised[played.entities] # None
      <4>1. played.entities \in Entities BY <1>2 DEF StateOK
      <4> QED BY <4>1, SceneManagerAssumption
    <3> QED BY <2>2, <3>1 DEF Contains
  <2>5. LoadCachedScene(Current) = Deserialise(Current, tempDir) BY <2>4 DEF LoadCachedScene
  <2>6. Deserialise(Current, tempDir).entities = Serialised[played.entities]
        BY <2>2, <2>3, <2>4 DEF Deserialise
  <2>7. SetCurrent(LoadCachedScene(Current)) /\ m_CurrentScene' = m_CurrentScene BY <2>1 DEF Stop
  <2>8. Current' = LoadCachedScene(Current) BY <1>2, <2>7, CurrentSet
  <2> QED BY <2>5, <2>6, <2>8
<1>3. Init => StateOK BY SceneManagerAssumption DEF Init, StateOK
<1> QED BY InitInv, StepInv, StateStep, PlayedStep, <1>1, <1>2, <1>3, PTL DEF Spec, StopRestores
-----------------------------------------------------------------------------
(* The next launch. *)

Running == pc \notin {"off", "crashed"}

\* The scenes are those of the files, in their order.
Listed == /\ DOMAIN m_vpAllScenes = DOMAIN m_SceneFilePaths
          /\ \A i \in DOMAIN m_vpAllScenes : m_vpAllScenes[i].name = m_SceneFilePaths[i]

\* A game adds no scene, but for the one it makes when it has no file.
GameListed == Running /\ (app = "Game" \/ m_CurrentScene = None) => m_SceneFilePaths = <<>> \/ Listed

\* What a launch read is asked for until the first frame enters it.
Asked == Running /\ m_CurrentScene = None /\ project # None =>
            /\ m_SceneFilePaths = project.Scenes /\ Listed
            /\ m_SwitchingScenes /\ m_QueuedSceneIndex = project.SceneIndex

\* The project names the scene the game was closed on, unless it has no files.
ClosedOK == closedOn # None =>
    /\ project # None
    /\ \/ project.Scenes = <<>>
       \/ /\ project.SceneIndex \in Nat /\ project.SceneIndex + 1 \in DOMAIN project.Scenes
          /\ project.Scenes[project.SceneIndex + 1] = closedOn

ReopenInv == GameListed /\ Asked /\ ClosedOK

\* The steps that change the current scene's contents only.
LEMMA ListedKept ==
    ASSUME IInv, Listed, pc \in {"update", "gui", "keys"},
           NEW scene, SetCurrent(scene), scene.name = Current.name,
           UNCHANGED m_SceneFilePaths
    PROVE  Listed'
<1>1. m_CurrentScene \in Nat /\ m_CurrentScene + 1 \in DOMAIN m_vpAllScenes
      BY DEF IInv, CurrentOK
<1>2. m_vpAllScenes' = [m_vpAllScenes EXCEPT ![m_CurrentScene + 1] = scene] BY DEF SetCurrent
<1>3. DOMAIN m_vpAllScenes' = DOMAIN m_vpAllScenes BY <1>2
<1>4. \A i \in DOMAIN m_vpAllScenes : m_vpAllScenes'[i].name = m_vpAllScenes[i].name
      BY <1>1, <1>2 DEF Current
<1> QED BY <1>3, <1>4 DEF Listed

\* Entering a scene keeps the names: those of files have no spaces to remove.
LEMMA ListedSwitch ==
    ASSUME IInv, ApplySceneSwitch, Listed, m_vpAllScenes # <<>>
    PROVE  /\ pc' = "update" /\ Listed'
           /\ m_CurrentScene' =
                IF m_SwitchingScenes THEN ValidIndex(m_QueuedSceneIndex, m_vpAllScenes) ELSE 0
           /\ m_CurrentScene' \in Nat /\ m_CurrentScene' + 1 \in DOMAIN m_vpAllScenes
<1> USE DEF IInv
<1> DEFINE list == m_vpAllScenes
           queued == IF m_SwitchingScenes THEN ValidIndex(m_QueuedSceneIndex, list) ELSE 0
           clean == CleanedUp(list)
           active == Activated(clean[queued + 1])
<1>1. /\ m_CurrentScene' = queued /\ pc' = "update" /\ m_SceneFilePaths' = m_SceneFilePaths
      /\ m_vpAllScenes' = [clean EXCEPT ![queued + 1] = active]
      BY DEF ApplySceneSwitch
<1>2. list \in Seq(SceneType) /\ DOMAIN list = 1 .. Len(list) /\ Len(list) \in Nat \ {0}
      BY LenProperties, EmptySeq DEF ScenesOK
<1>3. queued \in Nat /\ queued + 1 \in DOMAIN list BY <1>2 DEF ValidIndex
<1>4. /\ clean \in Seq(SceneType) /\ DOMAIN clean = DOMAIN list
      /\ \A i \in DOMAIN list : clean[i].name = list[i].name
  <2>1. CASE m_CurrentScene = None BY <1>2, <2>1 DEF CleanedUp
  <2>2. CASE m_CurrentScene # None
    <3> DEFINE cur == m_CurrentScene + 1
               scene == [list[cur] EXCEPT !.entities = Empty]
    <3>1. m_CurrentScene \in Nat /\ cur \in DOMAIN list BY <2>2 DEF CurrentOK, ApplySceneSwitch
    <3>2. list[cur] \in SceneType BY <1>2, <3>1
    <3>3. scene \in SceneType BY <3>2, WithEntities, SceneManagerAssumption
    <3>4. scene.name = list[cur].name BY <3>2 DEF SceneType
    <3>5. clean = [list EXCEPT ![cur] = scene] BY <2>2, <3>1 DEF CleanedUp
    <3> HIDE DEF scene, clean, list
    <3> QED BY <1>2, <3>1, <3>3, <3>4, <3>5, ExceptSeq
  <2> QED BY <2>1, <2>2
<1>5. clean[queued + 1] \in SceneType BY <1>3, <1>4
<1>6. clean[queued + 1].name = list[queued + 1].name BY <1>3, <1>4
<1>7. list[queued + 1].name \in FileName
  <2>1. list[queued + 1].name = m_SceneFilePaths[queued + 1] /\ queued + 1 \in DOMAIN m_SceneFilePaths
        BY <1>3 DEF Listed
  <2> QED BY <2>1 DEF FilesOK
<1> HIDE DEF clean, queued
<1>8. active.name = list[queued + 1].name
  <2> DEFINE scene == clean[queued + 1]
             base == IF Contains(scenesDir, scene.name) THEN Deserialise(scene, scenesDir) ELSE scene
  <2>1. RemoveSpaces(scene.name) = scene.name BY <1>6, <1>7, FileNameKept
  <2>2. base.name = scene.name BY <2>1 DEF Deserialise
  <2>3. base \in SceneType BY <1>5, DeserialiseOK DEF FilesOK
  <2>4. active = [base EXCEPT !.initialised = m_EditorState = "Play"] BY DEF Activated
  <2> HIDE DEF base
  <2>5. active.name = base.name BY <2>3, <2>4 DEF SceneType
  <2> QED BY <1>6, <2>2, <2>5
<1> HIDE DEF active
<1>9. DOMAIN m_vpAllScenes' = DOMAIN list BY <1>1, <1>4
<1>10. \A i \in DOMAIN list : m_vpAllScenes'[i].name = list[i].name
       BY <1>1, <1>3, <1>4, <1>8
<1>11. Listed' BY <1>1, <1>9, <1>10 DEF Listed
<1> QED BY <1>1, <1>3, <1>11 DEF queued

LEMMA ReopenStep == ASSUME IInv, ReopenInv, [Next]_vars PROVE ReopenInv'
<1> USE SceneManagerAssumption DEF ReopenInv
<1>1. ASSUME UNCHANGED <<project, closedOn>> PROVE ClosedOK' BY <1>1 DEF ClosedOK
<1>2. ASSUME UNCHANGED <<m_vpAllScenes, m_SceneFilePaths, m_CurrentScene, request, app, project, closedOn>>,
             Running, Running'
      PROVE  ReopenInv'
      BY <1>1, <1>2 DEF GameListed, Asked, Listed, request
\* The editor's own steps.
<1>3. ASSUME app' = "Editor", m_CurrentScene' # None, UNCHANGED <<project, closedOn>>
      PROVE  ReopenInv'
      BY <1>1, <1>3 DEF GameListed, Asked
<1>4. ASSUME NEW type \in {"Game", "Editor"}, Launch(type) PROVE ReopenInv'
  <2> DEFINE paths == IF project = None THEN <<>> ELSE project.Scenes
  <2>1. /\ m_SceneFilePaths' = paths /\ m_vpAllScenes' = [i \in DOMAIN paths |-> Scene(paths[i])]
        /\ m_SwitchingScenes' = (project # None)
        /\ m_QueuedSceneIndex' = (IF project = None THEN -1 ELSE project.SceneIndex)
        /\ UNCHANGED <<project, closedOn>>
        BY <1>4 DEF Launch, files
  <2>2. Listed' BY <2>1 DEF Listed, Scene
  <2> QED BY <1>1, <2>1, <2>2 DEF GameListed, Asked
<1>5. CASE ApplySceneSwitch
  <2>1. UNCHANGED <<m_SceneFilePaths, app, project, closedOn>> /\ Running
        BY <1>5 DEF ApplySceneSwitch, files, Running
  <2>2. m_CurrentScene' # None
    <3>1. m_CurrentScene' \in Int
      <4> DEFINE list == IF ~m_SwitchingScenes /\ m_vpAllScenes = <<>> THEN <<Scene("NewScene")>>
                         ELSE m_vpAllScenes
      <4>1. m_CurrentScene' = (IF m_SwitchingScenes THEN ValidIndex(m_QueuedSceneIndex, list) ELSE 0)
            BY <1>5 DEF ApplySceneSwitch
      <4>2. ValidIndex(m_QueuedSceneIndex, list) \in Int BY DEF ValidIndex
      <4> QED BY <4>1, <4>2
    <3> QED BY <3>1
  <2>3. CASE app = "Editor" BY <1>3, <2>1, <2>2, <2>3
  <2>4. CASE app = "Game"
    <3>1. m_SceneFilePaths = <<>> \/ Listed BY <2>1, <2>4 DEF GameListed
    <3>2. CASE m_SceneFilePaths = <<>>
          BY <1>1, <2>1, <2>2, <3>2 DEF GameListed, Asked
    <3>3. CASE Listed /\ m_SceneFilePaths # <<>>
      <4>1. m_vpAllScenes # <<>>
            BY <3>3, LenProperties, EmptySeq DEF Listed, IInv, FilesOK
      <4>2. Listed' BY <1>5, <3>3, <4>1, ListedSwitch
      <4> QED BY <1>1, <2>1, <2>2, <4>2 DEF GameListed, Asked
    <3> QED BY <3>1, <3>2, <3>3
  <2> QED BY <2>3, <2>4 DEF IInv, GameOK
<1>6. CASE KeepScene BY <1>2, <1>6 DEF KeepScene, Running, scenes, files, history
<1>7. CASE OnUpdate
  <2>1. PICK e \in Entities : SetCurrent([Current EXCEPT !.entities = e]) BY <1>7 DEF OnUpdate
  <2>2. /\ UNCHANGED <<m_SceneFilePaths, m_CurrentScene, app, project, closedOn>>
        /\ pc = "update" /\ pc' = "gui"
        BY <1>7 DEF OnUpdate, files, history
  <2>3. m_CurrentScene # None /\ Current \in SceneType BY <2>2, CurrentOfFrame DEF IInv, CurrentOK
  <2> DEFINE scene == [Current EXCEPT !.entities = e]
  <2>4. scene.name = Current.name BY <2>3 DEF SceneType
  <2>5. SetCurrent(scene) BY <2>1
  <2> HIDE DEF scene
  <2>6. Listed => Listed' BY <2>2, <2>4, <2>5, ListedKept
  <2> QED BY <1>1, <2>2, <2>3, <2>6 DEF GameListed, Asked, Running
<1>8. CASE SkipUpdate BY <1>2, <1>8 DEF SkipUpdate, Running, scenes, files, history
<1>9. CASE NextFrame BY <1>2, <1>9 DEF NextFrame, Running, scenes, files, history
<1>10. CASE Click
  <2>1. pc = "gui" /\ app = "Editor"
        BY <1>10 DEF Click, Gui, NoClick, Edit, Rename, NewScene, SelectScene, SaveScene, OpenScene, Play, Stop,
               Pause, StepForward
  <2>2. UNCHANGED <<m_CurrentScene, app, project, closedOn>>
        BY <1>10 DEF Click, files, history, NoClick, Edit, Rename, NewScene, SelectScene, SaveScene, OpenScene,
               Play, Stop, Pause, StepForward
  <2> QED BY <1>3, <2>1, <2>2 DEF IInv, CurrentOK
<1>11. CASE SaveKey \/ Reload
  <2>1. /\ UNCHANGED <<m_SceneFilePaths, m_CurrentScene, app, project, closedOn>>
        /\ pc = "keys" /\ pc' \in {"keys", "events"}
        /\ SetCurrent(Saved(Current)) \/ SetCurrent(Deserialise(Current, scenesDir))
        BY <1>11 DEF SaveKey, Reload, files, history
  <2>2. m_CurrentScene # None /\ m_CurrentScene + 1 \in DOMAIN m_vpAllScenes
        BY <2>1 DEF IInv, CurrentOK
  <2>3. ASSUME Listed PROVE m_SceneFilePaths = <<>> \/ Listed'
    <3>1. Current.name \in FileName
      <4>1. /\ Current.name = m_SceneFilePaths[m_CurrentScene + 1]
            /\ m_CurrentScene + 1 \in DOMAIN m_SceneFilePaths
            BY <2>2, <2>3 DEF Listed, Current
      <4> QED BY <4>1 DEF IInv, FilesOK
    <3>2. Deserialise(Current, scenesDir).name = Current.name
          BY <3>1, FileNameKept DEF Deserialise
    <3>3. Saved(Current).name = Current.name
      <4>1. Current \in SceneType BY <2>1, CurrentOfFrame
      <4> QED BY <3>1, <4>1, FileNameKept DEF Saved, SceneType
    <3>4. PICK scene : SetCurrent(scene) /\ scene.name = Current.name BY <2>1, <3>2, <3>3
    <3> QED BY <2>1, <2>3, <3>4, ListedKept
  <2> QED BY <1>1, <2>1, <2>2, <2>3 DEF GameListed, Asked, Running
<1>12. CASE NoKey BY <1>2, <1>12 DEF NoKey, Running, scenes, files, history
<1>13. CASE Quit
  <2>1. /\ pc = "events" /\ pc' = "off" /\ project' = SavedProject
        /\ closedOn' = IF app = "Game" THEN Current.name ELSE None
        BY <1>13 DEF Quit, Gone
  <2>2. ASSUME closedOn' # None PROVE ClosedOK'
    <3>1. m_SceneFilePaths = <<>> \/ Listed BY <2>1, <2>2 DEF GameListed, Running
    <3>2. m_CurrentScene \in Nat /\ m_CurrentScene + 1 \in DOMAIN m_vpAllScenes
          BY <2>1 DEF IInv, CurrentOK
    <3>3. project'.Scenes = m_SceneFilePaths /\ project'.SceneIndex = m_CurrentScene
          BY <2>1 DEF SavedProject
    <3>4. project' # None
      <4>1. SavedProject \in [Scenes : Seq(FileName), SceneIndex : Int]
            BY <3>2 DEF SavedProject, IInv, FilesOK
      <4> QED BY <2>1, <4>1, NoneIsNoProject
    <3>5. Listed => m_SceneFilePaths[m_CurrentScene + 1] = Current.name
                    /\ m_CurrentScene + 1 \in DOMAIN m_SceneFilePaths
          BY <3>2 DEF Listed, Current
    <3> QED BY <2>1, <2>2, <3>1, <3>2, <3>3, <3>4, <3>5 DEF ClosedOK
  <2> QED BY <2>1, <2>2 DEF GameListed, Asked, Running, ClosedOK
<1>14. CASE Kill
  <2>1. pc' = "off" /\ UNCHANGED <<project, closedOn>> BY <1>14 DEF Kill, Gone, files
  <2> QED BY <1>1, <2>1 DEF GameListed, Asked, Running
<1>15. CASE UNCHANGED vars
  BY <1>1, <1>15 DEF vars, scenes, request, files, history, GameListed, Asked, Running, Listed
<1> QED BY <1>4, <1>5, <1>6, <1>7, <1>8, <1>9, <1>10, <1>11, <1>12, <1>13, <1>14, <1>15 DEF Next

\* A game that was closed opens on the scene it was closed on: a game's scenes are
\* those of the project's files in their order, so the index that Quit saves is the
\* place of that name, and the next launch asks for it (Application.h 172-215,
\* SceneManager.cpp 72-129).
THEOREM GamesReopen == Spec => ReopensLastScene
<1>1. Init => ReopenInv BY DEF Init, ReopenInv, GameListed, Asked, ClosedOK, Running
<1>2. ASSUME IInv, StateOK, ReopenInv, [Next]_vars
      PROVE  m_CurrentScene = None /\ m_CurrentScene' # None /\ closedOn # None /\ pc' # "crashed"
                => Current'.name = closedOn
  <2> SUFFICES ASSUME m_CurrentScene = None, m_CurrentScene' # None, closedOn # None, pc' # "crashed"
               PROVE  Current'.name = closedOn
      OBVIOUS
  <2>1. ApplySceneSwitch
    <3>1. ~(\E type \in {"Game", "Editor"} : Launch(type)) BY DEF Launch
    <3>2. ~KeepScene /\ ~OnUpdate /\ ~SkipUpdate /\ ~NextFrame /\ ~SaveKey /\ ~Reload /\ ~NoKey
          BY DEF KeepScene, OnUpdate, SkipUpdate, NextFrame, SaveKey, Reload, NoKey
    <3>3. ~Quit /\ ~Kill /\ ~UNCHANGED vars BY DEF Quit, Kill, Gone, vars
    <3>4. ~Click
          BY DEF Click, NoClick, Edit, Rename, NewScene, SelectScene, SaveScene, OpenScene, Play, Stop, Pause,
                 StepForward
    <3> QED BY <1>2, <3>1, <3>2, <3>3, <3>4 DEF Next
  <2>2. project # None /\ Running BY <1>2, <2>1 DEF ReopenInv, ClosedOK, ApplySceneSwitch, Running
  <2>3. /\ m_SceneFilePaths = project.Scenes /\ Listed
        /\ m_SwitchingScenes /\ m_QueuedSceneIndex = project.SceneIndex
        BY <1>2, <2>2 DEF ReopenInv, Asked
  <2>4. m_vpAllScenes # <<>> BY <2>1, <2>3 DEF ApplySceneSwitch
  <2>5. project.Scenes # <<>>
        BY <1>2, <2>3, <2>4, LenProperties, EmptySeq DEF Listed, IInv, ScenesOK
  <2>6. /\ project.SceneIndex \in Nat /\ project.SceneIndex + 1 \in DOMAIN project.Scenes
        /\ project.Scenes[project.SceneIndex + 1] = closedOn
        BY <1>2, <2>5 DEF ReopenInv, ClosedOK
  <2>7. /\ Listed' /\ m_CurrentScene' = ValidIndex(m_QueuedSceneIndex, m_vpAllScenes)
        /\ m_SceneFilePaths' = m_SceneFilePaths
        BY <1>2, <2>1, <2>3, <2>4, ListedSwitch DEF ApplySceneSwitch
  <2>8. project.SceneIndex \in 0 .. Len(m_vpAllScenes) - 1
        BY <1>2, <2>3, <2>6, LenProperties DEF Listed, IInv, ScenesOK
  <2>9. m_CurrentScene' = project.SceneIndex BY <2>3, <2>7, <2>8 DEF ValidIndex
  <2>10. Current' = m_vpAllScenes'[project.SceneIndex + 1] BY <2>9 DEF Current
  <2>11. project.SceneIndex + 1 \in DOMAIN m_vpAllScenes' BY <2>3, <2>6, <2>7 DEF Listed
  <2> QED BY <2>3, <2>6, <2>7, <2>10, <2>11 DEF Listed
<1>3. Init => StateOK BY SceneManagerAssumption DEF Init, StateOK
<1> QED BY InitInv, StepInv, StateStep, ReopenStep, <1>1, <1>2, <1>3, PTL DEF Spec, ReopensLastScene
=============================================================================
