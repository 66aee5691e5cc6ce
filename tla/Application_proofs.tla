------------------------- MODULE Application_proofs -------------------------
(***************************************************************************)
(* Proofs for the frame loop.  First its framebuffers (RenderTargets), of  *)
(* any renderers, layouts, sizes, addresses and number of resizes in a     *)
(* frame; then the loop with its input and its clock, which is shown to    *)
(* implement each of them.                                                 *)
(***************************************************************************)
EXTENDS Application, FiniteSetTheorems, TLAPS

(* A framebuffer is counted more than once exactly when a renderer holds it. *)
LEMMA CountedIsHeld ==
    ASSUME NEW key
    PROVE  ReferenceCount(key) # 1 <=> key \in Held
<1> DEFINE holders == {r \in Renderers : framebuffers[r].key = key}
<1>1. IsFiniteSet(holders)
  BY RenderersAssumption, FS_Subset
<1>2. Cardinality(holders) \in Nat /\ (Cardinality(holders) = 0 <=> holders = {})
  BY <1>1, FS_CardinalityType, FS_EmptySet
<1>3. key \in Held <=> holders # {}
  BY DEF Held
<1> QED
  BY <1>2, <1>3 DEF ReferenceCount, HolderCount

(* What the cache and the renderers are after a resize event, in terms of the cache *)
(* the renderers found.                                                             *)
LEMMA AfterOnResize ==
    ASSUME NEW width, NEW address, NEW cached,
           RenderersOnResize(width, address, cached)
    PROVE  /\ \A r \in Renderers :
                 /\ framebuffers'[r].key = FramebufferInfo(r, width, address)
                 /\ framebuffers'[r].gone = Get(cached, FramebufferInfo(r, width, address))
           /\ DOMAIN cache' =
                 DOMAIN cached \cup {FramebufferInfo(r, width, address) : r \in Renderers}
           /\ \A key \in DOMAIN cache' : cache'[key] = Get(cached, key)
           /\ HeldIsCached'
BY DEF RenderersOnResize, HeldIsCached

(* The width is what a key is made with. *)
LEMMA InfoIsKey ==
    ASSUME NEW r \in Renderers, NEW width \in Sizes \cup {0}, NEW address \in Addresses
    PROVE  /\ FramebufferInfo(r, width, address) \in Keys
           /\ FramebufferInfo(r, width, address).width = width
BY DEF FramebufferInfo, Keys, Layouts

(* A resize event keeps the types, whatever images it destroyed before. *)
LEMMA OnResizeTypes ==
    ASSUME NEW width \in Sizes \cup {0}, NEW address \in Addresses, NEW cached,
           DOMAIN cached \subseteq Keys,
           \A key \in DOMAIN cached : cached[key] \subseteq Textures,
           RenderersOnResize(width, address, cached)
    PROVE  /\ DOMAIN cache' \subseteq Keys
           /\ \A key \in DOMAIN cache' : cache'[key] \subseteq Textures
           /\ framebuffers' \in [Renderers -> [key : Keys, gone : SUBSET Textures]]
<1>1. \A key : Get(cached, key) \in SUBSET Textures
  BY DEF Get
<1>2. \A r \in Renderers : FramebufferInfo(r, width, address) \in Keys
  BY InfoIsKey
<1>3. DOMAIN cache' \subseteq Keys
  <2>1. DOMAIN cache' =
           DOMAIN cached \cup {FramebufferInfo(r, width, address) : r \in Renderers}
    BY AfterOnResize, Zenon
  <2> QED
    BY <1>2, <2>1
<1>4. \A key \in DOMAIN cache' : cache'[key] \subseteq Textures
  <2>1. \A key \in DOMAIN cache' : cache'[key] = Get(cached, key)
    BY AfterOnResize, Zenon
  <2> QED
    BY <1>1, <2>1
<1>5. framebuffers' \in [Renderers -> [key : Keys, gone : SUBSET Textures]]
  BY <1>1, <1>2 DEF RenderersOnResize
<1> QED
  BY <1>3, <1>4, <1>5

(* Destroying images adds textures to what is gone, and no entry. *)
LEMMA DestroyTypes ==
    ASSUME NEW textures \in SUBSET Textures, TypeOK
    PROVE  /\ DOMAIN Destroy(cache, textures) = DOMAIN cache
           /\ \A key \in DOMAIN cache :
                 Destroy(cache, textures)[key] \in SUBSET Textures
BY DEF Destroy, Gone, TypeOK

LEMMA InitIInv == Init => IInv
<1> SUFFICES ASSUME NEW width \in Sizes, NEW address \in Addresses,
                    phase = "update",
                    minimized = FALSE,
                    gbuffer = width,
                    surface = [size |-> width, at |-> address],
                    cache = [key \in {FramebufferInfo(r, width, address) : r \in Renderers} |-> {}],
                    framebuffers = [r \in Renderers |->
                                      [key |-> FramebufferInfo(r, width, address), gone |-> {}]],
                    resizes = 0,
                    seen = {width},
                    returned = {},
                    outOfDate = FALSE
             PROVE  IInv
  BY DEF Init
<1>1. \A r \in Renderers : /\ FramebufferInfo(r, width, address) \in Keys
                           /\ FramebufferInfo(r, width, address).width = width
  BY InfoIsKey
<1>2. TypeOK
  <2>1. DOMAIN cache \subseteq Keys /\ \A key \in DOMAIN cache : cache[key] = {}
    BY <1>1
  <2>2. framebuffers \in [Renderers -> [key : Keys, gone : SUBSET Textures]]
    BY <1>1
  <2>3. resizes \in 0 .. MaxResizes
    BY MaxResizesAssumption
  <2>4. surface \in [size : Sizes, at : Addresses]
    OBVIOUS
  <2>5. minimized \in BOOLEAN /\ outOfDate \in BOOLEAN
    OBVIOUS
  <2>6. phase \in {"update", "render", "draw", "poll"}
    OBVIOUS
  <2> QED
    BY <2>1, <2>2, <2>3, <2>4, <2>5, <2>6 DEF TypeOK
<1>3. SizesAgree /\ HeldIsCached /\ SweptCacheIsHeld /\ StaleOnlyIfReturned /\ KeysSeen
  BY <1>1 DEF SizesAgree, HeldIsCached, SweptCacheIsHeld, StaleOnlyIfReturned, KeysSeen
<1> QED
  BY <1>2, <1>3 DEF IInv

LEMMA UpdateIInv == IInv /\ Update => IInv'
<1> SUFFICES ASSUME IInv, Update PROVE IInv'
  OBVIOUS
<1>1. DOMAIN cache' = {key \in DOMAIN cache : key \in Held}
      /\ \A key \in DOMAIN cache' : cache'[key] = cache[key]
  BY CountedIsHeld DEF Update
<1>2. Held \subseteq DOMAIN cache
  BY DEF IInv, HeldIsCached, Held
<1>3. TypeOK'
  <2>1. seen' \subseteq Sizes \cup {0}
    BY DEF Update, Held, IInv, TypeOK, Keys
  <2> QED
    BY <1>1, <2>1 DEF Update, IInv, TypeOK
<1>4. SweptCacheIsHeld'
  BY <1>1, <1>2 DEF SweptCacheIsHeld, Held, Update
<1>5. HeldIsCached'
  BY <1>1 DEF Update, IInv, HeldIsCached, Held
<1>6. KeysSeen'
  BY <1>1 DEF KeysSeen, Update
<1>7. SizesAgree' /\ StaleOnlyIfReturned'
  BY DEF Update, IInv, SizesAgree, StaleOnlyIfReturned
<1> QED
  BY <1>3, <1>4, <1>5, <1>6, <1>7 DEF IInv

LEMMA AcquireOutOfDateIInv ==
    ASSUME IInv, NEW address \in Addresses, AcquireOutOfDate(address)
    PROVE  IInv'
<1>1. \A r \in Renderers :
         /\ framebuffers'[r].key = framebuffers[r].key
         /\ framebuffers'[r].gone =
               Gone(framebuffers[r].gone, framebuffers[r].key, {"screen"})
  BY DEF AcquireOutOfDate, IInv, TypeOK
<1>2. /\ DOMAIN cache' = DOMAIN cache
      /\ \A key \in DOMAIN cache : cache'[key] = Gone(cache[key], key, {"screen"})
  BY DEF AcquireOutOfDate, Destroy
<1>3. TypeOK'
  <2>1. framebuffers' \in [Renderers -> [key : Keys, gone : SUBSET Textures]]
    BY DEF AcquireOutOfDate, IInv, TypeOK, Gone, Textures
  <2>2. \A key \in DOMAIN cache' : cache'[key] \subseteq Textures
    BY <1>2 DEF IInv, TypeOK, Gone, Textures
  <2>3. surface' \in [size : Sizes, at : Addresses]
    BY DEF AcquireOutOfDate, IInv, TypeOK
  <2> QED
    BY <1>2, <2>1, <2>2, <2>3 DEF AcquireOutOfDate, IInv, TypeOK
<1>4. SizesAgree'
  BY <1>1 DEF AcquireOutOfDate, IInv, SizesAgree, TypeOK
<1>5. HeldIsCached'
  BY <1>1, <1>2 DEF IInv, HeldIsCached
<1>6. SweptCacheIsHeld' /\ KeysSeen'
  BY <1>2 DEF AcquireOutOfDate, IInv, SweptCacheIsHeld, KeysSeen
<1>7. StaleOnlyIfReturned'
  BY <1>1 DEF AcquireOutOfDate, IInv, StaleOnlyIfReturned, Gone
<1> QED
  BY <1>3, <1>4, <1>5, <1>6, <1>7 DEF IInv

(* What the two resize events share: a framebuffer found in the cache has a width *)
(* that was seen.                                                                 *)
LEMMA OnResizeIInv ==
    ASSUME IInv, NEW width \in Sizes \cup {0}, NEW address \in Addresses, NEW cached,
           DOMAIN cached = DOMAIN cache,
           RenderersOnResize(width, address, cached),
           seen' = seen \cup {width},
           returned' = {width} \cap seen
    PROVE  HeldIsCached' /\ StaleOnlyIfReturned' /\ KeysSeen'
<1>1. \A r \in Renderers : FramebufferInfo(r, width, address).width = width
  BY InfoIsKey
<1>2. HeldIsCached'
  BY AfterOnResize
<1>3. StaleOnlyIfReturned'
  <2> SUFFICES ASSUME NEW r \in Renderers, framebuffers'[r].gone # {}
               PROVE  width \in seen
    BY DEF StaleOnlyIfReturned
  <2>1. FramebufferInfo(r, width, address) \in DOMAIN cache
    BY AfterOnResize DEF Get
  <2> QED
    BY <1>1, <2>1 DEF IInv, KeysSeen
<1>4. KeysSeen'
  <2>1. DOMAIN cache' =
           DOMAIN cache \cup {FramebufferInfo(r, width, address) : r \in Renderers}
    BY AfterOnResize
  <2> QED
    BY <1>1, <2>1 DEF IInv, KeysSeen
<1> QED
  BY <1>2, <1>3, <1>4

LEMMA ResizeIInv ==
    ASSUME IInv, NEW width \in Sizes, NEW address \in Addresses, Resize(width, address)
    PROVE  IInv'
<1>1. /\ DOMAIN Destroy(cache, Textures) = DOMAIN cache
      /\ \A key \in DOMAIN cache : Destroy(cache, Textures)[key] \in SUBSET Textures
  BY DestroyTypes DEF IInv
<1>2. RenderersOnResize(width, address, Destroy(cache, Textures))
  BY DEF Resize
<1>3. HeldIsCached' /\ StaleOnlyIfReturned' /\ KeysSeen'
  BY <1>1, <1>2, OnResizeIInv DEF Resize
<1>4. TypeOK'
  <2>1. /\ DOMAIN cache' \subseteq Keys
        /\ \A key \in DOMAIN cache' : cache'[key] \subseteq Textures
        /\ framebuffers' \in [Renderers -> [key : Keys, gone : SUBSET Textures]]
    BY <1>1, <1>2, OnResizeTypes DEF IInv, TypeOK
  <2>2. resizes' \in 0 .. MaxResizes
    BY MaxResizesAssumption DEF Resize, IInv, TypeOK
  <2>3. minimized' \in BOOLEAN /\ outOfDate' \in BOOLEAN
    BY DEF Resize
  <2>4. returned' \subseteq Sizes \cup {0}
    BY DEF Resize
  <2> QED
    BY <2>1, <2>2, <2>3, <2>4 DEF Resize, IInv, TypeOK
<1>5. SizesAgree'
  <2>1. \A r \in Renderers : framebuffers'[r].key.width = width
    <3>1. \A r \in Renderers : framebuffers'[r].key = FramebufferInfo(r, width, address)
      BY <1>2, AfterOnResize, Zenon
    <3>2. \A r \in Renderers : FramebufferInfo(r, width, address).width = width
      BY InfoIsKey
    <3> QED
      BY <3>1, <3>2
  <2>2. gbuffer' = width /\ surface'.size = width
    BY DEF Resize
  <2> QED
    BY <2>1, <2>2 DEF SizesAgree
<1>6. SweptCacheIsHeld'
  BY DEF Resize, SweptCacheIsHeld
<1> QED
  BY <1>3, <1>4, <1>5, <1>6 DEF IInv

LEMMA MinimiseIInv == IInv /\ Minimise => IInv'
<1> SUFFICES ASSUME IInv, Minimise PROVE IInv'
  OBVIOUS
<1>1. surface.at \in Addresses
  BY DEF IInv, TypeOK
<1>2. RenderersOnResize(0, surface.at, cache)
  BY DEF Minimise
<1>3. HeldIsCached' /\ StaleOnlyIfReturned' /\ KeysSeen'
  BY <1>1, <1>2, OnResizeIInv DEF Minimise
<1>4. TypeOK'
  <2>1. /\ DOMAIN cache' \subseteq Keys
        /\ \A key \in DOMAIN cache' : cache'[key] \subseteq Textures
        /\ framebuffers' \in [Renderers -> [key : Keys, gone : SUBSET Textures]]
    BY <1>1, <1>2, OnResizeTypes DEF IInv, TypeOK
  <2>2. resizes' \in 0 .. MaxResizes
    BY MaxResizesAssumption DEF Minimise, IInv, TypeOK
  <2>3. minimized' \in BOOLEAN /\ outOfDate' \in BOOLEAN
    BY DEF Minimise
  <2>4. returned' \subseteq Sizes \cup {0}
    BY DEF Minimise
  <2> QED
    BY <2>1, <2>2, <2>3, <2>4 DEF Minimise, IInv, TypeOK
<1>5. SizesAgree' /\ SweptCacheIsHeld'
  BY DEF Minimise, SizesAgree, SweptCacheIsHeld
<1> QED
  BY <1>3, <1>4, <1>5 DEF IInv

(* The steps that change nothing but the phase and the count of events. *)
LEMMA OtherIInv ==
    ASSUME IInv, SkipRender \/ Acquire \/ Draw \/ EndFrame \/ UNCHANGED vars
    PROVE  IInv'
<1>1. UNCHANGED <<minimized, gbuffer, surface, cache, framebuffers, seen, returned, outOfDate>>
  BY DEF SkipRender, Acquire, Draw, EndFrame, vars
<1>2. TypeOK'
  BY <1>1, MaxResizesAssumption
     DEF IInv, TypeOK, SkipRender, Acquire, Draw, EndFrame, vars
<1>3. SweptCacheIsHeld'
  BY <1>1 DEF IInv, SweptCacheIsHeld, Held, SkipRender, Acquire, Draw, EndFrame, vars
<1>4. SizesAgree' /\ HeldIsCached' /\ StaleOnlyIfReturned' /\ KeysSeen'
  BY <1>1 DEF IInv, SizesAgree, HeldIsCached, StaleOnlyIfReturned, KeysSeen
<1> QED
  BY <1>2, <1>3, <1>4 DEF IInv

LEMMA NextIInv == IInv /\ [Next]_vars => IInv'
<1> SUFFICES ASSUME IInv, [Next]_vars PROVE IInv'
  OBVIOUS
<1>1. CASE Update
  BY <1>1, UpdateIInv
<1>2. CASE \E address \in Addresses : AcquireOutOfDate(address)
  BY <1>2, AcquireOutOfDateIInv
<1>3. CASE \E width \in Sizes, address \in Addresses : Resize(width, address)
  BY <1>3, ResizeIInv
<1>4. CASE Minimise
  BY <1>4, MinimiseIInv
<1>5. CASE SkipRender \/ Acquire \/ Draw \/ EndFrame \/ UNCHANGED vars
  BY <1>5, OtherIInv
<1> QED
  BY <1>1, <1>2, <1>3, <1>4, <1>5 DEF Next

(* The invariant of the frame loop: Application::OnFrame and the resize events keep it. *)
THEOREM Invariance == Spec => []IInv
BY InitIInv, NextIInv, PTL DEF Spec

(* DeleteUnusedCache never drops a framebuffer a renderer holds, and Get shares it. *)
THEOREM HeldStaysCached == Spec => []HeldIsCached
<1>1. IInv => HeldIsCached
  BY DEF IInv
<1> QED
  BY <1>1, Invariance, PTL

(* After a sweep the cache holds what the renderers hold. *)
THEOREM SweepDropsTheRest == Spec => []SweptCacheIsHeld
<1>1. IInv => SweptCacheIsHeld
  BY DEF IInv
<1> QED
  BY <1>1, Invariance, PTL

(* The renderers, the GBuffer and the swapchain have one size. *)
THEOREM SizesStayEqual == Spec => []SizesAgree
<1>1. IInv => SizesAgree
  BY DEF IInv
<1> QED
  BY <1>1, Invariance, PTL

(* A renderer draws to a destroyed image only in the two orders of events named. *)
THEOREM StaleFramebuffers == Spec => []StaleOnlyIfReturned
<1>1. IInv => StaleOnlyIfReturned
  BY DEF IInv
<1> QED
  BY <1>1, Invariance, PTL

-----------------------------------------------------------------------------
(* Application::OnFrame. *)

(* Every step of the loop is a step of the framebuffers or leaves them alone. *)
THEOREM FrameImplementsTargets == Run => Spec
<1>1. OnInit => Init
  BY DEF OnInit
<1>2. [OnFrame]_allVars => [Next]_vars
  <2> SUFFICES ASSUME [OnFrame]_allVars
               PROVE  [Next]_vars
    OBVIOUS
  <2>1. CASE UNCHANGED targets
    BY <2>1 DEF targets, vars
  <2>2. CASE EndOnUpdate
    BY <2>2, Zenon DEF EndOnUpdate, Next
  <2>3. CASE BeginRender
    BY <2>3, Zenon DEF BeginRender, Next
  <2>4. CASE Poll
    BY <2>4, Zenon DEF Poll, Next
  <2>5. CASE OnWindowResize
    BY <2>5, Zenon DEF OnWindowResize, Next
  <2>6. CASE EndOnFrame
    BY <2>6, Zenon DEF EndOnFrame, Next
  <2>7. CASE BeginFrame \/ UpdateSystems \/ OnWindowClose \/ OnInput
    BY <2>1, <2>7 DEF BeginFrame, UpdateSystems, OnWindowClose, OnInput
  <2>8. CASE Closed \/ UNCHANGED allVars
    BY <2>1, <2>8 DEF Closed, allVars
  <2> QED
    BY <2>2, <2>3, <2>4, <2>5, <2>6, <2>7, <2>8, Zenon DEF OnFrame
<1> QED
  BY <1>1, <1>2, PTL DEF Run, Spec

(* Input's invariant. *)
InputInv ==
    /\ Keyboard!TypeOK
    /\ Keyboard!HeldIsDown
    /\ Keyboard!GuiKeysAreDown
    /\ Keyboard!PressedIsLast

(* No press was reported by the window before the first poll. *)
LEMMA InitInputInv == OnInit => InputInv
<1> SUFFICES ASSUME OnInit
             PROVE  InputInv
  OBVIOUS
<1>1. /\ down = {} /\ held = {} /\ pressed = {} /\ keysDown = {} /\ taken = {} /\ dropped = {}
      /\ keyCtrl = FALSE /\ wantText = FALSE
      /\ last = [c \in Keyboard!Codes(Keyboard!Inputs) |-> "none"]
  BY DEF OnInit, Keyboard!Init
<1>2. Keyboard!TypeOK
  BY <1>1 DEF Keyboard!TypeOK
<1>3. Keyboard!HeldIsDown /\ Keyboard!GuiKeysAreDown /\ Keyboard!PressedIsLast
  BY <1>1 DEF Keyboard!HeldIsDown, Keyboard!GuiKeysAreDown, Keyboard!PressedIsLast, Keyboard!Codes
<1> QED
  BY <1>2, <1>3 DEF InputInv

(* The gui looks at the control keys at each press of a key, and what it finds does not *)
(* depend on the buttons.                                                               *)
LEMMA ControlIsSeen ==
    ASSUME Keyboard!Parameters, NEW i \in Keyboard!Inputs, NEW repeat \in BOOLEAN,
           keysDown \cap Modifiers # {} => keyCtrl,
           Keyboard!OnKeyPressed(Code[i], repeat)
    PROVE  keysDown' \cap Modifiers # {} => keyCtrl'
<1>1. CASE Code[i] \in Keyboard!Codes(KeyboardKeys)
  BY <1>1 DEF Keyboard!OnKeyPressed
<1>2. CASE Code[i] \notin Keyboard!Codes(KeyboardKeys)
  <2>1. Code[i] \notin Modifiers
    BY <1>2 DEF Keyboard!Inputs, Keyboard!Codes, Keyboard!Parameters
  <2> QED
    BY <1>2, <2>1 DEF Keyboard!OnKeyPressed
<1> QED
  BY <1>1, <1>2

(* A press or a repeat of what is down in the end: Input holds its code unless the gui *)
(* takes it, and what is remembered of it says so.                                     *)
LEMMA PressKeepsInputInv ==
    ASSUME Keyboard!Parameters, InputInv, NEW i \in Keyboard!Inputs, NEW repeat \in BOOLEAN,
           Keyboard!OnKeyPressed(Code[i], repeat),
           Keyboard!Remember(i, IF repeat THEN "repeat" ELSE "press"),
           down' = down \cup {i}, UNCHANGED wantText
    PROVE  InputInv'
<1>1. Keyboard!TypeOK /\ Keyboard!HeldIsDown /\ Keyboard!GuiKeysAreDown /\ Keyboard!PressedIsLast
  BY DEF InputInv
<1>2. Code[i] \in Keyboard!Codes(Keyboard!Inputs)
  BY DEF Keyboard!Codes
<1>3. dropped' = dropped \ {i}
  BY DEF Keyboard!Remember
<1>4. Keyboard!GuiKeysAreDown'
  <2>1. down' \ dropped' = (down \ dropped) \cup {i} /\ keysDown' = keysDown \cup {Code[i]}
    BY <1>3 DEF Keyboard!OnKeyPressed
  <2>2. keysDown' = Keyboard!Codes(down' \ dropped')
    BY <1>1, <2>1 DEF Keyboard!GuiKeysAreDown, Keyboard!Codes
  <2>3. keysDown' \cap Modifiers # {} => keyCtrl'
    BY <1>1, ControlIsSeen DEF Keyboard!GuiKeysAreDown
  <2> QED
    BY <2>2, <2>3 DEF Keyboard!GuiKeysAreDown, Keyboard!Codes
<1>5. CASE Keyboard!GuiTakes(Code[i])
  <2>1. /\ taken' = IF i \in down \ dropped THEN taken ELSE taken \cup {i}
        /\ last' = last /\ held' = held /\ pressed' = pressed
        /\ keysDown' = keysDown \cup {Code[i]} /\ keyCtrl' \in BOOLEAN
    BY <1>1, <1>5 DEF Keyboard!Remember, Keyboard!OnKeyPressed, Keyboard!TypeOK
  <2>2. Keyboard!TypeOK'
    BY <1>1, <1>2, <1>3, <2>1 DEF Keyboard!TypeOK
  <2>3. down' \ (taken' \cup dropped') = down \ (taken \cup dropped)
    BY <1>1, <1>3, <2>1 DEF Keyboard!TypeOK
  <2>4. Keyboard!HeldIsDown'
    BY <1>1, <2>1, <2>3 DEF Keyboard!HeldIsDown, Keyboard!Codes
  <2>5. Keyboard!PressedIsLast'
    BY <1>1, <2>1 DEF Keyboard!PressedIsLast, Keyboard!Codes, Keyboard!Inputs
  <2> QED
    BY <1>4, <2>2, <2>4, <2>5 DEF InputInv
<1>6. CASE ~Keyboard!GuiTakes(Code[i])
  <2> DEFINE kind == IF repeat THEN "repeat" ELSE "press"
  <2>1. /\ taken' = taken \ {i}
        /\ last' = [last EXCEPT ![Code[i]] = kind]
        /\ held' = held \cup {Code[i]}
        /\ pressed' = IF repeat THEN pressed \ {Code[i]} ELSE pressed \cup {Code[i]}
        /\ keysDown' = keysDown \cup {Code[i]} /\ keyCtrl' \in BOOLEAN
    BY <1>1, <1>6 DEF Keyboard!Remember, Keyboard!OnKeyPressed, Keyboard!TypeOK
  <2>2. kind \in {"press", "repeat"}
    OBVIOUS
  <2>3. Keyboard!TypeOK'
    BY <1>1, <1>2, <1>3, <2>1, <2>2 DEF Keyboard!TypeOK
  <2>4. down' \ (taken' \cup dropped') = (down \ (taken \cup dropped)) \cup {i}
    BY <1>3, <2>1
  <2>5. Keyboard!HeldIsDown'
    BY <1>1, <2>1, <2>4 DEF Keyboard!HeldIsDown, Keyboard!Codes
  <2>6. Keyboard!PressedIsLast'
    BY <1>1, <1>2, <2>1 DEF Keyboard!PressedIsLast, Keyboard!TypeOK, Keyboard!Codes, Keyboard!Inputs
  <2> QED
    BY <1>4, <2>3, <2>5, <2>6 DEF InputInv
<1> QED
  BY <1>5, <1>6

(* A release takes the code from all that share it. *)
LEMMA ReleaseKeepsInputInv ==
    ASSUME InputInv, NEW i \in Keyboard!Inputs, Keyboard!Release(i)
    PROVE  InputInv'
<1> DEFINE others == {j \in down' : Code[j] = Code[i]}
<1>1. Keyboard!TypeOK /\ Keyboard!HeldIsDown /\ Keyboard!GuiKeysAreDown /\ Keyboard!PressedIsLast
  BY DEF InputInv
<1>2. Code[i] \in Keyboard!Codes(Keyboard!Inputs)
  BY DEF Keyboard!Codes
<1>3. /\ down' = down \ {i}
      /\ taken' = taken \ ({i} \cup others)
      /\ dropped' = (dropped \ {i}) \cup others
      /\ last' = [last EXCEPT ![Code[i]] = "release"]
      /\ held' = held \ {Code[i]} /\ pressed' = pressed \ {Code[i]}
      /\ keysDown' = keysDown \ {Code[i]} /\ keyCtrl' = keyCtrl /\ wantText' = wantText
  BY DEF Keyboard!Release, Keyboard!OnKeyReleased
<1>4. Keyboard!TypeOK'
  <2>1. \A j \in dropped' : \E k \in Keyboard!Inputs \ {j} : Code[k] = Code[j]
    BY <1>1, <1>3 DEF Keyboard!TypeOK
  <2>2. taken' \subseteq down' /\ dropped' \subseteq down' \ taken'
    BY <1>1, <1>3 DEF Keyboard!TypeOK
  <2> QED
    BY <1>1, <1>2, <1>3, <2>1, <2>2 DEF Keyboard!TypeOK
<1>5. Keyboard!HeldIsDown'
  <2>1. down' \ (taken' \cup dropped')
           = {j \in down \ (taken \cup dropped) : Code[j] # Code[i]}
    BY <1>1, <1>3 DEF Keyboard!TypeOK
  <2> QED
    BY <1>1, <1>3, <2>1 DEF Keyboard!HeldIsDown, Keyboard!Codes
<1>6. Keyboard!GuiKeysAreDown'
  <2>1. down' \ dropped' = {j \in down \ dropped : Code[j] # Code[i]}
    BY <1>1, <1>3 DEF Keyboard!TypeOK
  <2> QED
    BY <1>1, <1>3, <2>1 DEF Keyboard!GuiKeysAreDown, Keyboard!Codes
<1>7. Keyboard!PressedIsLast'
  BY <1>1, <1>2, <1>3 DEF Keyboard!PressedIsLast, Keyboard!TypeOK, Keyboard!Codes, Keyboard!Inputs
<1> QED
  BY <1>4, <1>5, <1>6, <1>7 DEF InputInv

(* A press, a repeat or a release, taken by the gui or not. *)
LEMMA EventKeepsInputInv ==
    ASSUME Keyboard!Parameters, InputInv, OnInput
    PROVE  InputInv'
<1>1. PICK i \in Keyboard!Inputs : Keyboard!Press(i) \/ Keyboard!Repeat(i) \/ Keyboard!Release(i)
  BY DEF OnInput, Keyboard!Event
<1>2. CASE Keyboard!Press(i)
  <2>1. /\ Keyboard!OnKeyPressed(Code[i], FALSE)
        /\ Keyboard!Remember(i, IF FALSE THEN "repeat" ELSE "press")
        /\ down' = down \cup {i} /\ UNCHANGED wantText
    BY <1>2 DEF Keyboard!Press
  <2> QED
    BY <2>1, PressKeepsInputInv
<1>3. CASE Keyboard!Repeat(i)
  <2>1. /\ Keyboard!OnKeyPressed(Code[i], TRUE)
        /\ Keyboard!Remember(i, IF TRUE THEN "repeat" ELSE "press")
        /\ down' = down \cup {i} /\ UNCHANGED wantText
    BY <1>3 DEF Keyboard!Repeat
  <2> QED
    BY <2>1, PressKeepsInputInv
<1>4. CASE Keyboard!Release(i)
  BY <1>4, ReleaseKeepsInputInv
<1> QED
  BY <1>1, <1>2, <1>3, <1>4

(* The steps of the loop that are no event of the window. *)
LEMMA FrameKeepsInputInv ==
    ASSUME InputInv, [OnFrame]_allVars, ~OnInput
    PROVE  InputInv'
<1> USE DEF Keyboard!Codes, Keyboard!Inputs
<1>1. CASE BeginFrame
  <2>1. /\ wantText' \in BOOLEAN
        /\ UNCHANGED <<down, held, pressed, keysDown, keyCtrl, last, taken, dropped>>
    BY <1>1 DEF BeginFrame, Keyboard!NewFrame
  <2> QED
    BY <2>1 DEF InputInv, Keyboard!TypeOK, Keyboard!HeldIsDown, Keyboard!GuiKeysAreDown,
                Keyboard!PressedIsLast
<1>2. CASE Poll
  <2>1. /\ pressed' = {} /\ last' = [c \in Keyboard!Codes(Keyboard!Inputs) |-> "none"]
        /\ UNCHANGED <<down, held, keysDown, keyCtrl, wantText, taken, dropped>>
    BY <1>2 DEF Poll, Keyboard!ResetPressed
  <2>2. Keyboard!TypeOK'
    BY <2>1 DEF InputInv, Keyboard!TypeOK
  <2>3. Keyboard!HeldIsDown' /\ Keyboard!GuiKeysAreDown'
    BY <2>1 DEF InputInv, Keyboard!HeldIsDown, Keyboard!GuiKeysAreDown
  <2>4. Keyboard!PressedIsLast'
    BY <2>1 DEF Keyboard!PressedIsLast
  <2> QED
    BY <2>2, <2>3, <2>4 DEF InputInv
<1>3. CASE UNCHANGED input
  BY <1>3 DEF input, InputInv, Keyboard!TypeOK, Keyboard!HeldIsDown, Keyboard!GuiKeysAreDown,
              Keyboard!PressedIsLast
<1>4. CASE \/ UpdateSystems \/ EndOnUpdate \/ BeginRender \/ OnWindowResize \/ OnWindowClose
           \/ EndOnFrame \/ Closed \/ UNCHANGED allVars
  <2>1. UNCHANGED input
    BY <1>4 DEF UpdateSystems, EndOnUpdate, BeginRender, OnWindowResize, OnWindowClose, EndOnFrame,
                Closed, allVars
  <2> QED
    BY <1>3, <2>1
<1> QED
  BY <1>1, <1>2, <1>4, Zenon DEF OnFrame

THEOREM InputInvariance == Run => []InputInv
<1>1. InputInv /\ [OnFrame]_allVars => InputInv'
  BY EventKeepsInputInv, FrameKeepsInputInv, KeyboardAssumption
<1> QED
  BY <1>1, InitInputInv, PTL DEF Run

(* No code sticks, and none is lost but to the gui or to another key or button of the *)
(* same code, whatever the order of the callbacks of the window and of the frames in    *)
(* which the gui takes text, and whatever code stands for what.                         *)
THEOREM NoKeySticks == Run => []HeldIsDown
<1>1. InputInv => HeldIsDown
  BY DEF InputInv, HeldIsDown
<1> QED
  BY <1>1, InputInvariance, PTL

(* The gui's keys are the codes of what is down and has not been dropped by the release *)
(* of another of its code, and a control key among them is seen.                        *)
THEOREM GuiSeesEveryKey == Run => []GuiKeysAreDown
<1>1. InputInv => GuiKeysAreDown
  BY DEF InputInv, GuiKeysAreDown
<1> QED
  BY <1>1, InputInvariance, PTL

(* A press is read in the frame after its poll, and in no other. *)
THEOREM PressIsReadOnce == Run => []PressedIsLast
<1>1. InputInv => PressedIsLast
  BY DEF InputInv, PressedIsLast
<1> QED
  BY <1>1, InputInvariance, PTL

-----------------------------------------------------------------------------
(* The clock. *)

(* A turn of the loop moves one step from the time that is kept to the steps made. *)
LEMMA StepTrades ==
    ASSUME NEW u \in Nat, NEW t \in Nat
    PROVE  (u + 1) * t = u * t + t
  OBVIOUS

LEMMA ClockKeepsIInv ==
    ASSUME Clock!Parameters, Clock!IInv,
           \/ Clock!SetDefaults
           \/ \E deltaTime \in Nat : Clock!OnUpdate(deltaTime)
           \/ Clock!StepWorld
           \/ Clock!Finish
           \/ UNCHANGED clock
    PROVE  Clock!IInv'
<1>1. /\ accum \in Nat /\ stepping \in BOOLEAN /\ updates \in Nat /\ budget \in Nat
      /\ updates <= MaxUpdatesPerFrame
      /\ UpdateTimestep \in Nat \ {0} /\ MaxUpdatesPerFrame \in Nat \ {0}
  BY DEF Clock!IInv, Clock!TypeOK, Clock!Parameters
<1>2. CASE Clock!SetDefaults
  BY <1>1, <1>2 DEF Clock!SetDefaults, Clock!IInv, Clock!TypeOK, Clock!TimeKept,
                    Clock!LessThanAStepLeft
<1>3. ASSUME NEW deltaTime \in Nat, Clock!OnUpdate(deltaTime)
      PROVE  Clock!IInv'
  <2>1. accum' = accum + deltaTime /\ stepping' = TRUE /\ updates' = 0 /\ budget' = accum'
    BY <1>3 DEF Clock!OnUpdate
  <2>2. updates' * UpdateTimestep + accum' = budget'
    BY <1>1, <2>1
  <2> QED
    BY <1>1, <2>1, <2>2 DEF Clock!IInv, Clock!TypeOK, Clock!TimeKept, Clock!LessThanAStepLeft
<1>4. CASE Clock!StepWorld
  <2>1. /\ stepping = TRUE /\ stepping' = stepping /\ budget' = budget
        /\ accum >= UpdateTimestep /\ updates < MaxUpdatesPerFrame
        /\ accum' = accum - UpdateTimestep /\ updates' = updates + 1
    BY <1>1, <1>4 DEF Clock!StepWorld, Clock!MoreUpdates
  <2>2. accum' \in Nat /\ updates' \in 0 .. MaxUpdatesPerFrame
    BY <1>1, <2>1
  <2>3. updates * UpdateTimestep + accum = budget
    BY <2>1 DEF Clock!IInv, Clock!TimeKept
  <2>4. updates' * UpdateTimestep = updates * UpdateTimestep + UpdateTimestep
    BY <1>1, <2>1, StepTrades
  <2>5. updates' * UpdateTimestep + accum' = budget'
    <3>1. ASSUME NEW n \in Int, NEW m \in Int, n + accum = budget, m = n + UpdateTimestep
          PROVE  m + accum' = budget'
      BY <1>1, <2>1, <3>1
    <3>2. updates * UpdateTimestep \in Int /\ updates' * UpdateTimestep \in Int
      BY <1>1, <2>2
    <3> QED
      BY <2>3, <2>4, <3>1, <3>2
  <2> QED
    BY <1>1, <2>1, <2>2, <2>5 DEF Clock!IInv, Clock!TypeOK, Clock!TimeKept, Clock!LessThanAStepLeft
<1>5. CASE Clock!Finish
  <2>1. stepping' = FALSE /\ updates' = 0 /\ budget' = 0
        /\ accum' = IF accum >= UpdateTimestep THEN 0 ELSE accum
    BY <1>5 DEF Clock!Finish
  <2>2. accum' \in Nat /\ accum' < UpdateTimestep
    BY <1>1, <2>1
  <2>3. updates' \in 0 .. MaxUpdatesPerFrame /\ budget' \in Nat
    BY <1>1, <2>1
  <2>4. ~stepping' /\ stepping' \in BOOLEAN
    BY <2>1, Zenon
  <2> QED
    BY <2>2, <2>3, <2>4, Zenon DEF Clock!IInv, Clock!TypeOK, Clock!TimeKept, Clock!LessThanAStepLeft
<1>6. CASE UNCHANGED clock
  BY <1>6 DEF clock, Clock!IInv, Clock!TypeOK, Clock!TimeKept, Clock!LessThanAStepLeft
<1> QED
  BY <1>2, <1>3, <1>4, <1>5, <1>6

LEMMA FrameStepsClock ==
    ASSUME [OnFrame]_allVars
    PROVE  \/ Clock!SetDefaults
           \/ \E deltaTime \in Nat : Clock!OnUpdate(deltaTime)
           \/ Clock!StepWorld
           \/ Clock!Finish
           \/ UNCHANGED clock
<1>1. CASE BeginFrame
  BY <1>1, DeltaTimesAssumption DEF BeginFrame
<1>2. CASE UpdateSystems
  BY <1>2 DEF UpdateSystems
<1>3. CASE EndOnUpdate \/ BeginRender \/ Poll \/ OnWindowResize \/ OnWindowClose \/ OnInput
           \/ EndOnFrame \/ Closed \/ UNCHANGED allVars
  <2>1. UNCHANGED clock
    BY <1>3 DEF EndOnUpdate, BeginRender, Poll, OnWindowResize, OnWindowClose, OnInput, EndOnFrame,
                Closed, allVars
  <2> QED
    BY <2>1
<1> QED
  BY <1>1, <1>2, <1>3, Zenon DEF OnFrame

THEOREM ClockInvariance == Run => []Clock!IInv
<1>1. OnInit => Clock!IInv
  <2> SUFFICES ASSUME OnInit
               PROVE  Clock!IInv
    OBVIOUS
  <2>1. accum = 0 /\ stepping = FALSE /\ updates = 0 /\ budget = 0
    BY DEF OnInit, Clock!Init
  <2>2. UpdateTimestep \in Nat \ {0} /\ MaxUpdatesPerFrame \in Nat \ {0}
    BY ClockAssumption DEF Clock!Parameters
  <2>3. accum \in Nat /\ accum < UpdateTimestep /\ updates \in 0 .. MaxUpdatesPerFrame /\ budget \in Nat
    BY <2>1, <2>2
  <2>4. ~stepping /\ stepping \in BOOLEAN
    BY <2>1, Zenon
  <2> QED
    BY <2>3, <2>4, Zenon DEF Clock!IInv, Clock!TypeOK, Clock!TimeKept, Clock!LessThanAStepLeft
<1>2. Clock!IInv /\ [OnFrame]_allVars => Clock!IInv'
  BY FrameStepsClock, ClockKeepsIInv, ClockAssumption
<1> QED
  BY <1>1, <1>2, PTL DEF Run

(* The steps of a frame and the time it keeps are the time it had, but for what is more *)
(* than the loop may do.                                                                *)
THEOREM ClockKeepsPace == Run => KeepsPace
<1> DEFINE lost == budget - (updates * UpdateTimestep + accum')
           Pace == stepping /\ ~stepping' =>
                       /\ accum' < UpdateTimestep
                       /\ lost >= 0
                       /\ lost > 0 => budget >= (MaxUpdatesPerFrame + 1) * UpdateTimestep
<1>1. Clock!IInv /\ [OnFrame]_allVars => [Pace]_(Clock!vars)
  <2> SUFFICES ASSUME Clock!IInv, [OnFrame]_allVars, stepping, ~stepping'
               PROVE  Pace
    OBVIOUS
  <2>1. Clock!Finish
    BY FrameStepsClock DEF Clock!SetDefaults, Clock!OnUpdate, Clock!StepWorld, clock
  <2>2. /\ accum \in Nat /\ updates \in Nat /\ budget \in Nat /\ updates <= MaxUpdatesPerFrame
        /\ UpdateTimestep \in Nat \ {0} /\ MaxUpdatesPerFrame \in Nat \ {0}
    BY ClockAssumption DEF Clock!IInv, Clock!TypeOK, Clock!Parameters
  <2>3. /\ accum' = IF accum >= UpdateTimestep THEN 0 ELSE accum
        /\ accum >= UpdateTimestep => ~(updates < MaxUpdatesPerFrame)
    BY <2>1 DEF Clock!Finish, Clock!MoreUpdates
  <2>4. updates * UpdateTimestep + accum = budget
    BY DEF Clock!IInv, Clock!TimeKept
  <2>5. CASE accum >= UpdateTimestep
    <3>1. accum' = 0 /\ updates = MaxUpdatesPerFrame
      BY <2>2, <2>3, <2>5
    <3>2. (MaxUpdatesPerFrame + 1) * UpdateTimestep = updates * UpdateTimestep + UpdateTimestep
      BY <2>2, <3>1, StepTrades
    <3>3. updates * UpdateTimestep \in Int
      BY <2>2
    <3> QED
      BY <2>2, <2>4, <2>5, <3>1, <3>2, <3>3
  <2>6. CASE ~(accum >= UpdateTimestep)
    <3>1. accum' = accum /\ accum < UpdateTimestep
      BY <2>2, <2>3, <2>6
    <3>2. updates * UpdateTimestep \in Int
      BY <2>2
    <3>3. lost = 0
      BY <2>2, <2>4, <3>1, <3>2
    <3> QED
      BY <2>2, <3>1, <3>3
  <2> QED
    BY <2>5, <2>6
<1> QED
  BY <1>1, ClockInvariance, PTL DEF Run, KeepsPace, Clock!KeepsPace

-----------------------------------------------------------------------------
(* The types of the whole loop. *)

LoopInv ==
    /\ state \in {"Running", "Closing"}
    /\ stepping => updated /\ phase = "update"

LEMMA LoopInvariance == Run => []LoopInv
<1>1. OnInit => LoopInv
  BY DEF OnInit, Clock!Init, LoopInv
<1>2. LoopInv /\ [OnFrame]_allVars => LoopInv'
  <2> SUFFICES ASSUME LoopInv, [OnFrame]_allVars
               PROVE  LoopInv'
    OBVIOUS
  <2>1. CASE BeginFrame
    BY <2>1 DEF BeginFrame, LoopInv, targets
  <2>2. CASE UpdateSystems
    BY <2>2 DEF UpdateSystems, LoopInv, targets, loop, Clock!StepWorld, Clock!Finish
  <2>3. CASE EndOnUpdate
    BY <2>3 DEF EndOnUpdate, LoopInv, loop, clock
  <2>4. CASE BeginRender
    BY <2>4 DEF BeginRender, LoopInv, loop, clock, Acquire, AcquireOutOfDate
  <2>5. CASE Poll
    BY <2>5 DEF Poll, LoopInv, loop, clock, SkipRender, Draw
  <2>6. CASE OnWindowResize
    BY <2>6 DEF OnWindowResize, LoopInv, loop, clock, Resize, Minimise
  <2>7. CASE OnWindowClose
    BY <2>7 DEF OnWindowClose, LoopInv, targets, clock
  <2>8. CASE OnInput
    BY <2>8 DEF OnInput, LoopInv, targets, loop, clock
  <2>9. CASE EndOnFrame
    BY <2>9 DEF EndOnFrame, LoopInv, clock, EndFrame
  <2>10. CASE Closed \/ UNCHANGED allVars
    BY <2>10 DEF Closed, LoopInv, allVars, targets, loop, clock
  <2> QED
    BY <2>1, <2>2, <2>3, <2>4, <2>5, <2>6, <2>7, <2>8, <2>9, <2>10, Zenon DEF OnFrame
<1> QED
  BY <1>1, <1>2, PTL DEF Run

(* The parts are of their types in every frame, and the clock's loop ends before the *)
(* frame is swept and drawn.                                                         *)
THEOREM FrameTypes == Run => []AllTypesOK
<1>1. IInv /\ InputInv /\ Clock!IInv /\ LoopInv => AllTypesOK
  BY Zenon DEF IInv, InputInv, Clock!IInv, LoopInv, AllTypesOK
<1> QED
  BY <1>1, FrameImplementsTargets, Invariance, InputInvariance, ClockInvariance, LoopInvariance, PTL

(* What the framebuffers promise of their own loop holds in the whole one. *)
THEOREM FrameKeepsTargets ==
    Run => [](SizesAgree /\ HeldIsCached /\ SweptCacheIsHeld /\ StaleOnlyIfReturned)
<1>1. IInv => SizesAgree /\ HeldIsCached /\ SweptCacheIsHeld /\ StaleOnlyIfReturned
  BY DEF IInv
<1> QED
  BY <1>1, FrameImplementsTargets, Invariance, PTL
=============================================================================
