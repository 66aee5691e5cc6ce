--------------------------- MODULE RenderTargets ---------------------------
(***************************************************************************)
(* What the renderers of a window draw to: the framebuffers they hold, the *)
(* cache of Graphics/API/Framebuffer.cpp they get them from, and the       *)
(* images behind, which a resize of the window destroys and makes again.   *)
(*                                                                         *)
(* The key of the cache holds sizes and addresses of textures.  A texture  *)
(* of the GBuffer keeps its address when its image is made again, and a    *)
(* texture of a new swapchain may get the address of an old one: a key     *)
(* does not tell images apart.  A framebuffer is therefore its key and the *)
(* attachments whose image was destroyed since it was made ("gone").       *)
(*                                                                         *)
(* This is the game's window on Vulkan: renderers that draw to the screen. *)
(* The textures of the swapchain are made and destroyed together, and one  *)
(* stands for all of them.  Widths stand for sizes.                        *)
(***************************************************************************)
EXTENDS Naturals, FiniteSets

CONSTANTS
    Renderers,   \* the renderers that a resize event reaches
    Layout,      \* what a renderer draws to: its render pass and attachments
    Sizes,       \* the sizes of a window that is not minimised
    Addresses,   \* where the textures of a swapchain are allocated
    MaxResizes   \* bound: the resize events one call of Window::OnUpdate brings

Textures == {"screen", "gbuffer", "depth"}

NoAddress == "no screen"

ASSUME RenderersAssumption ==
    /\ IsFiniteSet(Renderers)
    /\ \A r \in Renderers : Layout[r].textures \subseteq Textures
ASSUME SizesAssumption == Sizes # {} /\ Sizes \subseteq Nat \ {0}
ASSUME AddressesAssumption == Addresses # {} /\ NoAddress \notin Addresses
ASSUME MaxResizesAssumption == MaxResizes \in Nat

VARIABLES
    phase,         \* where OnFrame is
    minimized,     \* m_Minimized
    gbuffer,       \* the size of the GBuffer's textures
    surface,       \* VKRenderer's m_Width, and the address of the screen's texture
    cache,         \* m_FramebufferCache: the entries that are not null
    framebuffers,  \* m_Framebuffers of each renderer
    resizes,       \* events of the current Window::OnUpdate
    \* History: the sizes that renderers had since the last sweep, the one of them
    \* that the last resize came back to, if any, and whether the swapchain was made
    \* again by Begin since then.
    seen, returned, outOfDate

vars == <<phase, minimized, gbuffer, surface, cache, framebuffers, resizes,
          seen, returned, outOfDate>>

Layouts == {Layout[r] : r \in Renderers}

Keys == [width : Sizes \cup {0}, layout : Layouts, screen : Addresses \cup {NoAddress}]

-----------------------------------------------------------------------------

(* What CreateFramebuffers passes to Get, and Get hashes. *)
FramebufferInfo(r, width, address) ==
    [width |-> width,
     layout |-> Layout[r],
     screen |-> IF "screen" \in Layout[r].textures THEN address ELSE NoAddress]

(* The keys of the framebuffers renderers hold, the renderers that hold one, and *)
(* its Counter's count: its holders, and the cache.                              *)
Held == {framebuffers[r].key : r \in Renderers}

HolderCount(key) == Cardinality({r \in Renderers : framebuffers[r].key = key})

\* Faulty: Get leaves a count behind.
CountLeaked(key) == 2 + HolderCount(key)

ReferenceCount(key) == 1 + HolderCount(key)

(* What of a framebuffer is gone once the images of "textures" are destroyed. *)
Gone(gone, key, textures) == gone \cup (textures \cap key.layout.textures)

Destroy(cached, textures) ==
    [key \in DOMAIN cached |-> Gone(cached[key], key, textures)]

(* Framebuffer::Get: the entry, or a framebuffer made from the images there are. *)
Get(cached, key) == IF key \in DOMAIN cached THEN cached[key] ELSE {}

(* RenderGraph::OnwindowResizeEvent: every renderer drops its framebuffers, takes *)
(* the size and gets framebuffers for it, while the cache keeps the old ones.     *)
RenderersOnResize(width, address, cached) ==
    LET Info(r) == FramebufferInfo(r, width, address)
    IN  /\ cache' = [key \in DOMAIN cached \cup {Info(r) : r \in Renderers} |->
                        Get(cached, key)]
        /\ framebuffers' = [r \in Renderers |->
                               [key |-> Info(r), gone |-> Get(cached, Info(r))]]

-----------------------------------------------------------------------------

(* Application::Init: the window has a size, and each renderer gets its framebuffers. *)
Init ==
    \E width \in Sizes, address \in Addresses :
        LET Info(r) == FramebufferInfo(r, width, address)
        IN  /\ phase = "update"
            /\ minimized = FALSE
            /\ gbuffer = width
            /\ surface = [size |-> width, at |-> address]
            /\ cache = [key \in {Info(r) : r \in Renderers} |-> {}]
            /\ framebuffers = [r \in Renderers |-> [key |-> Info(r), gone |-> {}]]
            /\ resizes = 0
            /\ seen = {width}
            /\ returned = {}
            /\ outOfDate = FALSE

\* Faulty: this frame does not sweep (Application.cpp:326 asks "every few frames instead?").
UpdateUnswept ==
    /\ phase = "update"
    /\ phase' = "render"
    /\ seen' = {key.width : key \in Held}
    /\ UNCHANGED <<minimized, gbuffer, surface, cache, framebuffers, resizes,
                   returned, outOfDate>>

(* The end of Application::OnUpdate: DeleteUnusedCache drops what only the cache holds. *)
Update ==
    /\ phase = "update"
    /\ phase' = "render"
    /\ cache' = [key \in {k \in DOMAIN cache : ReferenceCount(k) # 1} |-> cache[key]]
    /\ seen' = {key.width : key \in Held}
    /\ UNCHANGED <<minimized, gbuffer, surface, framebuffers, resizes, returned, outOfDate>>

(* OnFrame renders nothing in a minimised window. *)
SkipRender ==
    /\ phase = "render"
    /\ minimized
    /\ phase' = "poll"
    /\ UNCHANGED <<minimized, gbuffer, surface, cache, framebuffers, resizes,
                   seen, returned, outOfDate>>

(* VKRenderer::Begin, when AcquireNextImage gives an image. *)
Acquire ==
    /\ phase = "render"
    /\ ~minimized
    /\ phase' = "draw"
    /\ UNCHANGED <<minimized, gbuffer, surface, cache, framebuffers, resizes,
                   seen, returned, outOfDate>>

(* VKRenderer::Begin, when the swapchain is out of date: it is made again, of the *)
(* size it had, and the frame goes on with the framebuffers there are.            *)
AcquireOutOfDate(address) ==
    /\ phase = "render"
    /\ ~minimized
    /\ phase' = "draw"
    /\ surface' = [size |-> surface.size, at |-> address]
    /\ cache' = Destroy(cache, {"screen"})
    /\ framebuffers' =
          [r \in Renderers |->
              LET held == framebuffers[r]
              IN  [key |-> held.key, gone |-> Gone(held.gone, held.key, {"screen"})]]
    /\ outOfDate' = TRUE
    /\ UNCHANGED <<minimized, gbuffer, resizes, seen, returned>>

(* RenderGraph::OnRender and Present. *)
Draw ==
    /\ phase = "draw"
    /\ phase' = "poll"
    /\ UNCHANGED <<minimized, gbuffer, surface, cache, framebuffers, resizes,
                   seen, returned, outOfDate>>

(* Application::OnEvent of a resize to a size that is not zero: OnWindowResize makes *)
(* the GBuffer's images and the swapchain again, then the renderers get the event.   *)
Resize(width, address) ==
    /\ phase = "poll"
    /\ resizes < MaxResizes
    /\ minimized' = FALSE
    /\ gbuffer' = width
    /\ surface' = [size |-> width, at |-> address]
    /\ RenderersOnResize(width, address, Destroy(cache, Textures))
    /\ resizes' = resizes + 1
    /\ seen' = seen \cup {width}
    /\ returned' = {width} \cap seen
    /\ outOfDate' = FALSE
    /\ UNCHANGED phase

\* Faulty: the GBuffer takes the size before the early return.
MinimiseGBuffer ==
    /\ phase = "poll"
    /\ resizes < MaxResizes
    /\ minimized' = TRUE
    /\ gbuffer' = 0
    /\ RenderersOnResize(0, surface.at, Destroy(cache, {"gbuffer", "depth"}))
    /\ resizes' = resizes + 1
    /\ seen' = seen \cup {0}
    /\ returned' = {0} \cap seen
    /\ outOfDate' = FALSE
    /\ UNCHANGED <<phase, surface>>

\* Faulty: the early return forgets m_Minimized.
MinimiseUnmarked ==
    /\ phase = "poll"
    /\ resizes < MaxResizes
    /\ RenderersOnResize(0, surface.at, cache)
    /\ resizes' = resizes + 1
    /\ seen' = seen \cup {0}
    /\ returned' = {0} \cap seen
    /\ outOfDate' = FALSE
    /\ UNCHANGED <<phase, minimized, gbuffer, surface>>

(* The same of a resize to zero: OnWindowResize returns early, and the event goes *)
(* on to the renderers.                                                           *)
Minimise ==
    /\ phase = "poll"
    /\ resizes < MaxResizes
    /\ minimized' = TRUE
    /\ RenderersOnResize(0, surface.at, cache)
    /\ resizes' = resizes + 1
    /\ seen' = seen \cup {0}
    /\ returned' = {0} \cap seen
    /\ outOfDate' = FALSE
    /\ UNCHANGED <<phase, gbuffer, surface>>

(* Window::OnUpdate returns, and OnFrame is called again. *)
EndFrame ==
    /\ phase = "poll"
    /\ phase' = "update"
    /\ resizes' = 0
    /\ UNCHANGED <<minimized, gbuffer, surface, cache, framebuffers,
                   seen, returned, outOfDate>>

Next ==
    \/ Update
    \/ SkipRender
    \/ Acquire
    \/ \E address \in Addresses : AcquireOutOfDate(address)
    \/ Draw
    \/ \E width \in Sizes, address \in Addresses : Resize(width, address)
    \/ Minimise
    \/ EndFrame

Spec == Init /\ [][Next]_vars

-----------------------------------------------------------------------------

TypeOK ==
    /\ phase \in {"update", "render", "draw", "poll"}
    /\ minimized \in BOOLEAN
    /\ gbuffer \in Sizes
    /\ surface \in [size : Sizes, at : Addresses]
    /\ DOMAIN cache \subseteq Keys
    /\ \A key \in DOMAIN cache : cache[key] \subseteq Textures
    /\ framebuffers \in [Renderers -> [key : Keys, gone : SUBSET Textures]]
    /\ resizes \in 0 .. MaxResizes
    /\ seen \subseteq Sizes \cup {0}
    /\ returned \subseteq Sizes \cup {0}
    /\ outOfDate \in BOOLEAN

(* The three parts that keep a size of their own (the renderers, the GBuffer and *)
(* the swapchain) agree whenever the window is not minimised, after any order of *)
(* resizes, minimising and swapchains out of date: the renderers take the size   *)
(* zero that the other two refuse.                                               *)
SizesAgree ==
    ~minimized => /\ gbuffer = surface.size
                  /\ \A r \in Renderers : framebuffers[r].key.width = gbuffer

(* What a renderer holds is in the cache under its key, so the next Get of that *)
(* key shares it: DeleteUnusedCache never drops what is held, and a key never   *)
(* has two framebuffers.                                                        *)
HeldIsCached ==
    \A r \in Renderers :
        LET held == framebuffers[r]
        IN  held.key \in DOMAIN cache /\ cache[held.key] = held.gone

(* What is not held lives until the next sweep and no longer: the framebuffers of *)
(* the sizes a window had do not pile up.                                         *)
SweptCacheIsHeld == phase = "render" => DOMAIN cache = Held

(* A renderer draws to images that were destroyed only when the window came back, *)
(* within one call of Window::OnUpdate, to a size it had since the last sweep, or *)
(* when Begin made the swapchain again.  In every other order of events a resize  *)
(* gives each renderer framebuffers of the images it made.                        *)
StaleOnlyIfReturned ==
    \A r \in Renderers :
        framebuffers[r].gone # {} =>
            returned # {} \/ (outOfDate /\ framebuffers[r].gone = {"screen"})

(* What makes the others inductive: a framebuffer in the cache has a width that *)
(* the renderers had since the last sweep.                                      *)
KeysSeen == \A key \in DOMAIN cache : key.width \in seen

IInv ==
    /\ TypeOK
    /\ SizesAgree
    /\ HeldIsCached
    /\ SweptCacheIsHeld
    /\ StaleOnlyIfReturned
    /\ KeysSeen
=============================================================================
