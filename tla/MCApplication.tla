--------------------------- MODULE MCApplication ---------------------------
(***************************************************************************)
(* The renderers of Application::Init that are on the render graph's list  *)
(* and draw to the window.  The sky box and the 2D renderer have the same  *)
(* render pass and attachments, so they share their framebuffers.  The     *)
(* shadow renderer, whose OnResize is empty, draws to a texture of its     *)
(* own.  The renderers of DebugRenderer, which the render graph hands each *)
(* resize after those of the list, are left out.                           *)
(*                                                                         *)
(* On the desk are a control key, a key with a name but without a code     *)
(* (F13) and one without a name; the last two get the code 0.              *)
(***************************************************************************)
EXTENDS Application, TLC

AllRenderers == {"offscreen", "deferred", "skybox", "renderer2D"}

Targets ==
    [r \in AllRenderers |->
        CASE r = "offscreen" -> [pass |-> "gbuffer", textures |-> {"gbuffer", "depth"}]
          [] r = "deferred"  -> [pass |-> "clear", textures |-> {"screen"}]
          [] OTHER           -> [pass |-> "keep", textures |-> {"screen", "depth"}]]

AddressSymmetry == Permutations(Addresses)

DeskKeys == {"LeftControl", "F13", "unnamed"}
UnnamedKeys == {"unnamed"}

Conversion == [i \in DeskKeys |-> IF i = "LeftControl" THEN i ELSE "0"]
=============================================================================
