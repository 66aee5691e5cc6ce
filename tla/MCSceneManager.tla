--------------------------- MODULE MCSceneManager ---------------------------
(* Two scene files, and sessions of up to MaxScenes scenes.                *)
(* What Stop brings back is checked with a content that a file keeps, one  *)
(* of which it does not keep the constraint, and the project of two scenes *)
(* (9 million states).  The other properties do not tell what is in a file *)
(* from nothing: one content that no file keeps is enough for them.        *)
EXTENDS SceneManager

CONSTANTS something, constrained, nothing, none

OneContent == {nothing, something}
NothingKept == [e \in OneContent |-> nothing]

Contents == {nothing, something, constrained}
WithoutConstraints == [e \in Contents |-> IF e = constrained THEN something ELSE e]

OneScene == [Scenes |-> <<"A">>, SceneIndex |-> 0]
TwoScenes == [Scenes |-> <<"A", "NewScene">>, SceneIndex |-> 1]
OneOrTwoScenes == {OneScene, TwoScenes}
OnlyTwoScenes == {TwoScenes}
=============================================================================
