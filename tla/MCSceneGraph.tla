---------------------------- MODULE MCSceneGraph ----------------------------
(* The scene graph for TLC.  Entities are interchangeable. *)
EXTENDS SceneGraph, TLC

Symmetry == Permutations(Entity)
=============================================================================
