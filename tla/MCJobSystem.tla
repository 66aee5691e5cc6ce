---------------------------- MODULE MCJobSystem -----------------------------
(***************************************************************************)
(* The job system for TLC: 8-value integers in place of uint32_t, so that  *)
(* one of the dispatched shapes, <<7, 3>>, makes the rounding sum wrap.    *)
(***************************************************************************)
EXTENDS JobSystem

MCShapes == {<<3, 2>>, <<3, 1>>, <<7, 3>>}
=============================================================================
