----------------------------- MODULE MCPhysics -----------------------------
(***************************************************************************)
(* A plane seen from the side, a quadtree: a floor, a plank that may lie   *)
(* or stand, a ball over the floor or in it, and a body that has no shape. *)
(***************************************************************************)
EXTENDS Physics

Place(x, y) == [a \in {"x", "y"} |-> IF a = "x" THEN x ELSE y]

Things == {"floor", "plank", "ball", "ghost"}

Places == [b \in Things |->
    CASE b = "floor" -> {Place(0, 0)}
      [] b = "plank" -> {Place(-4, 3), Place(2, 2)}
      [] b = "ball"  -> {Place(0, 4), Place(6, 2)}
      [] OTHER        -> {Place(0, 3)}]

Turns == [b \in Things |-> IF b = "plank" THEN {"lying", "standing"} ELSE {"lying"}]

Extents == [b \in Things |->
    CASE b = "floor" -> [o \in {"lying"} |-> Place(8, 1)]
      [] b = "plank" -> [o \in {"lying", "standing"} |->
                            IF o = "lying" THEN Place(4, 1) ELSE Place(1, 4)]
      [] OTHER       -> [o \in {"lying"} |-> Place(2, 2)]]

Quadrants == << {}, {"x"}, {"y"}, {"x", "y"} >>
=============================================================================
