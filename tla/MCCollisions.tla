---------------------------- MODULE MCCollisions ----------------------------
(* Three robots that may leave and come back, except the first; collisions *)
(* between the first and the last in either order, by their managers and   *)
(* by a state's own constraint.  The names "ab" and "c" together are those *)
(* of "a" and "bc".                                                        *)
EXTENDS Collisions

CONSTANTS r, s, t, ab, c, a, bc

MCLoaded == <<r, t, s>>
MCEnds == {<<r, s>>, <<s, r>>}
MCCol == {<<ab, c>>, <<a, bc>>, <<c, ab>>, <<bc, a>>}
MCKeyOf == [x \in Col |-> IF x = <<a, bc>> THEN <<ab, c>> ELSE x]
MCBodies == [x \in RobotName |-> IF x = r THEN {ab, a} ELSE IF x = s THEN {c} ELSE {}]
MCOwnPair == <<r, s>>
MCOwnCol == {<<ab, c>>}
=============================================================================
