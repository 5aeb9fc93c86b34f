--------------------------- MODULE MCUnionQuery ---------------------------
(* Three items over a table of two columns, one to a bundle index: a and b *)
(* collide at both of their locations, c has only one of them, so that all *)
(* three together cannot be hashed.                                        *)
EXTENDS UnionQuery

CONSTANTS a, b, c

MCItem == {a, b, c}
MCLoc == [x \in MCItem |-> IF x = c THEN {1} ELSE {0, 1}]

(* Two items over a table of four columns, two to a bundle index.          *)
MCItemWide == {a, b}
MCLocWide == [x \in MCItemWide |-> IF x = a THEN {0, 3} ELSE {1, 3}]
=============================================================================
