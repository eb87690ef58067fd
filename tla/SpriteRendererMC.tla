-------------------------- MODULE SpriteRendererMC --------------------------
(***************************************************************************)
(* Two monitors side by side, three columns each, for TLC, and two pets    *)
(* whose sprites are on one of them, across both, half off the desktop and *)
(* at the origin.                                                          *)
(***************************************************************************)
EXTENDS SpriteRenderer

MCColumns == -1 .. 6
MCBounds == [o \in {1, 2} |-> IF o = 1 THEN 0 .. 2 ELSE 3 .. 5]
MCPictures == {{-1, 0}, {0, 1}, {2, 3}, {4, 5}, {5, 6}}
=============================================================================
