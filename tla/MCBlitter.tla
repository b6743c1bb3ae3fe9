----------------------------- MODULE MCBlitter ------------------------------
(* Blitter for TLC: a tile memory of 4 x 4 words, filled whole and in parts. *)
EXTENDS Blitter

R(x, y, w, h) == [x |-> x, y |-> y, w |-> w, h |-> h]

\* The whole screen, an inner rectangle, a column, a line, a single word.
MCRects == {R(0, 0, 4, 4), R(1, 1, 2, 2), R(3, 1, 1, 3), R(0, 2, 4, 1), R(3, 3, 1, 1)}
=============================================================================
