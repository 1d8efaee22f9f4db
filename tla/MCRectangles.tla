----------------------------- MODULE MCRectangles -----------------------------
(***************************************************************************)
(* Rectangles for TLC.  No handler tells one colour from another, so states *)
(* that differ by a permutation of the colours are one.                    *)
(***************************************************************************)
EXTENDS Rectangles, TLC

ColourSymmetry == Permutations(Colours)
=============================================================================
