---------------------------- MODULE MCScrollback ----------------------------
(* Instances of Scrollback for TLC.                                        *)
EXTENDS Scrollback

\* Positions 3 and 7 fall inside a sequence or a rune.
GroundOf10 == {0, 1, 2, 4, 5, 6, 8, 9, 10}

\* Every position is a boundary: plain ASCII output.
GroundPlain == 0..10
=============================================================================
