------------------------------ MODULE MCAttach ------------------------------
(* Instances of Attach for TLC.                                            *)
EXTENDS Attach, TLC

ClientSymmetry == Permutations(Clients)

\* The remaining positions are inside an escape sequence or a rune.
GroundOf5 == {0, 1, 3, 4}
GroundOf2 == {0, 2}
=============================================================================
