------------------------------- MODULE MCCdda -------------------------------
(* The requests of the runs: of one block and of three. *)
EXTENDS Cdda

OneBlock    == {<<0, 1>>}
ThreeBlocks == {<<0, 3>>}
=============================================================================
