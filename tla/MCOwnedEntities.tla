-------------------------- MODULE MCOwnedEntities ---------------------------
(***************************************************************************)
(* Small instances of OwnedEntities: the model space and one other block,  *)
(* of another mode.                                                        *)
(***************************************************************************)
EXTENDS OwnedEntities

CONSTANTS ms, b1

MCBlocks == {ms, b1}
=============================================================================
