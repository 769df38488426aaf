---------------------------- MODULE MCObjectPool ----------------------------
(***************************************************************************)
(* Small instances of ObjectPool: a pool for one object that is full, and  *)
(* may move, at the second and at the third one; a reference vector that   *)
(* is full at every second reference.                                      *)
(***************************************************************************)
EXTENDS ObjectPool

MCHandles == {1, 2}
=============================================================================
