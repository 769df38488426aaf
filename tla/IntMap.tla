------------------------------- MODULE IntMap -------------------------------
(***************************************************************************)
(* What the object map of a drawing promises to its callers: a partial map *)
(* from non-null handles to object indices.  hash_set binds a handle, and  *)
(* hash_get answers the last binding, or HASH_NOT_FOUND.  No handle is     *)
(* ever unbound: hash.c has no deletion.                                   *)
(***************************************************************************)
CONSTANTS
  Keys,      (* the handles; the null handle 0 is not one of them *)
  Values,    (* the object indices *)
  NotFound   (* HASH_NOT_FOUND *)

VARIABLES
  map,       (* the value bound to each key, NotFound when there is none *)
  ret        (* the result of the last hash_get *)

vars == <<map, ret>>

TypeOK ==
  /\ map \in [Keys -> Values \cup {NotFound}]
  /\ ret \in Values \cup {NotFound}

Init ==
  /\ map = [k \in Keys |-> NotFound]
  /\ ret = NotFound

Set(k, v) ==
  /\ map' = [map EXCEPT ![k] = v]
  /\ UNCHANGED ret

Get(k) ==
  /\ ret' = map[k]
  /\ UNCHANGED map

(* The null handle is never bound. *)
GetNull ==
  /\ ret' = NotFound
  /\ UNCHANGED map

Next ==
  \/ \E k \in Keys, v \in Values : Set(k, v)
  \/ \E k \in Keys : Get(k)
  \/ GetNull

Spec == Init /\ [][Next]_vars
=============================================================================
