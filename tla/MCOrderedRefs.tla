---------------------------- MODULE MCOrderedRefs ----------------------------
(***************************************************************************)
(* Small instances of OrderedRefs: an owner, a soft and a hard pointer and *)
(* a relative code; an object with a handle among the others, of a type    *)
(* with relative handles and of one without; an index that is full at      *)
(* every third reference.                                                  *)
(***************************************************************************)
EXTENDS OrderedRefs

MCCodes == {0, 4}
MCAbsrefs == 0 .. 2
MCObjects == {[handle |-> 1, relative |-> FALSE]}
NoObjects == {}
IndexCodes == {0, 5}

(* Nothing but calls of dwg_add_handleref: no caller writes to a reference, *)
(* and none is appended behind the back of the index.                      *)
CallsOnly == Init /\ [][AddsHandleref]_vars
=============================================================================
