---------------------------- MODULE MCSectionPages ----------------------------
(***************************************************************************)
(* A small instance of SectionPages: three data sections of up to three    *)
(* pages, in two orders, and no descriptors, blank ones (a new file) or    *)
(* those of a file that was read before.                                   *)
(***************************************************************************)
EXTENDS SectionPages

MCStreamOrder == <<"summary", "objects", "handles">>
MCMapOrder == <<"handles", "summary", "objects">>
MCPageSize ==
  [t \in Types |-> IF t = "objects" THEN 2
                  ELSE IF t = "handles" THEN 3 ELSE 4]
MCLeftover ==
  {<<>>,
   [i \in 1 .. 3 |-> [type |-> "objects", number |-> 0, address |-> 0,
                      size |-> 0]],
   <<[type |-> "handles", number |-> 2, address |-> 9, size |-> 4],
     [type |-> "summary", number |-> 1, address |-> 5, size |-> 4]>>}
===============================================================================
