---------------------------- MODULE MCDataCache ----------------------------
(***************************************************************************)
(* Small instances of DataCache: one block that is data, and that a wrong  *)
(* path of the instruction side may fetch.                                 *)
(***************************************************************************)
EXTENDS DataCache

TagZero == {[tag |-> 0, index |-> 0]}

=============================================================================
