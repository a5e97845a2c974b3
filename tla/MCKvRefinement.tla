--------------------------- MODULE MCKvRefinement ---------------------------
(* The key-value store on two tasks, with two values so that a stale read   *)
(* shows.                                                                   *)
EXTENDS KvRefinement

\* -1 and 1 share chain 1 of 2, so that ABSENT and EMPTY both occur; one of
\* the values is the number that read_kv also uses for ABSENT.
MCKeys == {-1, 1}
MCValues == {-2, 7}
=============================================================================
