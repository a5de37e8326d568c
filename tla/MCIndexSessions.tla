------------------------- MODULE MCIndexSessions -------------------------
(* Three operations: enough for a cursor to stay open across a later      *)
(* operation and for each early return to be taken with and without a    *)
(* pool and with either write concern.                                    *)
EXTENDS IndexSessions
=============================================================================
