------------------------------- MODULE MCStore ------------------------------
(* The instances of Store: the saver, runServer and at most one staff       *)
(* request, which is enough for two flushes to overlap, and two files,      *)
(* which is enough for one flush to fail between them.  The first changes   *)
(* twice, which is enough for an older snapshot to come after a newer one.  *)
EXTENDS Store, Sequences

CONSTANTS h, saver, main_

Changes == <<2, 1>>
=============================================================================
