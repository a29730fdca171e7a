----------------------------- MODULE MCOrphans -----------------------------
(***************************************************************************)
(* Three group ids: one obeys SIGTERM, one ignores it, one refuses it.       *)
(***************************************************************************)
EXTENDS Orphans

CONSTANTS g1, g2, g3, t1, t2
===========================================================================
