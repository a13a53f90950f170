-------------------------- MODULE MCDistributedIso --------------------------
(***************************************************************************)
(* All small traces and patterns for DistributedIso.                       *)
(***************************************************************************)
EXTENDS DistributedIso, SmallTrees
=============================================================================
