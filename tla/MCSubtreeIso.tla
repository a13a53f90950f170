---------------------------- MODULE MCSubtreeIso ----------------------------
(***************************************************************************)
(* All small traces and patterns for SubtreeIso.                           *)
(***************************************************************************)
EXTENDS SubtreeIso, SmallTrees
=============================================================================
