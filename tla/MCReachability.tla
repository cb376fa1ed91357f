--------------------------- MODULE MCReachability --------------------------
(***************************************************************************)
(* Reachability for TLC.                                                   *)
(***************************************************************************)
EXTENDS Reachability
============================================================================
