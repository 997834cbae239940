--------------------------- MODULE MCServiceTimer ---------------------------
(***************************************************************************)
(* The instances of MCService with the refresh timer running.              *)
(***************************************************************************)
EXTENDS MCService, ServiceDocumented
=============================================================================
