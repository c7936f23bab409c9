------------------------------ MODULE MCLeader ------------------------------
(***************************************************************************)
(* Leader on small instances.                                              *)
(***************************************************************************)
EXTENDS Leader
=============================================================================
