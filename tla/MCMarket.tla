------------------------------ MODULE MCMarket ------------------------------
(***************************************************************************)
(* Market on small instances.                                              *)
(***************************************************************************)
EXTENDS Market
=============================================================================
