------------------------------ MODULE MCKeeper ------------------------------
(***************************************************************************)
(* Keeper on small instances.                                              *)
(***************************************************************************)
EXTENDS Keeper

Mode(backend, feedWaits, strangers) ==
  [backend |-> backend, feedWaits |-> feedWaits, strangers |-> strangers]

\* the mirror in a replay, and the JSON file in a replay, alone and not, and live.
MCModes == {Mode("postgres", TRUE, FALSE), Mode("json", TRUE, FALSE),
            Mode("json", TRUE, TRUE), Mode("json", FALSE, TRUE)}
=============================================================================
