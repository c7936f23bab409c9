------------------------------- MODULE Beats --------------------------------
(***************************************************************************)
(* The beats of the settlement theater, which it stages of a live match    *)
(* and of a recorded one alike: what its feed tells, and how far what it   *)
(* tells lets the staging go.                                              *)
(***************************************************************************)
EXTENDS Integers

CONSTANT NoScore    (* nothing was scored yet                              *)

Watch == 0  Final == 1  Fetch == 2  Cpi == 3  Verified == 4  Payout == 5  Receipt == 6

Empty == [score |-> NoScore, finalised |-> FALSE, settlement |-> FALSE]

\* The furthest beat that a feed allows.
Cap(f) == IF f.settlement THEN Receipt ELSE IF f.finalised THEN Cpi ELSE Watch
=============================================================================
