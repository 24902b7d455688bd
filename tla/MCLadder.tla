------------------------------ MODULE MCLadder ------------------------------
(* Ladder on a small instance.                                             *)
EXTENDS Ladder, TLC

CONSTANTS front, alt

\* WRTG_FRONT_DCS=all: the front serves DC2, and redirects DC1.
Fronts == 1 :> front @@ 2 :> front
Defaults == 1 :> alt @@ 2 :> alt
Known == alt :> <<2, FALSE>>
Clients == {<<1, FALSE>>, <<2, TRUE>>}

Symmetry == Permutations(Sessions)
=============================================================================
