------------------------------ MODULE MCCfRace ------------------------------
(* CfRace on a small instance.                                             *)
EXTENDS CfRace, TLC

CONSTANTS x1, x2, x3, plain, media

\* A session with a race behind it, and one on the two domains of it.
Windows == plain :> <<x1, x2, x3>> @@ media :> <<x2, x3>>
Hosts == plain :> 1 @@ media :> 2
=============================================================================
