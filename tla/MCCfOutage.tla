----------------------------- MODULE MCCfOutage -----------------------------
(* CfOutage on a small instance.                                           *)
EXTENDS CfOutage, TLC

CONSTANTS x1, x2, x3, x4, x5

ThreeToFive ==
    {<<x1, x2, x3>>, <<x1, x2, x3, x4>>, <<x1, x2, x3, x4, x5>>}
=============================================================================
