-------------------------- MODULE MCWorkerCooldown --------------------------
(* WorkerCooldown on a small instance: two Workers of one account.         *)
EXTENDS WorkerCooldown

CONSTANTS s1, s2, acct

Siblings == {s1, s2}
SameAccount == [w \in Siblings |-> acct]
=============================================================================
