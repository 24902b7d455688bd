---------------------------- MODULE MCProxyPool -----------------------------
(* ProxyPool on a small instance.                                          *)
EXTENDS ProxyPool, TLC

CONSTANTS x1, x2, x3

\* The operator's domain is one of the shared ones, two shared lists overlap,
\* and a fetch may find too few.
AllPools == {<<>>, <<x2>>, <<x1, x2>>, <<x2, x3, x1>>}
BuiltIn == <<x1, x2>>
Lists == {<<x2>>, <<x2, x3, x1>>}
\* Nothing set, with the shared pool on or off; a domain of one's own; and a
\* setting with no valid domain in it.
Written == [own : {<<>>}, set : {FALSE}, auto : BOOLEAN]
           \cup [own : {<<>>, <<x2>>}, set : {TRUE}, auto : {TRUE}]

Symmetry == Permutations(Sessions)
=============================================================================
