----------------------------- MODULE MCConnPool -----------------------------
(***************************************************************************)
(* ConnPool on small instances, and the mapping under which it implements  *)
(* ConnLifecycle.                                                          *)
(***************************************************************************)
EXTENDS ConnPool, TLC

\* Connections, and with them sessions and top-up tasks, are interchangeable.
Symmetry == Permutations(Conns) \cup Permutations(Sessions)
            \cup Permutations(OneOffs)
=============================================================================
