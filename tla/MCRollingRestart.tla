--------------------------- MODULE MCRollingRestart ---------------------------
(* Instances of RollingRestart for TLC. *)
EXTENDS RollingRestart, TLC

ProxySymmetry == Permutations(Proxies)

\* Revisions are only compared with each other. The one in IdleOp is chosen, but
\* nothing reads it between two reconciles.
RevSymmetry == Permutations(Revs)
=============================================================================
