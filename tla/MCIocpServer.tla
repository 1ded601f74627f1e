---------------------------- MODULE MCIocpServer ----------------------------
(* Instances of IocpServer for TLC. *)
EXTENDS IocpServerInv

CONSTANTS c1, c2

Symmetry == {[x \in {c1, c2} |-> x], [x \in {c1, c2} |-> IF x = c1 THEN c2 ELSE c1]}
=============================================================================
