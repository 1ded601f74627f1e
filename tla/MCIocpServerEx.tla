--------------------------- MODULE MCIocpServerEx ---------------------------
(* Instances of IocpServerEx for TLC. *)
EXTENDS IocpServerEx

CONSTANTS c1, c2, l0

Symmetry == {[x \in {c1, c2} |-> x], [x \in {c1, c2} |-> IF x = c1 THEN c2 ELSE c1]}
=============================================================================
