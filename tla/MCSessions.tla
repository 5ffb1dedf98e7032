----------------------------- MODULE MCSessions -----------------------------
(* Sessions on a small instance: a laptop that may have two calls in        *)
(* progress, and a phone with one.                                          *)
EXTENDS Sessions, TLC

CONSTANTS laptop, phone, l1, l2, ph1

CallerOf == [c \in {l1, l2, ph1} |-> IF c = ph1 THEN phone ELSE laptop]

Symmetry == Permutations(Users)

=============================================================================
