--------------------------- MODULE MCWindowClients ---------------------------
(* WindowClients on a small instance.  The IDs are interchangeable: no      *)
(* action tells them apart, so their permutations are a symmetry.           *)
EXTENDS WindowClients, TLC

IdSymmetry == Permutations(Deliveries)

=============================================================================
