------------------------------ MODULE MCIngest ------------------------------
(* Ingest on a small instance: two clients, two webhooks of one project and *)
(* none of the other.                                                       *)
EXTENDS Ingest

CONSTANTS w1, w2, p1

OwnerOf == [w \in {w1, w2} |-> p1]

=============================================================================
