----------------------------- MODULE MCListing -----------------------------
(* Listing on a small instance: the project that is listed publishes events *)
(* of two types, another one events of one of them.                         *)
EXTENDS Listing

CONSTANTS p1, p2, t1, t2

KindsOf == {<<p1, t1>>, <<p1, t2>>, <<p2, t1>>}

=============================================================================
