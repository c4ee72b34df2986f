----------------------------- MODULE MCSessions -----------------------------
(* Sessions with small sets; emails and requests are interchangeable. *)
EXTENDS Sessions, TLC

Symmetry == Permutations(Email) \cup Permutations(Request)

=============================================================================
