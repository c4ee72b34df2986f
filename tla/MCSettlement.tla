---------------------------- MODULE MCSettlement ----------------------------
(* Symmetry is used only where no liveness property is checked. *)
EXTENDS Settlement, TLC

Symmetry == Permutations(Order) \cup Permutations(Txn) \cup
            Permutations(Handler) \cup Permutations(Consumer)

=============================================================================
