----------------------- MODULE MCReconciliationPromise ----------------------
(* Instances of ReconciliationPromise for TLC.                             *)
EXTENDS ReconciliationPromise, TLC

OneKey == {<<r>> : r \in References}

Sym == Permutations(Slots) \cup Permutations(References) \cup Permutations(Lines)
=============================================================================
