--------------------------- MODULE MCWalletPromise --------------------------
(* Instances of WalletPromise for TLC.                                     *)
EXTENDS WalletPromise, TLC

(* Bound: payouts, calls, top-ups and restarts in one behaviour.           *)
FewEntries ==
  Cardinality(placed \cup {w \in Withdrawals : withdrawal[w] # "NONE"}
              \cup {o \in Orders : order[o] # "NONE"}) + crashes <= 3

Sym ==
  Permutations(Slots) \cup Permutations(Withdrawals)
  \cup Permutations(Calls) \cup Permutations(Orders)
=============================================================================
