------------------------ MODULE MCSubscriptionPromise -----------------------
(* Instances of SubscriptionPromise for TLC.                               *)
EXTENDS SubscriptionPromise, TLC

Sym == Permutations(Slots) \cup Permutations(Plans)
=============================================================================
