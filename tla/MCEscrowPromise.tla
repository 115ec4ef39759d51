--------------------------- MODULE MCEscrowPromise --------------------------
(* Instances of EscrowPromise for TLC.  Sym is for the safety runs only.   *)
EXTENDS EscrowPromise, TLC

(* No handler looks at what the organizer has: the wallet starts empty.    *)
EmptyPurse == Init /\ balance[Organizer] = 0
EmptyPurseSpec == EmptyPurse /\ [][Next]_vars

Sym == Permutations(Payers) \cup Permutations(Slots)
=============================================================================
