--------------------------- MODULE MCBookingSystem --------------------------
(* Instances of BookingSystem, with the promise it keeps under every       *)
(* overlap, for TLC.                                                       *)
EXTENDS BookingPromise, TLC

Sym == Permutations(Partners) \cup Permutations(Claims) \cup Permutations(Slots)
=============================================================================
