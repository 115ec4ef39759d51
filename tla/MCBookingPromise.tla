--------------------------- MODULE MCBookingPromise -------------------------
(* Instances of BookingPromise for TLC.  Sym is for the safety runs only.  *)
EXTENDS BookingPromise, TLC

Sym == Permutations(Partners) \cup Permutations(Bookings)
=============================================================================
