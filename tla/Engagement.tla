----------------------------- MODULE Engagement -----------------------------
(***************************************************************************)
(* What a booking promises its two parties, without handlers, columns or   *)
(* timers: an offer is taken by at most one partner, who has no other job  *)
(* under way; the job advances code by code and is settled once; whatever  *)
(* is closed before that stays closed, and only then is money returned.    *)
(***************************************************************************)
EXTENDS Naturals

CONSTANTS Bookings, Partners, NoPartner

VARIABLES
  stage,    \* stage[b]: how far the engagement is
  worker,   \* worker[b]: the partner it was given to
  payouts,  \* payouts[b]: how often the partner was paid
  returned  \* bookings whose money was given back

promise == <<stage, worker, payouts, returned>>

PromiseInit ==
  /\ stage = [b \in Bookings |-> "none"]
  /\ worker = [b \in Bookings |-> NoPartner]
  /\ payouts = [b \in Bookings |-> 0]
  /\ returned = {}

Working(p) ==
  \E b \in Bookings : worker[b] = p /\ stage[b] \in {"taken", "coded", "started"}

Advance(b, from, to) ==
  /\ stage[b] = from
  /\ stage' = [stage EXCEPT ![b] = to]

Offer(b) ==
  /\ Advance(b, "none", "offered")
  /\ UNCHANGED <<worker, payouts, returned>>

(* The best match is written into the row without being asked. *)
Reserve(b, p) ==
  /\ Advance(b, "offered", "reserved")
  /\ worker' = [worker EXCEPT ![b] = p]
  /\ UNCHANGED <<payouts, returned>>

Take(b, p) ==
  /\ ~Working(p)
  /\ Advance(b, "offered", "taken")
  /\ worker' = [worker EXCEPT ![b] = p]
  /\ UNCHANGED <<payouts, returned>>

Proceed(b) ==
  /\ \/ Advance(b, "taken", "coded")
     \/ Advance(b, "coded", "started")
     \/ Advance(b, "started", "finishing")
  /\ UNCHANGED <<worker, payouts, returned>>

(* A job the user settles in cash pays nothing here. *)
Settle(b) ==
  /\ Advance(b, "finishing", "settled")
  /\ payouts' \in {payouts, [payouts EXCEPT ![b] = @ + 1]}
  /\ UNCHANGED <<worker, returned>>

(* One sweep may close several offers. *)
Close ==
  /\ \E Ended \in SUBSET {b \in Bookings : stage[b] # "settled"} :
       stage' = [b \in Bookings |-> IF b \in Ended THEN "closed" ELSE stage[b]]
  /\ UNCHANGED <<worker, payouts, returned>>

Return(b) ==
  /\ stage[b] = "closed"
  /\ returned' = returned \cup {b}
  /\ UNCHANGED <<stage, worker, payouts>>

PromiseNext ==
  \/ Close
  \/ \E b \in Bookings :
       \/ Offer(b) \/ Proceed(b) \/ Settle(b) \/ Return(b)
       \/ \E p \in Partners : Reserve(b, p) \/ Take(b, p)

Promise == PromiseInit /\ [][PromiseNext]_promise
=============================================================================
