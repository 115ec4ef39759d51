-------------------------- MODULE SubscriptionPromise ------------------------
(***************************************************************************)
(* What a subscription keeps, however requests, sweeps, admins and         *)
(* restarts interleave.                                                    *)
(***************************************************************************)
EXTENDS Subscriptions

Batches == UNION {[N -> Ends] : N \in SUBSET Subs}

Job ==
  {Idle}
  \cup [at : {"create"}, plan : Plans]
  \cup [at : {"debit", "request"}, sub : Subs, end : Ends, renews : BOOLEAN, rest : Batches]
  \cup [at : {"verify"}, sub : Subs, end : Ends]
  \cup [at : {"mark"}, sub : Subs, rest : Batches]
  \cup [at : {"activate"}, sub : Subs, end : Ends, rest : Batches]
  \cup [at : {"access", "extend"}, end : Ends, rest : Batches]
  \cup [at : {"sweep"}, rest : Batches]
  \cup [at : {"cancel", "supersede"}, sub : Subs]
  \cup [at : {"change"}, sub : Subs, plan : Plans]
  \cup [at : {"window"}, end : Ends]

TypeOK ==
  /\ sub \in [Subs -> Sub]
  /\ payment \in [Subs -> Payment]
  /\ accessUntil \in {0} \cup Ends
  /\ balance \in Nat
  /\ now \in 0..Horizon
  /\ job \in [Slots -> Job]
  /\ paid \in [Purchase -> Nat]
  /\ windows \subseteq Ends
  /\ late \subseteq Subs
  /\ restarts \in 0..MaxRestarts

PaidFor(n, e) == \E p \in Purchase : p.sub = n /\ p.end = e /\ paid[p] > 0

(* A subscription that reads ACTIVE is paid through its next billing date, *)
(* once no handler is at work on it: neither a claim that no collection    *)
(* followed nor a request that nobody paid leaves it ACTIVE.  A restart    *)
(* between the claim and the collection does, by the code's own account.   *)
AtWork(n) == \E s \in Slots : "sub" \in DOMAIN job[s] /\ job[s].sub = n
ActiveIsPaid ==
  restarts = 0 =>
    \A n \in With({"ACTIVE"}) : AtWork(n) \/ PaidFor(n, sub[n].next)

(* Access ends where a period that was paid for ends, or a window granted  *)
(* for a top-up, as long as no boot has read a claimed row for a paid one. *)
AccessIsPaid ==
  restarts = 0 =>
    \/ accessUntil \in {0} \cup windows
    \/ \E n \in Subs : PaidFor(n, accessUntil)

(* The sweep's claim means that a second pass "cannot charge the same      *)
(* period twice": nobody pays twice for a period, by the wallet or by UPI, *)
(* whatever overlaps, unless a late verification or activation brought an  *)
(* older period back to the row.                                           *)
Twice(n) ==
  \E p, q \in Purchase :
    /\ p.sub = n /\ q.sub = n /\ p.end = q.end /\ paid[p] > 0 /\ paid[q] > 0
    /\ p # q \/ paid[p] > 1
PeriodPaidOnce == \A n \in Subs \ late : ~Twice(n)

-----------------------------------------------------------------------------
(* A handler that runs goes on, and the hourly sweep fires although the    *)
(* process is busy (Slots) again and again.                                *)
Fairness ==
  /\ \A s \in Slots : WF_vars(Step(s))
  /\ SF_vars(\E s \in Slots : Sweep(s))

FairSpec == Spec /\ Fairness

(* A subscription that is due does not stay due: the sweep collects it,    *)
(* also after a payment request was rejected or superseded, or a request   *)
(* for it is open and a person is involved, or its user leaves.            *)
DueIsCollected == \A n \in Subs : Due(n) ~> ~Due(n) \/ Awaited(n)

(* "Money taken, and then asked to pay again" does not happen: once a      *)
(* period is paid for, the access window reaches its end, whatever request *)
(* or sweep runs beside the activation, unless the user cancels the        *)
(* subscription or a restart interrupts.                                   *)
PaidPending(n, e) == \E s \in Slots : At(s, "activate") /\ job[s].sub = n /\ job[s].end = e
PaidOpensAccess ==
  \A n \in Subs, e \in Ends :
    PaidPending(n, e) ~> accessUntil >= e \/ sub[n].status = "CUSTOMER_CANCELLED" \/ restarts > 0
=============================================================================
