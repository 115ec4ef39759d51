----------------------------- MODULE Subscriptions ---------------------------
(***************************************************************************)
(* The subscriptions of one user: bought and renewed from the wallet, or   *)
(* by a payment request that an admin verifies, and the access window that *)
(* the paid periods open.  A handler is a sequence of database calls with  *)
(* other handlers between them: job[s] is the one in slot s.               *)
(*                                                                         *)
(* Abstracted: every period costs 1 and lasts 1, and is named by its end;  *)
(* money held for calls (WalletSystem); the uniqueness of references       *)
(* (ReferenceClaims); emails, notes, trial and offer prices.               *)
(***************************************************************************)
EXTENDS Integers, FiniteSetsExt

CONSTANTS
  MaxSubs,    \* bound: subscriptions the user creates
  Plans,      \* codes of plans
  Slots,      \* requests and sweeps that may be in flight at once
  Horizon,    \* bound: periods that pass
  MaxMoney,   \* bound: money the user ever has
  MaxWindows, \* bound: access windows granted for top-ups
  MaxRestarts \* bound: restarts of a process

ASSUME SubscriptionAssumption ==
  /\ MaxSubs \in Nat /\ Horizon \in Nat /\ MaxMoney \in Nat
  /\ MaxWindows \in Nat /\ MaxRestarts \in Nat

VARIABLES
  sub,        \* sub[n]: the n-th Subscription row
  payment,    \* payment[n]: its SubscriptionPayment, one row for all its periods
  accessUntil,\* User.accessUntil, 0 when there is none
  balance,    \* Wallet.balance
  now,        \* periods passed
  job,        \* job[s]: the handler running in slot s
  paid,       \* history: paid[p]: how often the purchase p was made
  windows,    \* history: ends of access windows granted for a top-up
  late,       \* history: subscriptions verified or activated for an older period
  restarts    \* restarts so far

vars == <<sub, payment, accessUntil, balance, now, job, paid, windows, late, restarts>>

Subs == 1..MaxSubs
Ends == 1..(Horizon + 1)

SubStatus == {"PENDING", "ACTIVE", "PAST_DUE", "CUSTOMER_CANCELLED"}
NoSub == [status |-> "NONE"]
NoBilling == 0 \* nextBillingAt is null
Sub ==
  {NoSub} \cup [plan : Plans, status : SubStatus, autoRenew : BOOLEAN, next : {NoBilling} \cup Ends]

PaymentStatus == {"VERIFICATION_PENDING", "VERIFIED", "REJECTED", "REQUEST_INFO", "SUPERSEDED"}
NoPayment == [status |-> "NONE"]
Payment == {NoPayment} \cup [status : PaymentStatus, end : Ends]

Purchase == [sub : Subs, end : Ends, by : {"wallet", "upi"}]

Idle == [at |-> "idle"]
At(s, at) == job[s].at = at
Begin(s, j) == job[s] = Idle /\ job' = [job EXCEPT ![s] = j]
Continue(s, j) == job' = [job EXCEPT ![s] = j]
Return(s) == Continue(s, Idle)

(* A collection done, a sweep goes on with the rest of its batch. *)
None == [n \in {} |-> 0]
Resume(s, rest) ==
  Continue(s, IF DOMAIN rest = {} THEN Idle ELSE [at |-> "sweep", rest |-> rest])

Init ==
  /\ sub = [n \in Subs |-> NoSub]
  /\ payment = [n \in Subs |-> NoPayment]
  /\ accessUntil = 0
  /\ balance = 0
  /\ now = 0
  /\ job = [s \in Slots |-> Idle]
  /\ paid = [p \in Purchase |-> 0]
  /\ windows = {}
  /\ late = {}
  /\ restarts = 0

Pay(p) == [paid EXCEPT ![p] = @ + 1]
FromWallet == {p \in Purchase : p.by = "wallet"}

With(statuses) == {n \in Subs : sub[n].status \in statuses}
Awaited(n) == payment[n].status = "VERIFICATION_PENDING"
Later(a, b) == IF a >= b THEN a ELSE b

-----------------------------------------------------------------------------
(* subscribe: check, create the row, collect the first period.             *)

Subscribe(s, p) ==
  /\ ~\E n \in With({"PENDING", "ACTIVE", "PAST_DUE"}) : sub[n].plan = p
  /\ With({"NONE"}) # {}
  /\ Begin(s, [at |-> "create", plan |-> p])
  /\ UNCHANGED <<sub, payment, accessUntil, balance, now, paid, windows, late, restarts>>

CreateSubscription(s) ==
  /\ At(s, "create")
  /\ IF With({"NONE"}) = {} THEN Return(s) /\ UNCHANGED sub
     ELSE LET n == Min(With({"NONE"})) IN
       /\ sub' = [sub EXCEPT ![n] = [plan |-> job[s].plan, status |-> "PENDING",
                                     autoRenew |-> TRUE, next |-> NoBilling]]
       /\ Continue(s, [at |-> "debit", sub |-> n, end |-> now + 1, renews |-> FALSE, rest |-> None])
  /\ UNCHANGED <<payment, accessUntil, balance, now, paid, windows, late, restarts>>

-----------------------------------------------------------------------------
(* collectForPeriod.                                                       *)

(* Mutant: the balance is not part of the update's condition. *)
DebitUnchecked(s) ==
  LET j == job[s] IN
  /\ At(s, "debit")
  /\ balance' = balance - 1
  /\ paid' = Pay([sub |-> j.sub, end |-> j.end, by |-> "wallet"])
  /\ Continue(s, [at |-> "activate", sub |-> j.sub, end |-> j.end, rest |-> j.rest])
  /\ UNCHANGED <<sub, payment, accessUntil, now, windows, late, restarts>>

(* debitWalletForPlan: one conditional update. *)
Debit(s) ==
  LET j == job[s] IN
  /\ At(s, "debit")
  /\ IF balance >= 1
       THEN /\ balance' = balance - 1
            /\ paid' = Pay([sub |-> j.sub, end |-> j.end, by |-> "wallet"])
            /\ Continue(s, [at |-> "activate", sub |-> j.sub, end |-> j.end, rest |-> j.rest])
       ELSE /\ Continue(s, [j EXCEPT !.at = "request"])
            /\ UNCHANGED <<balance, paid>>
  /\ UNCHANGED <<sub, payment, accessUntil, now, windows, late, restarts>>

(* Mutant: the request opened is taken for the payment. *)
OpenRequestOnTrust(s) ==
  LET j == job[s] IN
  /\ At(s, "request")
  /\ payment' = [payment EXCEPT ![j.sub] = [status |-> "VERIFICATION_PENDING", end |-> j.end]]
  /\ Continue(s, [at |-> "activate", sub |-> j.sub, end |-> j.end, rest |-> j.rest])
  /\ UNCHANGED <<sub, accessUntil, balance, now, paid, windows, late, restarts>>

(* openManualUpiRequest: an upsert, whatever became of the row before.     *)
(* Only a renewal is marked as past due afterwards.                        *)
OpenRequest(s) ==
  LET j == job[s] IN
  /\ At(s, "request")
  /\ payment' = [payment EXCEPT ![j.sub] = [status |-> "VERIFICATION_PENDING", end |-> j.end]]
  /\ IF j.renews THEN Continue(s, [at |-> "mark", sub |-> j.sub, rest |-> j.rest]) ELSE Resume(s, j.rest)
  /\ UNCHANGED <<sub, accessUntil, balance, now, paid, windows, late, restarts>>

(* Mutant: the subscription stays ACTIVE until the grace is over. *)
MarkPastDueLater(s) ==
  /\ At(s, "mark")
  /\ Resume(s, job[s].rest)
  /\ UNCHANGED <<sub, payment, accessUntil, balance, now, paid, windows, late, restarts>>

MarkPastDue(s) ==
  /\ At(s, "mark")
  /\ sub' = [sub EXCEPT ![job[s].sub].status = "PAST_DUE"]
  /\ Resume(s, job[s].rest)
  /\ UNCHANGED <<payment, accessUntil, balance, now, paid, windows, late, restarts>>

-----------------------------------------------------------------------------
(* activatePeriod: the row, then the user's access, read and written.      *)

ActivatePeriod(s) ==
  LET j == job[s] IN
  /\ At(s, "activate")
  /\ IF sub[j.sub].status = "CUSTOMER_CANCELLED"
       THEN Resume(s, j.rest) /\ UNCHANGED <<sub, late>>
       ELSE /\ sub' = [sub EXCEPT ![j.sub] = [@ EXCEPT !.status = "ACTIVE", !.autoRenew = TRUE, !.next = j.end]]
            /\ late' = late \cup (IF j.end < sub[j.sub].next THEN {j.sub} ELSE {})
            /\ Continue(s, [at |-> "access", end |-> j.end, rest |-> j.rest])
  /\ UNCHANGED <<payment, accessUntil, balance, now, paid, windows, restarts>>

(* Mutant: an account that has a window already is left alone. *)
ReadAccessAny(s) ==
  LET j == job[s] IN
  /\ At(s, "access")
  /\ IF accessUntil > 0 THEN Resume(s, j.rest) ELSE Continue(s, [j EXCEPT !.at = "extend"])
  /\ UNCHANGED <<sub, payment, accessUntil, balance, now, paid, windows, late, restarts>>

ReadAccess(s) ==
  LET j == job[s] IN
  /\ At(s, "access")
  /\ IF accessUntil >= j.end THEN Resume(s, j.rest) ELSE Continue(s, [j EXCEPT !.at = "extend"])
  /\ UNCHANGED <<sub, payment, accessUntil, balance, now, paid, windows, late, restarts>>

ExtendAccess(s) ==
  /\ At(s, "extend")
  /\ accessUntil' = job[s].end
  /\ Resume(s, job[s].rest)
  /\ UNCHANGED <<sub, payment, balance, now, paid, windows, late, restarts>>

-----------------------------------------------------------------------------
(* sweepDueSubscriptions: the batch is read at once, each row claimed by   *)
(* the nextBillingAt that was read.                                        *)

Due(n) ==
  /\ n \in With({"ACTIVE", "PAST_DUE"}) /\ sub[n].autoRenew
  /\ sub[n].next # NoBilling /\ sub[n].next <= now

(* Mutant: a plan that is past due waits for its payment. *)
BatchActive == {n \in With({"ACTIVE"}) : Due(n) /\ ~Awaited(n)}

Batch == {n \in Subs : Due(n) /\ ~Awaited(n)}

Sweep(s) ==
  /\ Batch # {}
  /\ Begin(s, [at |-> "sweep", rest |-> [n \in Batch |-> sub[n].next]])
  /\ UNCHANGED <<sub, payment, accessUntil, balance, now, paid, windows, late, restarts>>

(* Mutant: the row is claimed whatever its billing date has become. *)
ClaimPeriodAny(s, n) ==
  LET read == job[s].rest
      rest == [m \in DOMAIN read \ {n} |-> read[m]]
  IN
  /\ At(s, "sweep") /\ n \in DOMAIN read
  /\ sub' = [sub EXCEPT ![n].next = read[n] + 1]
  /\ Continue(s, [at |-> "debit", sub |-> n, end |-> read[n] + 1, renews |-> TRUE, rest |-> rest])
  /\ UNCHANGED <<payment, accessUntil, balance, now, paid, windows, late, restarts>>

ClaimPeriod(s, n) ==
  LET read == job[s].rest
      rest == [m \in DOMAIN read \ {n} |-> read[m]]
  IN
  /\ At(s, "sweep") /\ n \in DOMAIN read
  /\ IF sub[n].next = read[n]
       THEN /\ sub' = [sub EXCEPT ![n].next = read[n] + 1]
            /\ Continue(s, [at |-> "debit", sub |-> n, end |-> read[n] + 1, renews |-> TRUE, rest |-> rest])
       ELSE Resume(s, rest) /\ UNCHANGED sub
  /\ UNCHANGED <<payment, accessUntil, balance, now, paid, windows, late, restarts>>

-----------------------------------------------------------------------------
(* verifySubscriptionPayment.                                              *)

(* settleSubscriptionPayment: the row is read, whatever its status, then   *)
(* claimed; what is settled and activated is the period of the read, also  *)
(* when the row asks for another one by then.                              *)
ReadPayment(s, n) ==
  /\ payment[n] # NoPayment
  /\ Begin(s, [at |-> "verify", sub |-> n, end |-> payment[n].end])
  /\ UNCHANGED <<sub, payment, accessUntil, balance, now, paid, windows, late, restarts>>

VerifyPayment(s) ==
  LET n == job[s].sub IN
  /\ At(s, "verify")
  /\ IF Awaited(n)
       THEN /\ payment' = [payment EXCEPT ![n].status = "VERIFIED"]
            /\ paid' = Pay([sub |-> n, end |-> job[s].end, by |-> "upi"])
            /\ late' = late \cup (IF job[s].end # payment[n].end THEN {n} ELSE {})
            /\ Continue(s, [at |-> "activate", sub |-> n, end |-> job[s].end, rest |-> None])
       ELSE Return(s) /\ UNCHANGED <<payment, paid, late>>
  /\ UNCHANGED <<sub, accessUntil, balance, now, windows, restarts>>

RejectPayment(n) ==
  /\ Awaited(n)
  /\ payment' = [payment EXCEPT ![n].status = "REJECTED"]
  /\ UNCHANGED <<sub, accessUntil, balance, now, job, paid, windows, late, restarts>>

(* Asking for information has no condition on the status. *)
RequestInfo(n) ==
  /\ payment[n] # NoPayment
  /\ payment' = [payment EXCEPT ![n].status = "REQUEST_INFO"]
  /\ UNCHANGED <<sub, accessUntil, balance, now, job, paid, windows, late, restarts>>

-----------------------------------------------------------------------------
(* cancelUserSubscription and changeUserPlan: the latest row is read, then *)
(* written.                                                                *)

Cancel(s) ==
  /\ With({"PENDING", "ACTIVE", "PAST_DUE"}) # {}
  /\ Begin(s, [at |-> "cancel", sub |-> Max(With({"PENDING", "ACTIVE", "PAST_DUE"}))])
  /\ UNCHANGED <<sub, payment, accessUntil, balance, now, paid, windows, late, restarts>>

WriteCancel(s) ==
  LET n == job[s].sub IN
  /\ At(s, "cancel")
  /\ IF sub[n].status = "CUSTOMER_CANCELLED" THEN UNCHANGED sub
     ELSE sub' = [sub EXCEPT ![n] = [@ EXCEPT !.status = "CUSTOMER_CANCELLED", !.autoRenew = FALSE]]
  /\ Return(s)
  /\ UNCHANGED <<payment, accessUntil, balance, now, paid, windows, late, restarts>>

ChangePlan(s, p) ==
  /\ With({"ACTIVE", "PAST_DUE"}) # {}
  /\ LET n == Max(With({"ACTIVE", "PAST_DUE"})) IN
       sub[n].plan # p /\ Begin(s, [at |-> "change", sub |-> n, plan |-> p])
  /\ UNCHANGED <<sub, payment, accessUntil, balance, now, paid, windows, late, restarts>>

WritePlan(s) ==
  LET j == job[s] IN
  /\ At(s, "change")
  /\ sub' = [sub EXCEPT ![j.sub].plan = j.plan]
  /\ Continue(s, [at |-> "supersede", sub |-> j.sub])
  /\ UNCHANGED <<payment, accessUntil, balance, now, paid, windows, late, restarts>>

SupersedePayment(s) ==
  LET n == job[s].sub IN
  /\ At(s, "supersede")
  /\ payment' = IF Awaited(n) THEN [payment EXCEPT ![n].status = "SUPERSEDED"] ELSE payment
  /\ Return(s)
  /\ UNCHANGED <<sub, accessUntil, balance, now, paid, windows, late, restarts>>

-----------------------------------------------------------------------------
(* Access bought by a top-up (grantAccessWindow), and revoked when the     *)
(* top-up is refunded.                                                     *)

BuyAccess(s) ==
  /\ Later(accessUntil, now) <= Horizon /\ Cardinality(windows) < MaxWindows
  /\ Begin(s, [at |-> "window", end |-> Later(accessUntil, now) + 1])
  /\ UNCHANGED <<sub, payment, accessUntil, balance, now, paid, windows, late, restarts>>

GrantWindow(s) ==
  LET e == job[s].end IN
  /\ At(s, "window")
  /\ accessUntil' = e
  /\ windows' = windows \cup {e}
  /\ Return(s)
  /\ UNCHANGED <<sub, payment, balance, now, paid, late, restarts>>

RevokeAccess ==
  /\ windows # {}
  /\ accessUntil' = 0
  /\ UNCHANGED <<sub, payment, balance, now, job, paid, windows, late, restarts>>

-----------------------------------------------------------------------------
AddFunds ==
  /\ balance + MapThenSumSet(LAMBDA p : paid[p], FromWallet) < MaxMoney
  /\ balance' = balance + 1
  /\ UNCHANGED <<sub, payment, accessUntil, now, job, paid, windows, late, restarts>>

Tick ==
  /\ now < Horizon
  /\ now' = now + 1
  /\ UNCHANGED <<sub, payment, accessUntil, balance, job, paid, windows, late, restarts>>

(* A process, the slots P, starts again: what it ran is lost, and          *)
(* backfillSubscriptionAccess extends the access to the latest             *)
(* nextBillingAt of an ACTIVE subscription.                                *)
Restart(P, s) ==
  LET live == {sub[n].next : n \in {n \in With({"ACTIVE"}) : sub[n].next > now}}
      boot == IF live = {} THEN Idle ELSE [at |-> "access", end |-> Max(live), rest |-> None]
  IN
  /\ restarts < MaxRestarts
  /\ restarts' = restarts + 1
  /\ job' = [t \in Slots |-> IF t = s THEN boot ELSE IF t \in P THEN Idle ELSE job[t]]
  /\ UNCHANGED <<sub, payment, accessUntil, balance, now, paid, windows, late>>

-----------------------------------------------------------------------------
Step(s) ==
  \/ CreateSubscription(s) \/ Debit(s) \/ OpenRequest(s) \/ MarkPastDue(s)
  \/ ActivatePeriod(s) \/ ReadAccess(s) \/ ExtendAccess(s)
  \/ \E n \in Subs : ClaimPeriod(s, n)
  \/ VerifyPayment(s)
  \/ WriteCancel(s) \/ WritePlan(s) \/ SupersedePayment(s) \/ GrantWindow(s)

Request(s) ==
  \/ \E p \in Plans : Subscribe(s, p) \/ ChangePlan(s, p)
  \/ \E n \in Subs : ReadPayment(s, n)
  \/ Sweep(s) \/ Cancel(s) \/ BuyAccess(s)

Next ==
  \/ \E s \in Slots : Step(s) \/ Request(s)
  \/ \E n \in Subs : RejectPayment(n) \/ RequestInfo(n)
  \/ RevokeAccess \/ AddFunds \/ Tick
  \/ \E P \in SUBSET Slots : \E s \in P : Restart(P, s)

Spec == Init /\ [][Next]_vars
=============================================================================
