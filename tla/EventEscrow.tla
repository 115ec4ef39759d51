----------------------------- MODULE EventEscrow ----------------------------
(***************************************************************************)
(* The fee of a paid event: attendees pay their share into Wallet.held-    *)
(* Balance, and after the dispute window the sweep pays the organizer,     *)
(* unless a report freezes the money, an admin decides, or the organizer   *)
(* cancels.  One event, its shares, escrows and reports, and the wallets   *)
(* they move money between.                                                *)
(*                                                                         *)
(* A handler is a sequence of database calls with other handlers between   *)
(* them; job[s] is the handler in slot s and what it has read.  A settle-  *)
(* ment is two steps, because it reads the event's other escrows, of which *)
(* it sees committed states only, before its own writes become visible:    *)
(* from SettleClaim to SettleCommit it holds the lock of its escrow row    *)
(* (and, for a release, of the organizer's wallet row).                    *)
(*                                                                         *)
(* Abstracted: one price per person, platform fee 0 (EVENT_PLATFORM_FEE),  *)
(* other spending of the wallets, registration, rescheduling (the release  *)
(* instant is fixed at payment), notifications and audit rows.  The rows   *)
(* of a deleted event are gone for every handler; the model keeps their    *)
(* last value as history.                                                  *)
(***************************************************************************)
EXTENDS Integers

CONSTANTS
  Payers,      \* attendees with a share in the event
  Organizer,   \* the user the fees are for
  Amount,      \* what the organizer asks per person
  Funds,       \* bound: what a wallet holds at first
  StartTime,   \* clock value at which the event starts
  ReleaseTime, \* clock value at which held money may be released
  Slots,       \* requests and sweeps that may be in flight at once
  MaxCrashes   \* bound: restarts of the server process

ASSUME EscrowAssumption ==
  /\ Organizer \notin Payers
  /\ Amount \in Nat \ {0} /\ Funds \in Nat
  /\ StartTime \in Nat /\ ReleaseTime \in Nat /\ StartTime < ReleaseTime
  /\ MaxCrashes \in Nat

VARIABLES
  event,       \* Event.status, or "DELETED"
  settlement,  \* Event.settlementStatus
  share,       \* share[p]: EventShare.status
  escrow,      \* escrow[p]: EventEscrow.status of that share
  reports,     \* users with an OPEN EventReport
  balance,     \* balance[u]: Wallet.balance
  heldBalance, \* heldBalance[p]: Wallet.heldBalance
  clock,       \* what time it is for the event
  job,         \* job[s]: the handler running in slot s
  crashes      \* restarts so far

vars == <<event, settlement, share, escrow, reports, balance, heldBalance, clock, job, crashes>>
rows == <<event, settlement, share, escrow, reports>>
wallets == <<balance, heldBalance>>

Users == Payers \cup {Organizer}
EventStatus == {"PUBLISHED", "CANCELLED", "DELETED"}
SettlementStatus == {"PENDING", "IN_DISPUTE", "RELEASED", "REFUNDED", "PARTIALLY_SETTLED"}
ShareStatus == {"PENDING", "PAID", "WAIVED", "REFUNDED"}
EscrowStatus == {"NONE", "HELD", "DISPUTED", "RELEASED", "REFUNDED"}
Decision == {"RELEASED", "REFUNDED"}

(* A handler that loops over the escrows it has listed: "settle" between   *)
(* two of them, "settling" inside the transaction for `of'.                *)
Idle == [at |-> "idle"]
Loop == [at : {"settle"}, by : {"sweep", "admin", "cancel"}, to : Decision, todo : SUBSET Payers]
Settling == [at : {"settling"}, by : {"sweep", "admin", "cancel"}, to : Decision,
             todo : SUBSET Payers, of : Payers, status : SettlementStatus]
Job ==
  {Idle} \cup Loop \cup Settling
  \cup [at : {"pay", "waive"}, who : Payers]
  \cup [at : {"report"}, who : Payers, earliest : Payers]
  \cup [at : {"update"}, seen : EventStatus, status : EventStatus]
  \cup [at : {"list", "freeze", "flag", "close", "delete"}]

TypeOK ==
  /\ event \in EventStatus
  /\ settlement \in SettlementStatus
  /\ share \in [Payers -> ShareStatus]
  /\ escrow \in [Payers -> EscrowStatus]
  /\ reports \subseteq Payers
  /\ balance \in [Users -> Int]
  /\ heldBalance \in [Payers -> Int]
  /\ clock \in 0..(ReleaseTime + 1)
  /\ job \in [Slots -> Job]
  /\ crashes \in 0..MaxCrashes

(* The organizer has published the event and set its amount. *)
Init ==
  /\ event = "PUBLISHED"
  /\ settlement = "PENDING"
  /\ share = [p \in Payers |-> "PENDING"]
  /\ escrow = [p \in Payers |-> "NONE"]
  /\ reports = {}
  /\ balance \in [Users -> 0..Funds]
  /\ heldBalance = [p \in Payers |-> 0]
  /\ clock = 0
  /\ job = [s \in Slots |-> Idle]
  /\ crashes = 0

Exists == event # "DELETED"
Held == {p \in Payers : Exists /\ escrow[p] = "HELD"}
Open == {p \in Payers : Exists /\ escrow[p] \in {"HELD", "DISPUTED"}}
Spendable(p) == balance[p] - heldBalance[p]

(* Row locks of the settlements under way. *)
Locked(p) == \E s \in Slots : job[s].at = "settling" /\ job[s].of = p
PayoutLocked == \E s \in Slots : job[s].at = "settling" /\ job[s].to = "RELEASED"

Begin(s, j) == job[s] = Idle /\ job' = [job EXCEPT ![s] = j]
At(s, at) == job[s].at = at
Continue(s, j) == job' = [job EXCEPT ![s] = j]
Return(s) == Continue(s, Idle)

(* The event's settlement status, recomputed from its escrows. *)
Summary(status) ==
  LET has(x) == \E p \in Payers : status[p] = x
  IN CASE has("DISPUTED") -> "IN_DISPUTE"
       [] has("HELD") -> "PENDING"
       [] has("REFUNDED") /\ has("RELEASED") -> "PARTIALLY_SETTLED"
       [] has("REFUNDED") -> "REFUNDED"
       [] OTHER -> "RELEASED"

-----------------------------------------------------------------------------
(* Paying: the event is read before the transaction that holds the fee.    *)

RequestPay(s, p) ==
  /\ event = "PUBLISHED" /\ clock < StartTime
  /\ Begin(s, [at |-> "pay", who |-> p])
  /\ UNCHANGED <<rows, wallets, clock, crashes>>

(* Mutant: the reservation forgets the wallet. *)
PayShareUnreserved(s) ==
  LET p == job[s].who IN
  /\ At(s, "pay")
  /\ IF Exists /\ share[p] = "PENDING" /\ Spendable(p) >= Amount
       THEN /\ share' = [share EXCEPT ![p] = "PAID"]
            /\ escrow' = [escrow EXCEPT ![p] = "HELD"]
       ELSE UNCHANGED <<share, escrow>>
  /\ Return(s)
  /\ UNCHANGED <<event, settlement, reports, balance, heldBalance, clock, crashes>>

(* The escrow row, and the reservation in the wallet: held money stays in  *)
(* balance.                                                                *)
HoldShare(p) ==
  /\ escrow' = [escrow EXCEPT ![p] = "HELD"]
  /\ heldBalance' = [heldBalance EXCEPT ![p] = @ + Amount]

(* Claims the share and holds its amount, or refuses. *)
PayShare(s) ==
  LET p == job[s].who IN
  /\ At(s, "pay")
  /\ IF Exists /\ share[p] = "PENDING" /\ Spendable(p) >= Amount
       THEN share' = [share EXCEPT ![p] = "PAID"] /\ HoldShare(p)
       ELSE UNCHANGED <<share, escrow, heldBalance>>
  /\ Return(s)
  /\ UNCHANGED <<event, settlement, reports, balance, clock, crashes>>

(* The organizer gives a pass: reads the share, then writes it whatever it *)
(* is by then.                                                             *)
RequestWaive(s, p) ==
  /\ Exists /\ share[p] # "PAID"
  /\ Begin(s, [at |-> "waive", who |-> p])
  /\ UNCHANGED <<rows, wallets, clock, crashes>>

WaiveShare(s) ==
  /\ At(s, "waive")
  /\ share' = IF Exists THEN [share EXCEPT ![job[s].who] = "WAIVED"] ELSE share
  /\ Return(s)
  /\ UNCHANGED <<event, settlement, escrow, reports, wallets, clock, crashes>>

-----------------------------------------------------------------------------
(* Settling one escrow, for the sweep, an admin or a cancellation.         *)

(* Mutant: a settlement does not claim its row. *)
SettleClaimAny(s, p) ==
  /\ At(s, "settle") /\ p \in job[s].todo
  /\ Exists /\ escrow[p] # "NONE" /\ ~Locked(p)
  /\ Continue(s, [at |-> "settling", by |-> job[s].by, to |-> job[s].to,
                  todo |-> job[s].todo \ {p}, of |-> p,
                  status |-> Summary([escrow EXCEPT ![p] = job[s].to])])
  /\ UNCHANGED <<rows, wallets, clock, crashes>>

(* The claim takes HELD and DISPUTED rows alike; a release waits for the   *)
(* organizer's wallet before it reads the other escrows.                   *)
SettleClaim(s, p) ==
  /\ At(s, "settle") /\ p \in job[s].todo
  /\ p \in Open /\ ~Locked(p) /\ heldBalance[p] >= Amount
  /\ job[s].to = "RELEASED" => ~PayoutLocked
  /\ Continue(s, [at |-> "settling", by |-> job[s].by, to |-> job[s].to,
                  todo |-> job[s].todo \ {p}, of |-> p,
                  status |-> Summary([escrow EXCEPT ![p] = job[s].to])])
  /\ UNCHANGED <<rows, wallets, clock, crashes>>

(* ALREADY_SETTLED, ESCROW_NOT_FOUND, HELD_BALANCE_MISMATCH: the loop      *)
(* counts the failure and goes on.                                         *)
SettleSkip(s, p) ==
  /\ At(s, "settle") /\ p \in job[s].todo
  /\ ~Locked(p) /\ (p \notin Open \/ heldBalance[p] < Amount)
  /\ Continue(s, [job[s] EXCEPT !.todo = @ \ {p}])
  /\ UNCHANGED <<rows, wallets, clock, crashes>>

(* Mutant: the share is left as it was. *)
SettleCommitKeepsShare(s) ==
  LET p == job[s].of IN
  /\ At(s, "settling")
  /\ escrow' = [escrow EXCEPT ![p] = job[s].to]
  /\ heldBalance' = [heldBalance EXCEPT ![p] = @ - Amount]
  /\ balance' = IF job[s].to = "RELEASED"
                  THEN [balance EXCEPT ![p] = @ - Amount, ![Organizer] = @ + Amount]
                  ELSE balance
  /\ settlement' = job[s].status
  /\ Continue(s, [at |-> "settle", by |-> job[s].by, to |-> job[s].to, todo |-> job[s].todo])
  /\ UNCHANGED <<event, share, reports, clock, crashes>>

(* Mutant: the share gets the escrow's status. *)
SettleCommitOneStatus(s) ==
  LET p == job[s].of IN
  /\ At(s, "settling")
  /\ escrow' = [escrow EXCEPT ![p] = job[s].to]
  /\ heldBalance' = [heldBalance EXCEPT ![p] = @ - Amount]
  /\ balance' = IF job[s].to = "RELEASED"
                  THEN [balance EXCEPT ![p] = @ - Amount, ![Organizer] = @ + Amount]
                  ELSE balance
  /\ share' = [share EXCEPT ![p] = job[s].to]
  /\ settlement' = job[s].status
  /\ Continue(s, [at |-> "settle", by |-> job[s].by, to |-> job[s].to, todo |-> job[s].todo])
  /\ UNCHANGED <<event, reports, clock, crashes>>

(* The reservation goes either way; only a release moves the balances. *)
SettleCommit(s) ==
  LET p == job[s].of IN
  /\ At(s, "settling")
  /\ escrow' = [escrow EXCEPT ![p] = job[s].to]
  /\ heldBalance' = [heldBalance EXCEPT ![p] = @ - Amount]
  /\ balance' = IF job[s].to = "RELEASED"
                  THEN [balance EXCEPT ![p] = @ - Amount, ![Organizer] = @ + Amount]
                  ELSE balance
  /\ share' = [share EXCEPT ![p] = IF job[s].to = "RELEASED" THEN "PAID" ELSE "REFUNDED"]
  /\ settlement' = job[s].status
  /\ Continue(s, [at |-> "settle", by |-> job[s].by, to |-> job[s].to, todo |-> job[s].todo])
  /\ UNCHANGED <<event, reports, clock, crashes>>

(* After its loop a cancellation freezes what is left, an admin's decision *)
(* closes the reports, the sweep ends.                                     *)
SettleDone(s) ==
  /\ At(s, "settle") /\ job[s].todo = {}
  /\ \/ job[s].by = "cancel" /\ Continue(s, [at |-> "freeze"])
     \/ job[s].by = "admin" /\ Continue(s, [at |-> "close"])
     \/ job[s].by = "sweep" /\ Return(s)
  /\ UNCHANGED <<rows, wallets, clock, crashes>>

Settle(s) ==
  \/ \E p \in Payers : SettleClaim(s, p) \/ SettleSkip(s, p)
  \/ SettleCommit(s)
  \/ SettleDone(s)

-----------------------------------------------------------------------------
(* The sweep and the admin.                                                *)

(* Mutant: the sweep looks for holds that fall due at this very moment. *)
SweepAtInstant(s) ==
  /\ clock = ReleaseTime /\ Held # {}
  /\ Begin(s, [at |-> "settle", by |-> "sweep", to |-> "RELEASED", todo |-> Held])
  /\ UNCHANGED <<rows, wallets, clock, crashes>>

(* Every five minutes, at boot, and when an admin asks: lists what is due. *)
Sweep(s) ==
  /\ clock >= ReleaseTime /\ Held # {}
  /\ Begin(s, [at |-> "settle", by |-> "sweep", to |-> "RELEASED", todo |-> Held])
  /\ UNCHANGED <<rows, wallets, clock, crashes>>

Decide(s, decision) ==
  /\ Open # {}
  /\ Begin(s, [at |-> "settle", by |-> "admin", to |-> decision, todo |-> Open])
  /\ UNCHANGED <<rows, wallets, clock, crashes>>

CloseReports(s) ==
  /\ At(s, "close")
  /\ reports' = {}
  /\ Return(s)
  /\ UNCHANGED <<event, settlement, share, escrow, wallets, clock, crashes>>

-----------------------------------------------------------------------------
(* Reports.  The deadline includes the instant of release.                 *)

RequestReport(s, p) ==
  /\ clock <= ReleaseTime /\ p \notin reports
  /\ \E e \in Open : Begin(s, [at |-> "report", who |-> p, earliest |-> e])
  /\ UNCHANGED <<rows, wallets, clock, crashes>>

FreezeForReport(p) ==
  IF p \in Held
    THEN /\ escrow' = [escrow EXCEPT ![p] = "DISPUTED"]
         /\ settlement' = Summary(escrow')
    ELSE UNCHANGED <<escrow, settlement>>

(* The report row, and the freeze of the reporter's own hold if it was the *)
(* one read.                                                               *)
FileReport(s) ==
  LET p == job[s].who
      own == p = job[s].earliest
  IN
  /\ At(s, "report")
  /\ own => ~Locked(p)
  /\ IF Exists
       THEN /\ reports' = reports \cup {p}
            /\ IF own THEN FreezeForReport(p) ELSE UNCHANGED <<escrow, settlement>>
            /\ Continue(s, [at |-> "freeze"])
       ELSE /\ Return(s)
            /\ UNCHANGED <<reports, escrow, settlement>>
  /\ UNCHANGED <<event, share, wallets, clock, crashes>>

(* freezeAllEscrowsForEvent: two statements, no transaction. *)
FreezeAll(s) ==
  /\ At(s, "freeze")
  /\ \A p \in Held : ~Locked(p)
  /\ escrow' = [p \in Payers |-> IF p \in Held THEN "DISPUTED" ELSE escrow[p]]
  /\ Continue(s, IF Held # {} THEN [at |-> "flag"] ELSE Idle)
  /\ UNCHANGED <<event, settlement, share, reports, wallets, clock, crashes>>

FlagDispute(s) ==
  /\ At(s, "flag")
  /\ settlement' = IF Exists THEN "IN_DISPUTE" ELSE settlement
  /\ Return(s)
  /\ UNCHANGED <<event, share, escrow, reports, wallets, clock, crashes>>

-----------------------------------------------------------------------------
(* The organizer updates the event.  Whatever the request leaves out is    *)
(* written back as it was read, Event.status too.                          *)

RequestUpdate(s, status) ==
  /\ Exists
  /\ Begin(s, [at |-> "update", seen |-> event, status |-> status])
  /\ UNCHANGED <<rows, wallets, clock, crashes>>

UpdateEvent(s) ==
  LET cancels == job[s].status = "CANCELLED" /\ job[s].seen # "CANCELLED" IN
  /\ At(s, "update")
  /\ event' = IF Exists THEN job[s].status ELSE event
  /\ Continue(s, IF Exists /\ cancels THEN [at |-> "list"] ELSE Idle)
  /\ UNCHANGED <<settlement, share, escrow, reports, wallets, clock, crashes>>

(* refundAllEscrowsForEvent lists the holds to give back. *)
ListRefunds(s) ==
  /\ At(s, "list")
  /\ Continue(s, [at |-> "settle", by |-> "cancel", to |-> "REFUNDED", todo |-> Open])
  /\ UNCHANGED <<rows, wallets, clock, crashes>>

(* The organizer deletes the event: counts the unsettled holds, then       *)
(* deletes; the escrows go with it (onDelete: Cascade).                    *)
RequestDelete(s) ==
  /\ Exists /\ Open = {}
  /\ Begin(s, [at |-> "delete"])
  /\ UNCHANGED <<rows, wallets, clock, crashes>>

DeleteEvent(s) ==
  /\ At(s, "delete")
  /\ \A p \in Payers : ~Locked(p)
  /\ event' = "DELETED"
  /\ Return(s)
  /\ UNCHANGED <<settlement, share, escrow, reports, wallets, clock, crashes>>

-----------------------------------------------------------------------------
Step(s) ==
  \/ PayShare(s) \/ WaiveShare(s) \/ Settle(s) \/ CloseReports(s)
  \/ FileReport(s) \/ FreezeAll(s) \/ FlagDispute(s)
  \/ UpdateEvent(s) \/ ListRefunds(s) \/ DeleteEvent(s)

Request(s) ==
  \/ \E p \in Payers : RequestPay(s, p) \/ RequestWaive(s, p) \/ RequestReport(s, p)
  \/ \E d \in Decision : Decide(s, d)
  \/ \E status \in {"PUBLISHED", "CANCELLED"} : RequestUpdate(s, status)
  \/ RequestDelete(s)
  \/ Sweep(s)

Tick ==
  /\ clock <= ReleaseTime
  /\ clock' = clock + 1
  /\ UNCHANGED <<rows, wallets, job, crashes>>

(* The process restarts; open transactions roll back. *)
Crash ==
  /\ crashes < MaxCrashes
  /\ crashes' = crashes + 1
  /\ job' = [s \in Slots |-> Idle]
  /\ UNCHANGED <<rows, wallets, clock>>

Next == (\E s \in Slots : Step(s) \/ Request(s)) \/ Tick \/ Crash

Spec == Init /\ [][Next]_vars
=============================================================================
