------------------------------ MODULE Bookings ------------------------------
(***************************************************************************)
(* The state the booking handlers share: the Booking rows, the UpiPayment  *)
(* claims, the money rows of each booking (Transaction, RefundLog), the    *)
(* in-memory dispatch timers, the BookingTimeout rows, and the requests    *)
(* and background jobs in flight.                                          *)
(*                                                                         *)
(* A handler of this backend is a sequence of database calls.  Between two *)
(* of them every other handler may run, so a handler here is a sequence of *)
(* steps, one per database call that matters, and `call' records for each  *)
(* slot where its handler is and the values it has READ and will use.      *)
(* A database transaction that starts with its conditional claim is one    *)
(* step (the row lock orders it); READ COMMITTED reads made before the     *)
(* claim are a step of their own.                                          *)
(*                                                                         *)
(* Abstracted: prices (each money row is one row of the right amount, fees *)
(* smaller than the price), places, who may be matched (any partner),      *)
(* price differences at settlement, notifications, logs.  Durations: any   *)
(* timer may fire, any window may lapse and any code expire at any moment; *)
(* only the order "cancellable, then startable" of a booking's schedule is *)
(* kept (clock).  A one-time code is "none" also when it is expired or     *)
(* locked: no handler tells these apart from no code at all.  Of           *)
(* Booking.notes, the JSON blob every handler rewrites as a whole, the     *)
(* codes and the payment method are kept.                                  *)
(***************************************************************************)
EXTENDS Naturals, FiniteSets

CONSTANTS
  Bookings,    \* booking ids
  Partners,    \* partner ids
  Claims,      \* ids of the UPI references a user may submit for one booking
  Methods,     \* payment methods clients book with
  Channels,    \* ways they pay a booking that debited no wallet
  Slots,       \* requests and jobs that may be in flight at once
  NoPartner,   \* Booking.partnerId = null
  Phases,      \* last value of the clock of a booking
  CancelUntil, \* last clock value at which scheduledAt > now + 1 hour
  StartFrom,   \* first clock value inside the start window
  MaxRows,     \* bound: money rows of one kind per booking
  MaxCrashes   \* bound: restarts of the server process

ASSUME BookingsAssumption ==
  /\ NoPartner \notin Partners
  /\ Methods \subseteq {"ONLINE", "CASH", "UPI_MANUAL"}
  /\ Channels \subseteq {"GATEWAY", "UPI"}
  /\ Phases \in Nat /\ CancelUntil \in Nat /\ StartFrom \in Nat
  /\ MaxRows \in Nat /\ MaxCrashes \in Nat

VARIABLES
  row,      \* row[b]: the Booking row
  upi,      \* upi[b][u]: status of the UpiPayment row
  money,    \* money[b]: how many rows of each kind the ledger holds for b
  timers,   \* bookings with an expiry timer in this process (expiryTimers)
  window,   \* window[b]: the BookingTimeout row
  clock,    \* clock[b]: how close scheduledAt is
  call,     \* call[s]: the handler running in slot s
  codes,    \* codes[b]: which codes the partner has entered (BookingLog)
  crashes   \* restarts so far

vars == <<row, upi, money, timers, window, clock, call, codes, crashes>>

Status == {"NONE", "PAYMENT_PENDING", "PAYMENT_INITIATED", "PAYMENT_SUCCESSFUL",
           "PARTNER_SEARCHING", "PARTNER_ASSIGNED", "PARTNER_ACCEPTED",
           "OTP_GENERATED", "IN_PROGRESS", "COMPLETION_REQUESTED", "COMPLETED",
           "CANCELLED", "EXPIRED", "REFUND_INITIATED", "REFUND_COMPLETED"}
PaymentStatus == {"PENDING", "PAID", "PENDING_CASH", "VERIFICATION_PENDING",
                  "REJECTED", "REQUEST_INFO"}
Method == {"NONE", "CASH", "UPI_MANUAL"}      \* notes.paymentMethod
ClaimStatus == {"NONE", "VERIFICATION_PENDING", "VERIFIED", "REJECTED", "REQUEST_INFO"}
Ledger == [holds : Nat, cards : Nat, refunds : Nat, payouts : Nat]
Code == {"none", "live", "verified"}   \* notes.startOtp, completionOtp
Notes == [start : Code, done : Code, method : Method]

(* otp: "none" no otpGeneratedAt, "sent" generated, "checked" otpVerifiedAt *)
Row == [status : Status, pay : PaymentStatus, partner : Partners \cup {NoPartner},
        otp : {"none", "sent", "checked"}, refunded : BOOLEAN, notes : Notes]

NoNotes == [start |-> "none", done |-> "none", method |-> "NONE"]
NoRow == [status |-> "NONE", pay |-> "PENDING", partner |-> NoPartner,
          otp |-> "none", refunded |-> FALSE, notes |-> NoNotes]

(* The columns of a row a handler keeps across its next database call.     *)
Seen == [status : Status, pay : PaymentStatus, notes : Notes]
SeenNothing == [status |-> "NONE", pay |-> "PENDING", notes |-> NoNotes]
SeenPay(r) == [SeenNothing EXCEPT !.pay = r.pay]
SeenStage(r) == [SeenNothing EXCEPT !.pay = r.pay, !.status = r.status]
SeenNotes(r) == [SeenNothing EXCEPT !.notes = r.notes]
SeenJob(r) == [SeenNothing EXCEPT !.notes = r.notes, !.status = r.status]

Steps == {"dispatch", "assign", "initiate",
          "expire.check", "expire.refund", "sweep.mark",
          "cancel.read", "cancel.claim", "cancel.refund", "otp.mint", "otp.generate",
          "travel.save", "arrive.save", "arrive.fresh", "start.verify",
          "start.wrong", "done.request", "done.code", "done.issue", "done.verify",
          "done.wrong", "complete", "select"}

(* `who' is the partner, the UPI claim or the side the handler acts for:   *)
(* "PARTY" the user or the assigned partner, "SYSTEM" the timeout sweeper. *)
Idle == [at |-> "idle"]
Who == Partners \cup Claims \cup {"PARTY", "SYSTEM"}
Running(steps, callers) == [at : steps, b : Bookings, who : callers, seen : Seen]
Calls == {Idle} \cup Running(Steps, Who) \cup Running({"accept.claim"}, Partners)
                \cup Running({"upi.submit", "upi.settle"}, Claims)

TypeOK ==
  /\ row \in [Bookings -> Row]
  /\ upi \in [Bookings -> [Claims -> ClaimStatus]]
  /\ money \in [Bookings -> Ledger]
  /\ timers \subseteq Bookings
  /\ window \in [Bookings -> {"none", "open", "done"}]
  /\ clock \in [Bookings -> 0..Phases]
  /\ call \in [Slots -> Calls]
  /\ codes \in [Bookings -> SUBSET {"start", "done"}]
  /\ crashes \in 0..MaxCrashes

Init ==
  /\ row = [b \in Bookings |-> NoRow]
  /\ upi = [b \in Bookings |-> [u \in Claims |-> "NONE"]]
  /\ money = [b \in Bookings |-> [holds |-> 0, cards |-> 0, refunds |-> 0, payouts |-> 0]]
  /\ timers = {}
  /\ window = [b \in Bookings |-> "none"]
  /\ clock \in [Bookings -> 0..Phases]
  /\ call = [s \in Slots |-> Idle]
  /\ codes = [b \in Bookings |-> {}]
  /\ crashes = 0

Exists(b) == row[b].status # "NONE"
Unclaimed(r) == r.status = "PARTNER_SEARCHING" /\ r.partner = NoPartner
Funded(b) == money[b].holds + money[b].cards > 0
CanStart(b) == clock[b] >= StartFrom        \* isWithinStartWindow
CanCancel(b) == clock[b] <= CancelUntil     \* scheduledAt > now + 1 hour

Begin(s, at, b, who, seen) ==
  /\ call[s] = Idle
  /\ call' = [call EXCEPT ![s] = [at |-> at, b |-> b, who |-> who, seen |-> seen]]
At(s, at) == call[s].at = at
Goto(s, at) == call' = [call EXCEPT ![s].at = at]
GotoSeeing(s, at, seen) ==                  \* having read the row again
  call' = [call EXCEPT ![s] = [at |-> at, b |-> call[s].b, who |-> call[s].who, seen |-> seen]]
Return(s) == call' = [call EXCEPT ![s] = Idle]
Save(b, r) == row' = [row EXCEPT ![b] = r]

(* One more ledger row of the given kind. *)
Post(b, kind) ==
  /\ money[b][kind] < MaxRows
  /\ money' = [money EXCEPT ![b][kind] = @ + 1]
=============================================================================
