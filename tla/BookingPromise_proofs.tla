------------------------ MODULE BookingPromise_proofs ------------------------
(***************************************************************************)
(* The booking system keeps the promise of Engagement as long as handlers  *)
(* of one booking, and accepts of one partner, do not overlap; and that of *)
(* Milestones always.                                                      *)
(*                                                                         *)
(* Handlers of other bookings, the sweep of a job listing, the clock,      *)
(* lapsing codes and restarts still come between the database calls of a   *)
(* handler.  What it found in the row when it began is therefore no matter *)
(* of course: AllDue says for each unconditional write that the row is     *)
(* still in the stage the handler's guard asked for.                       *)
(***************************************************************************)
EXTENDS BookingFunding_proofs, BookingPromise

(* No UPI reference is ever submitted: its settlement reopens what was     *)
(* closed.                                                                 *)
NoReferences == Claims = {}

(* No two handlers in flight are about one booking, and no two accept a    *)
(* job for one partner.                                                    *)
Apart ==
  \A s, t \in Slots : s # t /\ call[s].at # "idle" /\ call[t].at # "idle" =>
    /\ call[s].b # call[t].b
    /\ At(s, "accept.claim") /\ At(t, "accept.claim") => call[s].who # call[t].who

(* One handler at a time. *)
Serial == NoReferences /\ \A s, t \in Slots : s = t

Laboring(p) ==
  \E b \in Bookings : row[b].partner = p /\ row[b].status \in Pending \cup {"IN_PROGRESS"}

(* What still holds of the row when a handler gets to its write. *)
Due(s) ==
  LET j == call[s] IN
  /\ j.at \notin {"upi.submit", "upi.settle"}
  /\ j.at = "initiate" => row[j.b].status = "PAYMENT_PENDING"
  /\ j.at \in {"expire.check", "expire.refund"} => row[j.b].status = "EXPIRED"
  /\ j.at = "cancel.refund" => row[j.b].status = "CANCELLED"
  /\ j.at = "accept.claim" => ~Laboring(j.who)
  /\ j.at \in {"arrive.save", "arrive.fresh"} => row[j.b].status \in Pending
  /\ j.at = "otp.mint" => row[j.b].status \in Pending /\ j.seen.status = row[j.b].status
  /\ j.at = "start.verify" => row[j.b].status = "OTP_GENERATED"
  /\ j.at = "done.request" => row[j.b].status = "IN_PROGRESS"
  /\ j.at = "complete" => row[j.b].status = "COMPLETION_REQUESTED"

(* Nobody writes PAYMENT_SUCCESSFUL, which a partner could claim. *)
Unsold == \A b \in Bookings : row[b].status # "PAYMENT_SUCCESSFUL"
AllDue == Unsold /\ \A s \in Slots : Due(s)

(* A step is one of the promise's, or none. *)
Promised == Engaged!PromiseNext \/ UNCHANGED Engaged!promise

(* The only way to get a job is one's own accept. *)
Hired(s) ==
  \A p \in Partners : Laboring(p)' => Laboring(p) \/ (At(s, "accept.claim") /\ call[s].who = p)

(* What a step of handler s does by itself, and what it does with the      *)
(* other handlers standing by.                                             *)
SoundFor(s) == Unsold' /\ Due(s)' /\ Hired(s) /\ Promised
Sound == AllDue' /\ Promised

(* The hypotheses of all lemmas below. *)
Context == TypeOK /\ Custody /\ NoReferences /\ AllDue

Watched == {"upi.submit", "upi.settle", "initiate", "expire.check", "expire.refund",
            "cancel.refund", "accept.claim", "arrive.save", "arrive.fresh", "otp.mint",
            "start.verify", "done.request", "complete"}

(***************************************************************************)
(* Stages.                                                                 *)
(***************************************************************************)

LEMMA StageValues ==
  /\ Stage("NONE") = "none" /\ Stage("PAYMENT_PENDING") = "none" /\ Stage("PAYMENT_INITIATED") = "none"
  /\ Stage("PARTNER_SEARCHING") = "offered" /\ Stage("PARTNER_ASSIGNED") = "reserved"
  /\ Stage("PARTNER_ACCEPTED") = "taken" /\ Stage("OTP_GENERATED") = "coded"
  /\ Stage("IN_PROGRESS") = "started" /\ Stage("COMPLETION_REQUESTED") = "finishing"
  /\ Stage("COMPLETED") = "settled"
  /\ \A x \in {"PAYMENT_SUCCESSFUL", "CANCELLED", "EXPIRED", "REFUND_INITIATED", "REFUND_COMPLETED"} :
       Stage(x) = "closed"
  BY DEF Stage

LEMMA StageTells ==
  ASSUME NEW x \in Status
  PROVE  /\ Stage(x) \in {"taken", "coded", "started"} => x \in Pending \cup {"IN_PROGRESS"}
         /\ Stage(x) = "settled" => x = "COMPLETED"
  <1>1. \/ x \in {"NONE", "PAYMENT_PENDING", "PAYMENT_INITIATED", "PARTNER_SEARCHING", "PARTNER_ASSIGNED"}
        \/ x \in {"PARTNER_ACCEPTED", "OTP_GENERATED", "IN_PROGRESS", "COMPLETION_REQUESTED", "COMPLETED"}
        \/ x \in {"PAYMENT_SUCCESSFUL", "CANCELLED", "EXPIRED", "REFUND_INITIATED", "REFUND_COMPLETED"}
    BY DEF Status
  <1> QED BY <1>1, StageValues DEF Pending

(***************************************************************************)
(* Frames.                                                                 *)
(***************************************************************************)

(* Payments and holds move, payouts and refunds do not. *)
Paid(b) == money'[b].payouts = money[b].payouts /\ money'[b].refunds = money[b].refunds

LEMMA PostedElse ==
  ASSUME TypeOK, NEW b \in Bookings, NEW kind \in {"holds", "cards"}, Post(b, kind)
  PROVE  \A c \in Bookings : Paid(c)
  BY DEF TypeOK, Ledger, Post, Paid

LEMMA NothingDue ==
  ASSUME NEW s \in Slots, call'[s].at \notin Watched
  PROVE  Due(s)'
  BY DEF Due, Watched

LEMMA ReturnedFree ==
  ASSUME TypeOK, NEW s \in Slots, Return(s)
  PROVE  Due(s)'
  BY Ended, NothingDue DEF Watched

LEMMA NoMove ==
  ASSUME \A b \in Bookings : /\ row'[b].status = row[b].status /\ row'[b].partner = row[b].partner
                             /\ Paid(b)
  PROVE  UNCHANGED Engaged!promise
  BY DEF Engaged!promise, Paid

LEMMA SilentStep ==
  ASSUME Context, NEW s \in Slots, UNCHANGED row, \A b \in Bookings : Paid(b), Due(s)'
  PROVE  SoundFor(s)
  <1>1. UNCHANGED Engaged!promise
    BY NoMove
  <1>2. Unsold' /\ Hired(s)
    BY DEF Context, AllDue, Unsold, Hired, Laboring
  <1> QED BY <1>1, <1>2 DEF SoundFor, Promised

(* The statuses a write may take a row from and to without naming its      *)
(* partner.                                                                *)
Unoffered == {"NONE", "PAYMENT_PENDING", "PAYMENT_INITIATED"}
Workflow == {<<"PARTNER_ACCEPTED", "OTP_GENERATED">>, <<"OTP_GENERATED", "IN_PROGRESS">>,
             <<"IN_PROGRESS", "COMPLETION_REQUESTED">>}

LEMMA StatusStep ==
  ASSUME Context, NEW s \in Slots, NEW b \in Bookings, NEW r, Save(b, r),
         r.partner = row[b].partner, \A c \in Bookings : Paid(c),
         \/ r.status = row[b].status
         \/ row[b].status \in Unoffered /\ r.status \in {"PAYMENT_PENDING", "PAYMENT_INITIATED", "PARTNER_SEARCHING"}
         \/ <<row[b].status, r.status>> \in Workflow
         \/ row[b].status # "COMPLETED" /\ r.status \in {"CANCELLED", "EXPIRED"},
         Due(s)'
  PROVE  SoundFor(s)
  <1>1. row'[b] = r /\ \A c \in Bookings \ {b} : row'[c] = row[c]
    BY DEF Context, TypeOK, Save
  <1>2. r.status # "PAYMENT_SUCCESSFUL"
    BY DEF Context, AllDue, Unsold, Workflow
  <1>3. Unsold' /\ Due(s)' /\ Hired(s)
    <2>1. Unsold'
      BY <1>1, <1>2 DEF Context, AllDue, Unsold
    <2>2. r.status \in Pending \cup {"IN_PROGRESS"} => row[b].status \in Pending \cup {"IN_PROGRESS"}
      BY DEF Unoffered, Workflow, Pending
    <2>3. Hired(s)
      BY <1>1, <2>2 DEF Hired, Laboring
    <2> QED BY <2>1, <2>3
  <1>4. /\ [c \in Bookings |-> Stage(row'[c].status)]
             = [[c \in Bookings |-> Stage(row[c].status)] EXCEPT ![b] = Stage(r.status)]
        /\ [c \in Bookings |-> row'[c].partner] = [c \in Bookings |-> row[c].partner]
        /\ [c \in Bookings |-> money'[c].payouts] = [c \in Bookings |-> money[c].payouts]
        /\ {c \in Bookings : money'[c].refunds > 0} = {c \in Bookings : money[c].refunds > 0}
    BY <1>1 DEF Paid
  <1>5. CASE Stage(r.status) = Stage(row[b].status)
    <2>1. [c \in Bookings |-> Stage(row'[c].status)] = [c \in Bookings |-> Stage(row[c].status)]
      BY <1>4, <1>5
    <2> QED BY <1>3, <1>4, <2>1 DEF SoundFor, Promised, Engaged!promise
  <1>6. CASE row[b].status \in Unoffered /\ r.status = "PARTNER_SEARCHING"
    <2>1. Stage(row[b].status) = "none" /\ Stage(r.status) = "offered"
      BY <1>6, StageValues DEF Unoffered
    <2>2. Engaged!Offer(b)
      BY <1>4, <2>1 DEF Engaged!Offer, Engaged!Advance
    <2> QED BY <1>3, <2>2 DEF SoundFor, Promised, Engaged!PromiseNext
  <1>7. CASE <<row[b].status, r.status>> \in Workflow
    <2>1. <<Stage(row[b].status), Stage(r.status)>> \in
             {<<"taken", "coded">>, <<"coded", "started">>, <<"started", "finishing">>}
      BY <1>7, StageValues DEF Workflow
    <2>2. Engaged!Proceed(b)
      BY <1>4, <2>1 DEF Engaged!Proceed, Engaged!Advance
    <2> QED BY <1>3, <2>2 DEF SoundFor, Promised, Engaged!PromiseNext
  <1>8. CASE row[b].status # "COMPLETED" /\ r.status \in {"CANCELLED", "EXPIRED"}
    <2>1. Stage(row[b].status) # "settled" /\ Stage(r.status) = "closed"
      BY <1>8, StageValues, StageTells DEF Context, TypeOK, Row
    <2>2. [c \in Bookings |-> Stage(row'[c].status)]
            = [c \in Bookings |-> IF c \in {b} THEN "closed" ELSE Stage(row[c].status)]
      BY <1>4, <2>1
    <2>3. {b} \in SUBSET {c \in Bookings : [d \in Bookings |-> Stage(row[d].status)][c] # "settled"}
      BY <2>1
    <2>4. Engaged!Close
      BY <1>4, <2>2, <2>3 DEF Engaged!Close
    <2> QED BY <1>3, <2>4 DEF SoundFor, Promised, Engaged!PromiseNext
  <1>9. CASE row[b].status \in Unoffered /\ r.status \in {"PAYMENT_PENDING", "PAYMENT_INITIATED"}
    BY <1>5, <1>9, StageValues DEF Unoffered
  <1> QED BY <1>5, <1>6, <1>7, <1>8, <1>9

(* A claim of an offered row for a partner. *)
LEMMA ClaimStep ==
  ASSUME Context, NEW s \in Slots, NEW b \in Bookings, NEW p \in Partners, NEW r, Save(b, r),
         row[b].status = "PARTNER_SEARCHING", r.partner = p,
         \/ r.status = "PARTNER_ASSIGNED"
         \/ r.status = "PARTNER_ACCEPTED" /\ ~Laboring(p) /\ At(s, "accept.claim") /\ call[s].who = p,
         \A c \in Bookings : Paid(c), Due(s)'
  PROVE  SoundFor(s)
  <1>1. row'[b] = r /\ \A c \in Bookings \ {b} : row'[c] = row[c]
    BY DEF Context, TypeOK, Save
  <1>2. Unsold' /\ Due(s)' /\ Hired(s)
    <2>1. Unsold'
      BY <1>1 DEF Context, AllDue, Unsold
    <2>2. CASE r.status = "PARTNER_ASSIGNED"
      BY <1>1, <2>1, <2>2 DEF Hired, Laboring, Pending
    <2>3. CASE At(s, "accept.claim") /\ call[s].who = p
      BY <1>1, <2>1, <2>3 DEF Hired, Laboring
    <2> QED BY <2>2, <2>3
  <1>3. /\ [c \in Bookings |-> Stage(row'[c].status)]
             = [[c \in Bookings |-> Stage(row[c].status)] EXCEPT ![b] = Stage(r.status)]
        /\ [c \in Bookings |-> row'[c].partner]
             = [[c \in Bookings |-> row[c].partner] EXCEPT ![b] = p]
        /\ [c \in Bookings |-> money'[c].payouts] = [c \in Bookings |-> money[c].payouts]
        /\ {c \in Bookings : money'[c].refunds > 0} = {c \in Bookings : money[c].refunds > 0}
        /\ Stage(row[b].status) = "offered"
    BY <1>1, StageValues DEF Paid
  <1>4. CASE r.status = "PARTNER_ASSIGNED"
    <2>1. Engaged!Reserve(b, p)
      BY <1>3, <1>4, StageValues DEF Engaged!Reserve, Engaged!Advance
    <2> QED BY <1>2, <2>1 DEF SoundFor, Promised, Engaged!PromiseNext
  <1>5. CASE r.status = "PARTNER_ACCEPTED" /\ ~Laboring(p)
    <2>1. ~Engaged!Working(p)
      <3> SUFFICES ASSUME NEW c \in Bookings, row[c].partner = p,
                          Stage(row[c].status) \in {"taken", "coded", "started"}
                   PROVE  Laboring(p)
        BY <1>5 DEF Engaged!Working
      <3>1. row[c].status \in Status
        BY DEF Context, TypeOK, Row
      <3> QED BY <3>1, StageTells DEF Laboring
    <2>2. Engaged!Take(b, p)
      BY <1>3, <1>5, <2>1, StageValues DEF Engaged!Take, Engaged!Advance
    <2> QED BY <1>2, <2>2 DEF SoundFor, Promised, Engaged!PromiseNext
  <1> QED BY <1>4, <1>5

(* Money given back for a row that is closed. *)
LEMMA ReturnStep ==
  ASSUME Context, NEW s \in Slots, NEW b \in Bookings, Refund(b),
         Stage(row[b].status) = "closed", Due(s)'
  PROVE  SoundFor(s)
  <1>1. \A c \in Bookings : row'[c].status = row[c].status /\ row'[c].partner = row[c].partner
    BY DEF Context, TypeOK, Row, Refund, Save
  <1>2. /\ \A c \in Bookings : money'[c].payouts = money[c].payouts
        /\ \A c \in Bookings \ {b} : money'[c].refunds = money[c].refunds
        /\ money'[b].refunds > 0
    BY DEF Context, TypeOK, Ledger, Refund, Post
  <1>3. {c \in Bookings : money'[c].refunds > 0} = {c \in Bookings : money[c].refunds > 0} \cup {b}
    BY <1>2
  <1>4. /\ [c \in Bookings |-> Stage(row'[c].status)] = [c \in Bookings |-> Stage(row[c].status)]
        /\ [c \in Bookings |-> row'[c].partner] = [c \in Bookings |-> row[c].partner]
        /\ [c \in Bookings |-> money'[c].payouts] = [c \in Bookings |-> money[c].payouts]
    BY <1>1, <1>2
  <1>5. Engaged!Return(b)
    BY <1>3, <1>4 DEF Engaged!Return
  <1>6. Unsold' /\ Hired(s)
    BY <1>1 DEF Context, AllDue, Unsold, Hired, Laboring
  <1> QED BY <1>5, <1>6 DEF SoundFor, Promised, Engaged!PromiseNext

(***************************************************************************)
(* One lemma per group of actions.                                         *)
(***************************************************************************)

LEMMA PaymentRequestSound ==
  ASSUME Context, NEW s \in Slots, NEW b \in Bookings, PaymentRequest(s, b)
  PROVE  SoundFor(s)
  <1> USE DEF Context
  <1>1. CASE CreateOnline(s, b)
    <2> DEFINE r == [NoRow EXCEPT !.status = "PARTNER_SEARCHING", !.pay = "PAID"]
    <2>1. Save(b, r) /\ Post(b, "holds") /\ row[b].status = "NONE" /\ row[b].partner = NoPartner
      BY <1>1 DEF CreateOnline, Custody, FreshRowsFree, Exists
    <2>2. r.status = "PARTNER_SEARCHING" /\ r.partner = NoPartner
      BY DEF NoRow
    <2>3. call'[s].at = "dispatch"
      BY <1>1, Begun DEF CreateOnline
    <2>4. Due(s)'
      BY <2>3, NothingDue DEF Watched
    <2>5. \A c \in Bookings : Paid(c)
      BY <2>1, PostedElse
    <2> HIDE DEF r, Context
    <2> QED BY <2>1, <2>2, <2>4, <2>5, StatusStep DEF Unoffered
  <1>2. ASSUME NEW m \in {"CASH", "UPI_MANUAL"}, CreateUnpaid(s, b, m)
        PROVE  SoundFor(s)
    <2> DEFINE r == [NoRow EXCEPT !.status = "PAYMENT_PENDING",
                                  !.pay = IF m = "CASH" THEN "PENDING_CASH" ELSE "VERIFICATION_PENDING",
                                  !.notes.method = m]
    <2>1. Save(b, r) /\ row[b].status = "NONE" /\ row[b].partner = NoPartner /\ UNCHANGED money
      BY <1>2 DEF CreateUnpaid, Custody, FreshRowsFree, Exists
    <2>2. r.status = "PAYMENT_PENDING" /\ r.partner = NoPartner
      BY DEF NoRow
    <2>3. call'[s].at = "dispatch"
      BY <1>2, Begun DEF CreateUnpaid
    <2>4. Due(s)'
      BY <2>3, NothingDue DEF Watched
    <2>5. \A c \in Bookings : Paid(c)
      BY <2>1 DEF Paid
    <2> HIDE DEF r, Context
    <2> QED BY <2>1, <2>2, <2>4, <2>5, StatusStep DEF Unoffered
  <1>3. CASE InitiatePayment(s, b)
    <2>1. call'[s].at = "initiate" /\ call'[s].b = b /\ row'[b].status = "PAYMENT_PENDING"
      BY <1>3, Begun DEF InitiatePayment
    <2>2. Due(s)'
      BY <2>1 DEF Due
    <2>3. UNCHANGED row /\ \A c \in Bookings : Paid(c)
      BY <1>3 DEF InitiatePayment, Paid
    <2> QED BY <2>2, <2>3, SilentStep
  <1>4. CASE VerifyPayment(s, b)
    <2> DEFINE r == [row[b] EXCEPT !.status = "PARTNER_SEARCHING", !.pay = "PAID"]
    <2>1. Save(b, r) /\ Post(b, "cards") /\ row[b].status = "PAYMENT_INITIATED"
      BY <1>4 DEF VerifyPayment
    <2>2. r.status = "PARTNER_SEARCHING" /\ r.partner = row[b].partner
      BY DEF TypeOK, Row
    <2>3. call'[s].at = "assign"
      BY <1>4, Begun DEF VerifyPayment
    <2>4. Due(s)'
      BY <2>3, NothingDue DEF Watched
    <2>5. \A c \in Bookings : Paid(c)
      BY <2>1, PostedElse
    <2> HIDE DEF r, Context
    <2> QED BY <2>1, <2>2, <2>4, <2>5, StatusStep DEF Unoffered
  <1> QED BY <1>1, <1>2, <1>3, <1>4 DEF PaymentRequest, NoReferences

LEMMA PaymentStepSound ==
  ASSUME Context, NEW s \in Slots, PaymentStep(s)
  PROVE  SoundFor(s)
  <1> DEFINE b == call[s].b
  <1> USE DEF Context
  <1>1. call[s].at # "idle" /\ Due(s)
    BY DEF PaymentStep, InitiatePaymentSave, SubmitUpiSave, SettleUpiClaim, SettleUpiAbort,
           AssignNobody, AssignBest, OpenSearchWindow, At, AllDue, Unsold
  <1>2. b \in Bookings /\ row[b] \in Row
    BY <1>1, RunningCall DEF TypeOK
  <1>3. Return(s) => Due(s)'
    BY ReturnedFree
  <1> HIDE DEF b
  <1>4. CASE InitiatePaymentSave(s)
    <2> DEFINE r == [row[b] EXCEPT !.status = "PAYMENT_INITIATED"]
    <2>1. Save(b, r) /\ Due(s)' /\ row[b].status = "PAYMENT_PENDING"
      BY <1>1, <1>3, <1>4 DEF InitiatePaymentSave, Due, At, b
    <2>2. r.status = "PAYMENT_INITIATED" /\ r.partner = row[b].partner
      BY <1>2 DEF Row
    <2>3. \A c \in Bookings : Paid(c)
      BY <1>4 DEF InitiatePaymentSave, Paid
    <2> HIDE DEF r, Context
    <2> QED BY <1>2, <2>1, <2>2, <2>3, StatusStep DEF Unoffered
  <1>5. CASE AssignNobody(s) \/ OpenSearchWindow(s)
    <2>1. UNCHANGED row /\ Due(s)' /\ \A c \in Bookings : Paid(c)
      BY <1>3, <1>5 DEF AssignNobody, OpenSearchWindow, Paid
    <2> QED BY <2>1, SilentStep
  <1>6. ASSUME NEW p \in Partners, AssignBest(s, p)
        PROVE  SoundFor(s)
    <2> DEFINE r == [row[b] EXCEPT !.partner = p, !.status = "PARTNER_ASSIGNED"]
    <2>1. Save(b, r) /\ Due(s)' /\ row[b].status = "PARTNER_SEARCHING"
      BY <1>3, <1>6 DEF AssignBest, Unclaimed, b
    <2>2. r.status = "PARTNER_ASSIGNED" /\ r.partner = p
      BY <1>2 DEF Row
    <2>3. \A c \in Bookings : Paid(c)
      BY <1>6 DEF AssignBest, Paid
    <2> HIDE DEF r, Context
    <2> QED BY <1>2, <2>1, <2>2, <2>3, ClaimStep
  <1>7. ~SubmitUpiSave(s) /\ ~SettleUpiClaim(s) /\ ~SettleUpiAbort(s)
    BY <1>1 DEF SubmitUpiSave, SettleUpiClaim, SettleUpiAbort, Due, At
  <1> QED BY <1>4, <1>5, <1>6, <1>7 DEF PaymentStep

LEMMA CancelEnds ==
  ASSUME TypeOK, NEW s \in Slots, call[s].at # "idle", EndCancel(s)
  PROVE  Due(s)'
  <1>1. CASE Return(s)
    BY <1>1, ReturnedFree
  <1>2. CASE Goto(s, "sweep.mark")
    BY <1>2, Gone, NothingDue DEF Watched
  <1> QED BY <1>1, <1>2 DEF EndCancel

LEMMA DispatchSound ==
  ASSUME Context, NEW s \in Slots, DispatchStep(s)
  PROVE  SoundFor(s)
  <1> DEFINE b == call[s].b
  <1> USE DEF Context
  <1>1. call[s].at # "idle" /\ Due(s)
    BY DEF DispatchStep, Dispatch, ExpireCheck, ExpireRefund, SweepMark, CancelRead, CancelClaim,
           CancelRefund, At, AllDue, Unsold
  <1>2. b \in Bookings /\ row[b] \in Row
    BY <1>1, RunningCall DEF TypeOK
  <1>3. Return(s) => Due(s)'
    BY ReturnedFree
  <1>4. EndCancel(s) => Due(s)'
    BY <1>1, CancelEnds
  <1> HIDE DEF b
  <1>5. CASE Dispatch(s) \/ SweepMark(s)
    <2>1. UNCHANGED row /\ Due(s)' /\ \A c \in Bookings : Paid(c)
      BY <1>3, <1>5 DEF Dispatch, SweepMark, Paid
    <2> QED BY <2>1, SilentStep
  <1>6. CASE ExpireCheck(s)
    <2>1. UNCHANGED row /\ \A c \in Bookings : Paid(c)
      BY <1>6 DEF ExpireCheck, Paid
    <2>2. CASE Goto(s, "expire.refund")
      <3>1. call'[s].at = "expire.refund" /\ call'[s].b = b
        BY <1>1, <2>2, Gone DEF b
      <3>2. row'[b].status = "EXPIRED"
        BY <1>1, <1>6, <2>1 DEF Due, ExpireCheck, At, b
      <3>3. Due(s)'
        BY <3>1, <3>2 DEF Due
      <3> QED BY <2>1, <3>3, SilentStep
    <2>3. CASE Return(s)
      BY <1>3, <2>1, <2>3, SilentStep
    <2> QED BY <1>6, <2>2, <2>3 DEF ExpireCheck
  <1>7. CASE ExpireRefund(s)
    <2>1. Refund(b) /\ row[b].status = "EXPIRED" /\ Due(s)'
      BY <1>1, <1>3, <1>7 DEF ExpireRefund, Due, At, b
    <2>2. Stage(row[b].status) = "closed"
      BY <2>1, StageValues
    <2> QED BY <1>2, <2>1, <2>2, ReturnStep
  <1>8. CASE CancelRead(s)
    <2>1. UNCHANGED row /\ \A c \in Bookings : Paid(c)
      BY <1>8 DEF CancelRead, Paid
    <2>2. CASE EndCancel(s)
      BY <1>4, <2>1, <2>2, SilentStep
    <2>3. CASE GotoSeeing(s, "cancel.claim", SeenStage(row[b]))
      <3>1. Due(s)'
        BY <2>3, GoneSeeing, NothingDue DEF Watched
      <3> QED BY <2>1, <3>1, SilentStep
    <2> QED BY <1>8, <2>2, <2>3 DEF CancelRead, b
  <1>9. CASE CancelClaim(s)
    <2>1. \A c \in Bookings : Paid(c)
      BY <1>9 DEF CancelClaim, Paid
    <2>2. CASE EndCancel(s) /\ UNCHANGED row
      BY <1>4, <2>1, <2>2, SilentStep
    <2>3. CASE /\ row[b].status \notin Terminal
               /\ Save(b, [row[b] EXCEPT !.status = "CANCELLED"])
               /\ Goto(s, "cancel.refund") \/ EndCancel(s)
      <3> DEFINE r == [row[b] EXCEPT !.status = "CANCELLED"]
      <3>1. Save(b, r) /\ row[b].status # "COMPLETED" /\ r.status = "CANCELLED" /\ r.partner = row[b].partner
        BY <1>2, <2>3 DEF Terminal, Row
      <3>2. row'[b].status = "CANCELLED"
        BY <1>2, <3>1 DEF TypeOK, Save
      <3>3. Goto(s, "cancel.refund") => Due(s)'
        <4> SUFFICES ASSUME Goto(s, "cancel.refund") PROVE Due(s)'
          OBVIOUS
        <4>1. call'[s].at = "cancel.refund" /\ call'[s].b = b
          BY <1>1, Gone DEF b
        <4> QED BY <3>2, <4>1 DEF Due
      <3>4. Due(s)'
        BY <1>4, <2>3, <3>3
      <3> HIDE DEF r, Context
      <3> QED BY <1>2, <2>1, <3>1, <3>4, StatusStep
    <2> QED BY <1>9, <2>2, <2>3 DEF CancelClaim, b
  <1>10. CASE CancelRefund(s)
    <2>1. Refund(b) /\ row[b].status = "CANCELLED" /\ Due(s)'
      BY <1>1, <1>4, <1>10 DEF CancelRefund, Due, At, b
    <2>2. Stage(row[b].status) = "closed"
      BY <2>1, StageValues
    <2> QED BY <1>2, <2>1, <2>2, ReturnStep
  <1> QED BY <1>5, <1>6, <1>7, <1>8, <1>9, <1>10 DEF DispatchStep

LEMMA DispatchRequestSound ==
  ASSUME Context, NEW s \in Slots, NEW b \in Bookings, DispatchRequest(s, b)
  PROVE  SoundFor(s)
  <1> USE DEF Context
  <1>1. row[b] \in Row
    BY DEF TypeOK
  <1>2. CASE TimerFires(s, b) /\ Unclaimed(row[b])
    <2> DEFINE r == [row[b] EXCEPT !.status = "EXPIRED"]
    <2>1. Save(b, r) /\ Begin(s, "expire.check", b, "SYSTEM", SeenNothing)
          /\ row[b].status = "PARTNER_SEARCHING"
      BY <1>2 DEF TimerFires, Unclaimed
    <2>2. r.status = "EXPIRED" /\ r.partner = row[b].partner
      BY <1>1 DEF Row
    <2>3. row'[b].status = "EXPIRED"
      BY <2>1, <2>2 DEF TypeOK, Save
    <2>4. call'[s].at = "expire.check" /\ call'[s].b = b
      BY <2>1, Begun
    <2>5. Due(s)'
      BY <2>3, <2>4 DEF Due
    <2>6. \A c \in Bookings : Paid(c)
      BY <1>2 DEF TimerFires, Paid
    <2> HIDE DEF r, Context
    <2> QED BY <2>1, <2>2, <2>5, <2>6, StatusStep
  <1>3. CASE TimerFires(s, b) /\ ~Unclaimed(row[b])
    <2>1. UNCHANGED <<row, call>> /\ \A c \in Bookings : Paid(c)
      BY <1>3 DEF TimerFires, Paid
    <2>2. Due(s)'
      BY <2>1 DEF AllDue, Unsold, Due, Laboring
    <2> QED BY <2>1, <2>2, SilentStep
  <1>4. CASE Sweep(s, b) \/ RequestCancel(s, b) \/ RejectAccepted(s, b)
    <2>1. UNCHANGED row /\ \A c \in Bookings : Paid(c)
      BY <1>4 DEF Sweep, RequestCancel, RejectAccepted, Paid
    <2>2. call'[s].at \in {"cancel.read", "sweep.mark"}
      BY <1>4, Begun DEF Sweep, RequestCancel, RejectAccepted
    <2>3. Due(s)'
      BY <2>2, NothingDue DEF Watched
    <2> QED BY <2>1, <2>3, SilentStep
  <1> QED BY <1>2, <1>3, <1>4 DEF DispatchRequest

LEMMA JobRequestSound ==
  ASSUME Context, NEW s \in Slots, NEW b \in Bookings, JobRequest(s, b)
  PROVE  SoundFor(s)
  <1> USE DEF Context
  <1>1. UNCHANGED row /\ \A c \in Bookings : Paid(c)
    BY DEF JobRequest, Accept, IssueStartOtp, GenerateOtp, MarkTravelling, MarkArrived, VerifyStartOtp,
           RequestCompletion, IssueCompletionOtp, VerifyCompletionOtp, Complete, SelectPayment, Paid
  <1> SUFFICES Due(s)'
    BY <1>1, SilentStep
  <1>2. ASSUME NEW p \in Partners, NEW route \in {"bookings", "partner"}, Accept(s, b, p, route)
        PROVE  Due(s)'
    <2>1. call'[s].at = "accept.claim" /\ call'[s].who = p
      BY <1>2, Begun DEF Accept
    <2>2. ~Laboring(p)
      BY <1>2 DEF Accept, Busy, ActiveStatus, Laboring
    <2>3. ~Laboring(p)'
      BY <1>1, <2>2 DEF Laboring
    <2> HIDE DEF Laboring
    <2> QED BY <2>1, <2>3 DEF Due
  <1>3. CASE IssueStartOtp(s, b)
    <2>1. /\ call'[s].at = "otp.mint" /\ call'[s].b = b /\ call'[s].seen = SeenJob(row[b])
          /\ row'[b].status \in Pending
      BY <1>1, <1>3, Begun DEF IssueStartOtp
    <2>2. SeenJob(row[b]).status = row[b].status
      BY DEF SeenJob, SeenNothing
    <2> QED BY <1>1, <2>1, <2>2 DEF Due
  <1>4. CASE MarkArrived(s, b)
    <2>1. call'[s].at = "arrive.save" /\ call'[s].b = b /\ row'[b].status \in Pending
      BY <1>1, <1>4, Begun DEF MarkArrived
    <2> QED BY <2>1 DEF Due
  <1>5. CASE VerifyStartOtp(s, b)
    <2>1. PICK at \in {"start.verify", "start.wrong"} : Begin(s, at, b, "PARTY", SeenNotes(row[b]))
      BY <1>5 DEF VerifyStartOtp
    <2>2. call'[s].at = at /\ call'[s].b = b /\ row'[b].status = "OTP_GENERATED"
      BY <1>1, <1>5, <2>1, Begun DEF VerifyStartOtp
    <2> QED BY <2>2 DEF Due
  <1>6. CASE RequestCompletion(s, b)
    <2>1. call'[s].at = "done.request" /\ call'[s].b = b /\ row'[b].status = "IN_PROGRESS"
      BY <1>1, <1>6, Begun DEF RequestCompletion
    <2> QED BY <2>1 DEF Due
  <1>7. CASE Complete(s, b)
    <2>1. call'[s].at = "complete" /\ call'[s].b = b /\ row'[b].status = "COMPLETION_REQUESTED"
      BY <1>1, <1>7, Begun DEF Complete
    <2> QED BY <2>1 DEF Due
  <1>8. CASE GenerateOtp(s, b) \/ MarkTravelling(s, b)
    <2>1. call'[s].at \in {"otp.generate", "travel.save"}
      BY <1>8, Begun DEF GenerateOtp, MarkTravelling
    <2> QED BY <2>1, NothingDue DEF Watched
  <1>9. CASE IssueCompletionOtp(s, b) \/ VerifyCompletionOtp(s, b)
    <2>1. call'[s].at \in {"done.issue", "done.verify", "done.wrong"}
      BY <1>9, Begun DEF IssueCompletionOtp, VerifyCompletionOtp
    <2> QED BY <2>1, NothingDue DEF Watched
  <1>10. ASSUME NEW m \in {"CASH", "UPI_MANUAL"}, SelectPayment(s, b, m)
         PROVE  Due(s)'
    <2>1. call'[s].at = "select"
      BY <1>10, Begun DEF SelectPayment
    <2> QED BY <2>1, NothingDue DEF Watched
  <1> QED BY <1>2, <1>3, <1>4, <1>5, <1>6, <1>7, <1>8, <1>9, <1>10 DEF JobRequest

(* The write of a job handler: the row of its booking keeps its partner    *)
(* and moves along the workflow, if it moves; nobody is paid.              *)
LEMMA JobWrite ==
  ASSUME Context, NEW s \in Slots, call[s].at # "idle", NEW r, Save(call[s].b, r), UNCHANGED money,
         r.partner = row[call[s].b].partner,
         r.status = row[call[s].b].status \/ <<row[call[s].b].status, r.status>> \in Workflow,
         Due(s)'
  PROVE  SoundFor(s)
  <1>1. call[s].b \in Bookings
    BY RunningCall DEF Context, TypeOK
  <1>2. \A c \in Bookings : Paid(c)
    BY DEF Paid
  <1> QED BY <1>1, <1>2, StatusStep

LEMMA TripSound ==
  ASSUME Context, NEW s \in Slots,
         AcceptClaim(s) \/ MintStartOtp(s) \/ GenerateOtpClaim(s) \/ SaveTrip(s) \/ ArriveFresh(s)
  PROVE  SoundFor(s)
  <1> DEFINE b == call[s].b
  <1> DEFINE seen == call[s].seen
  <1> USE DEF Context
  <1>1. call[s].at # "idle" /\ Due(s) /\ UNCHANGED money
    BY DEF AcceptClaim, MintStartOtp, GenerateOtpClaim, SaveTrip, ArriveFresh, At, AllDue, Unsold
  <1>2. b \in Bookings /\ row[b] \in Row
    BY <1>1, RunningCall DEF TypeOK
  <1>3. Return(s) => Due(s)'
    BY ReturnedFree
  <1>4. \A c \in Bookings : Paid(c)
    BY <1>1 DEF Paid
  <1>5. CASE AcceptClaim(s) /\ UNCHANGED row
    BY <1>3, <1>4, <1>5, SilentStep DEF AcceptClaim
  <1>6. CASE AcceptClaim(s) /\ Save(b, [row[b] EXCEPT !.partner = call[s].who, !.status = "PARTNER_ACCEPTED"])
                            /\ row[b].status \in {"PARTNER_SEARCHING", "PAYMENT_SUCCESSFUL"}
    <2> DEFINE r == [row[b] EXCEPT !.partner = call[s].who, !.status = "PARTNER_ACCEPTED"]
    <2>1. call[s].at = "accept.claim" /\ Return(s)
      BY <1>6 DEF AcceptClaim, At
    <2>2. call[s].who \in Partners
      BY <1>1, <2>1, RunningCall DEF TypeOK
    <2>3. ~Laboring(call[s].who)
      BY <1>1, <2>1 DEF Due
    <2>4. r.status = "PARTNER_ACCEPTED" /\ r.partner = call[s].who
      BY <1>2 DEF Row
    <2>5. Save(b, r) /\ row[b].status = "PARTNER_SEARCHING"
      BY <1>2, <1>6 DEF AllDue, Unsold
    <2>6. At(s, "accept.claim")
      BY <2>1 DEF At
    <2> HIDE DEF r, b, Context
    <2> QED BY <1>2, <1>3, <1>4, <2>1, <2>2, <2>3, <2>4, <2>5, <2>6, ClaimStep
  <1>7. CASE MintStartOtp(s)
    <2> DEFINE r == [row[b] EXCEPT
                       !.status = IF seen.status = "PARTNER_ACCEPTED" THEN "OTP_GENERATED" ELSE seen.status,
                       !.otp = "sent",
                       !.notes = [seen.notes EXCEPT !.start = "live"]]
    <2>1. Save(b, r) /\ Due(s)' /\ row[b].status \in Pending /\ seen.status = row[b].status
      BY <1>1, <1>3, <1>7 DEF MintStartOtp, Due, At
    <2>2. /\ r.partner = row[b].partner
          /\ r.status = IF seen.status = "PARTNER_ACCEPTED" THEN "OTP_GENERATED" ELSE seen.status
      BY <1>2 DEF Row
    <2>3. r.status = row[b].status \/ <<row[b].status, r.status>> \in Workflow
      BY <2>1, <2>2 DEF Pending, Workflow
    <2> HIDE DEF r, Context
    <2> QED BY <1>1, <2>1, <2>2, <2>3, JobWrite
  <1>8. CASE GenerateOtpClaim(s) /\ UNCHANGED row
    BY <1>3, <1>4, <1>8, SilentStep DEF GenerateOtpClaim
  <1>9. CASE GenerateOtpClaim(s) /\ row[b].status \in Pending
    <2> DEFINE r == [row[b] EXCEPT !.status = "OTP_GENERATED", !.otp = "sent",
                                   !.notes = [seen.notes EXCEPT !.start = "live"]]
    <2>1. Save(b, r) /\ Due(s)'
      BY <1>3, <1>9 DEF GenerateOtpClaim
    <2>2. r.partner = row[b].partner /\ r.status = "OTP_GENERATED"
      BY <1>2 DEF Row
    <2>3. r.status = row[b].status \/ <<row[b].status, r.status>> \in Workflow
      BY <1>9, <2>2 DEF Pending, Workflow
    <2> HIDE DEF r, Context
    <2> QED BY <1>1, <2>1, <2>2, <2>3, JobWrite
  <1>10. CASE SaveTrip(s)
    <2> DEFINE r == [row[b] EXCEPT !.notes = seen.notes]
    <2>1. Save(b, r)
      BY <1>10 DEF SaveTrip
    <2>2. r.partner = row[b].partner /\ r.status = row[b].status
      BY <1>2 DEF Row
    <2>3. row'[b].status = row[b].status
      BY <1>2, <2>1, <2>2 DEF TypeOK, Save
    <2>4. CASE call[s].at = "arrive.save" /\ Goto(s, "arrive.fresh")
      <3>1. call'[s].at = "arrive.fresh" /\ call'[s].b = b
        BY <1>1, <2>4, Gone
      <3>2. row'[b].status \in Pending
        BY <1>1, <2>3, <2>4 DEF Due
      <3>3. Due(s)'
        BY <3>1, <3>2 DEF Due
      <3> HIDE DEF r, Context
      <3> QED BY <1>1, <2>1, <2>2, <3>3, JobWrite
    <2>5. CASE Return(s)
      <3> HIDE DEF r, Context
      <3> QED BY <1>1, <1>3, <2>1, <2>2, <2>5, JobWrite
    <2> QED BY <1>10, <2>4, <2>5 DEF SaveTrip, At
  <1>11. CASE ArriveFresh(s)
    <2>1. GotoSeeing(s, "otp.mint", SeenJob(row[b])) /\ UNCHANGED row /\ row[b].status \in Pending
      BY <1>1, <1>11 DEF ArriveFresh, Due, At
    <2>2. /\ call'[s].at = "otp.mint" /\ call'[s].b = b
          /\ call'[s].seen = SeenJob(row[b])
      BY <2>1, GoneSeeing
    <2>3. SeenJob(row[b]).status = row[b].status
      BY DEF SeenJob, SeenNothing
    <2>4. Due(s)'
      BY <2>1, <2>2, <2>3 DEF Due
    <2> QED BY <1>4, <2>1, <2>4, SilentStep
  <1>12. /\ AcceptClaim(s) => \/ UNCHANGED row
                              \/ /\ Save(b, [row[b] EXCEPT !.partner = call[s].who,
                                                           !.status = "PARTNER_ACCEPTED"])
                                 /\ row[b].status \in {"PARTNER_SEARCHING", "PAYMENT_SUCCESSFUL"}
         /\ GenerateOtpClaim(s) => UNCHANGED row \/ row[b].status \in Pending
    BY DEF AcceptClaim, GenerateOtpClaim
  <1> QED BY <1>5, <1>6, <1>7, <1>8, <1>9, <1>10, <1>11, <1>12

LEMMA CodesSound ==
  ASSUME Context, NEW s \in Slots,
         \/ StartJob(s) \/ WrongCode(s) \/ SaveCompletionRequest(s) \/ SaveCompletionOtp(s)
         \/ SaveCompletionVerified(s) \/ SaveSelection(s)
  PROVE  SoundFor(s)
  <1> DEFINE b == call[s].b
  <1> DEFINE seen == call[s].seen
  <1> USE DEF Context
  <1>1. call[s].at # "idle" /\ Due(s) /\ UNCHANGED money
    BY DEF StartJob, WrongCode, SaveCompletionRequest, SaveCompletionOtp, SaveCompletionVerified,
           SaveSelection, At, AllDue, Unsold
  <1>2. b \in Bookings /\ row[b] \in Row
    BY <1>1, RunningCall DEF TypeOK
  <1>3. Return(s) => Due(s)'
    BY ReturnedFree
  <1>4. CASE StartJob(s)
    <2> DEFINE r == [row[b] EXCEPT !.status = "IN_PROGRESS", !.otp = "checked",
                                   !.notes = [seen.notes EXCEPT !.start = "verified"]]
    <2>1. Save(b, r) /\ Due(s)' /\ row[b].status = "OTP_GENERATED"
      BY <1>1, <1>3, <1>4 DEF StartJob, Due, At
    <2>2. r.partner = row[b].partner /\ r.status = "IN_PROGRESS"
      BY <1>2 DEF Row
    <2> HIDE DEF r, Context
    <2> QED BY <1>1, <2>1, <2>2, JobWrite DEF Workflow
  <1>5. ASSUME NEW notes, Save(b, [row[b] EXCEPT !.notes = notes]), Return(s)
        PROVE  SoundFor(s)
    <2> DEFINE r == [row[b] EXCEPT !.notes = notes]
    <2>1. r.partner = row[b].partner /\ r.status = row[b].status
      BY <1>2 DEF Row
    <2>2. Save(b, r) /\ Due(s)'
      BY <1>3, <1>5
    <2> HIDE DEF r, Context
    <2> QED BY <1>1, <2>1, <2>2, JobWrite
  <1>6. CASE WrongCode(s)
    <2>1. /\ Return(s)
          /\ \E notes : Save(b, [row[b] EXCEPT !.notes = notes])
      BY <1>6 DEF WrongCode
    <2> HIDE DEF Context
    <2> QED BY <1>5, <2>1
  <1>7. CASE SaveCompletionRequest(s)
    <2> DEFINE r == [row[b] EXCEPT !.status = "COMPLETION_REQUESTED", !.notes = seen.notes]
    <2>1. Save(b, r) /\ row[b].status = "IN_PROGRESS"
      BY <1>1, <1>7 DEF SaveCompletionRequest, Due, At
    <2>2. r.partner = row[b].partner /\ r.status = "COMPLETION_REQUESTED"
      BY <1>2 DEF Row
    <2>3. Goto(s, "done.code") => Due(s)'
      BY <1>1, Gone, NothingDue DEF Watched
    <2>4. Due(s)'
      BY <1>3, <1>7, <2>3 DEF SaveCompletionRequest
    <2> HIDE DEF r, Context
    <2> QED BY <1>1, <2>1, <2>2, <2>4, JobWrite DEF Workflow
  <1>8. CASE SaveCompletionOtp(s)
    <2>1. Return(s) /\ Save(b, [row[b] EXCEPT !.notes = [seen.notes EXCEPT !.done = "live"]])
      BY <1>8 DEF SaveCompletionOtp
    <2> HIDE DEF Context
    <2> QED BY <1>5, <2>1
  <1>9. CASE SaveCompletionVerified(s)
    <2>1. Return(s) /\ Save(b, [row[b] EXCEPT !.notes = [seen.notes EXCEPT !.done = "verified"]])
      BY <1>9 DEF SaveCompletionVerified
    <2> HIDE DEF Context
    <2> QED BY <1>5, <2>1
  <1>10. CASE SaveSelection(s)
    <2> DEFINE paid == [row[b] EXCEPT !.notes = seen.notes, !.pay = "PAID"]
    <2> DEFINE cash == seen.notes.method = "CASH"
    <2> DEFINE chosen == [row[b] EXCEPT !.notes = seen.notes,
                            !.pay = IF cash THEN "PENDING_CASH" ELSE "VERIFICATION_PENDING",
                            !.status = IF cash THEN "OTP_GENERATED" ELSE @]
    <2>1. Due(s)'
      BY <1>3, <1>10 DEF SaveSelection
    <2>2. \/ UNCHANGED row
          \/ row[b].status \in Pending /\ (Save(b, paid) \/ Save(b, chosen))
      BY <1>10 DEF SaveSelection
    <2>3. /\ paid.partner = row[b].partner /\ paid.status = row[b].status
          /\ chosen.partner = row[b].partner /\ chosen.status \in {row[b].status, "OTP_GENERATED"}
      BY <1>2 DEF Row
    <2> HIDE DEF paid, chosen, cash
    <2>4. row[b].status \in Pending =>
            \/ chosen.status = row[b].status
            \/ <<row[b].status, chosen.status>> \in Workflow
      BY <2>3 DEF Pending, Workflow
    <2>5. CASE UNCHANGED row
      <3>1. \A c \in Bookings : Paid(c)
        BY <1>1 DEF Paid
      <3> QED BY <2>1, <2>5, <3>1, SilentStep
    <2>6. CASE row[b].status \in Pending /\ Save(b, paid)
      <3> HIDE DEF Context
      <3> QED BY <1>1, <2>1, <2>3, <2>6, JobWrite
    <2>7. CASE row[b].status \in Pending /\ Save(b, chosen)
      <3> HIDE DEF Context
      <3> QED BY <1>1, <2>1, <2>3, <2>4, <2>7, JobWrite
    <2> QED BY <2>2, <2>5, <2>6, <2>7
  <1> QED BY <1>4, <1>6, <1>7, <1>8, <1>9, <1>10

(* The claim of completeBooking, with a payout or without. *)
LEMMA CompleteSound ==
  ASSUME Context, NEW s \in Slots, CompleteClaim(s)
  PROVE  SoundFor(s)
  <1> USE DEF Context
  <1>1. call[s].at = "complete" /\ Due(s) /\ Return(s)
    BY DEF CompleteClaim, At, AllDue, Unsold
  <1>2. PICK b \in Bookings : b = call[s].b
    BY <1>1, RunningCall DEF TypeOK
  <1> DEFINE r == [row[b] EXCEPT !.status = "COMPLETED",
                                 !.notes = [call[s].seen.notes EXCEPT !.done = "verified"]]
  <1>3. row[b] \in Row /\ row[b].status = "COMPLETION_REQUESTED"
    BY <1>1, <1>2 DEF TypeOK, Due
  <1>4. Save(b, r) /\ (UNCHANGED money \/ Post(b, "payouts"))
    BY <1>2, <1>3 DEF CompleteClaim
  <1>5. row'[b].status = "COMPLETED" /\ row'[b].partner = row[b].partner
        /\ \A c \in Bookings \ {b} : row'[c] = row[c]
    BY <1>3, <1>4 DEF TypeOK, Save, Row
  <1> HIDE DEF r
  <1>6. Unsold' /\ Due(s)' /\ Hired(s)
    <2>1. Due(s)'
      BY <1>1, ReturnedFree
    <2>2. Unsold' /\ Hired(s)
      BY <1>5 DEF AllDue, Unsold, Hired, Laboring, Pending
    <2> QED BY <2>1, <2>2
  <1>7. /\ Stage(row[b].status) = "finishing"
        /\ [c \in Bookings |-> Stage(row'[c].status)]
             = [[c \in Bookings |-> Stage(row[c].status)] EXCEPT ![b] = "settled"]
        /\ [c \in Bookings |-> row'[c].partner] = [c \in Bookings |-> row[c].partner]
    BY <1>3, <1>5, StageValues
  <1>8. CASE UNCHANGED money
    <2>1. Engaged!Settle(b)
      BY <1>7, <1>8 DEF Engaged!Settle, Engaged!Advance
    <2> QED BY <1>6, <2>1 DEF SoundFor, Promised, Engaged!PromiseNext
  <1>9. CASE Post(b, "payouts")
    <2>1. /\ \A c \in Bookings : money'[c].refunds = money[c].refunds
          /\ money'[b].payouts = money[b].payouts + 1
          /\ \A c \in Bookings \ {b} : money'[c].payouts = money[c].payouts
      BY <1>9 DEF TypeOK, Ledger, Post
    <2>2. /\ [c \in Bookings |-> money'[c].payouts]
               = [[c \in Bookings |-> money[c].payouts] EXCEPT ![b] = @ + 1]
          /\ {c \in Bookings : money'[c].refunds > 0} = {c \in Bookings : money[c].refunds > 0}
      BY <2>1
    <2>3. Engaged!Settle(b)
      BY <1>7, <2>2 DEF Engaged!Settle, Engaged!Advance
    <2> QED BY <1>6, <2>3 DEF SoundFor, Promised, Engaged!PromiseNext
  <1> QED BY <1>4, <1>8, <1>9

(* Codes lapse and time passes between the calls of the handler. *)
LEMMA BackgroundSound ==
  ASSUME Context, NEW b \in Bookings, AdminUpi(b) \/ CodeLapses(b) \/ Tick(b)
  PROVE  Sound
  <1> USE DEF Context
  <1>1. UNCHANGED <<call, money>>
    BY DEF AdminUpi, RejectUpi, RequestUpiInfo, CodeLapses, Tick
  <1>2. \A c \in Bookings : row'[c].status = row[c].status /\ row'[c].partner = row[c].partner
    <2>1. ~AdminUpi(b)
      BY DEF AdminUpi, NoReferences
    <2>2. UNCHANGED row \/ \E code \in Notes : Save(b, [row[b] EXCEPT !.notes = code])
      <3>1. row[b].notes \in Notes
        BY DEF TypeOK, Row
      <3>2. /\ [row[b].notes EXCEPT !.start = "none"] \in Notes
            /\ [row[b].notes EXCEPT !.done = "none"] \in Notes
        BY <3>1 DEF Notes, Code
      <3> QED BY <2>1, <3>2 DEF CodeLapses, Tick
    <2> QED BY <2>2 DEF TypeOK, Row, Save
  <1>3. UNCHANGED Engaged!promise
    BY <1>1, <1>2, NoMove DEF Paid
  <1>4. ASSUME NEW s \in Slots
        PROVE  Due(s)'
    <2>1. Due(s) /\ (call[s].at # "idle" => call[s].b \in Bookings)
      BY RunningCall DEF AllDue, Unsold, TypeOK
    <2>2. \A p : ~Laboring(p) => ~Laboring(p)'
      BY <1>2 DEF Laboring
    <2> HIDE DEF Laboring
    <2> QED BY <1>1, <1>2, <2>1, <2>2 DEF Due
  <1>5. AllDue'
    BY <1>2, <1>4 DEF AllDue, Unsold
  <1> QED BY <1>3, <1>5 DEF Sound, Promised

(* The sweep closes the searches it finds; no handler waits for one.       *)
LEMMA SweepSound ==
  ASSUME Context, LazySweep
  PROVE  Sound
  <1> USE DEF Context
  <1>1. PICK Stale \in SUBSET {b \in Bookings : Unclaimed(row[b]) /\ ~Dispatching(b)} :
          row' = [b \in Bookings |-> IF b \in Stale THEN [row[b] EXCEPT !.status = "EXPIRED"]
                                                     ELSE row[b]]
    BY DEF LazySweep
  <1>2. UNCHANGED <<call, money>>
    BY DEF LazySweep
  <1>3. \A b \in Bookings :
          /\ row'[b].partner = row[b].partner
          /\ b \in Stale => row[b].status = "PARTNER_SEARCHING" /\ row'[b].status = "EXPIRED"
          /\ b \notin Stale => row'[b].status = row[b].status
    BY <1>1 DEF TypeOK, Row, Unclaimed
  <1>4. ASSUME NEW s \in Slots
        PROVE  Due(s)'
    <2>1. Due(s) /\ (call[s].at # "idle" => call[s].b \in Bookings)
      BY RunningCall DEF AllDue, Unsold, TypeOK
    <2>2. \A p : ~Laboring(p) => ~Laboring(p)'
      BY <1>3 DEF Laboring, Pending
    <2> HIDE DEF Laboring
    <2> QED BY <1>2, <1>3, <2>1, <2>2 DEF Due, Pending
  <1>5. AllDue'
    BY <1>3, <1>4 DEF AllDue, Unsold
  <1>6. \A b \in Bookings : b \in Stale => Stage(row[b].status) = "offered" /\ Stage(row'[b].status) = "closed"
    BY <1>3, StageValues
  <1>7. Stale \in SUBSET {c \in Bookings : [d \in Bookings |-> Stage(row[d].status)][c] # "settled"}
    BY <1>6
  <1>8. [b \in Bookings |-> Stage(row'[b].status)]
          = [b \in Bookings |-> IF b \in Stale THEN "closed" ELSE [d \in Bookings |-> Stage(row[d].status)][b]]
    BY <1>3, <1>6
  <1>9. Engaged!Close
    BY <1>2, <1>3, <1>7, <1>8 DEF Engaged!Close
  <1> QED BY <1>5, <1>9 DEF Sound, Promised, Engaged!PromiseNext

LEMMA CrashSound ==
  ASSUME Context, Crash
  PROVE  Sound
  <1> USE DEF Context
  <1>1. \A b \in Bookings : row'[b] = row[b] /\ Paid(b)
    BY DEF Crash, Paid
  <1>2. \A s \in Slots : call'[s].at = "idle"
    BY DEF Crash, Idle
  <1>3. \A s \in Slots : Due(s)'
    BY <1>2, NothingDue DEF Watched
  <1>4. UNCHANGED Engaged!promise
    BY <1>1, NoMove
  <1>5. AllDue'
    BY <1>1, <1>3 DEF AllDue, Unsold
  <1> QED BY <1>4, <1>5 DEF Sound, Promised

(***************************************************************************)
(* The other handlers.                                                     *)
(***************************************************************************)

(* A step of a handler touches the row of its own booking only. *)
Touches(s, b) ==
  /\ Others(s) /\ \A c \in Bookings \ {b} : row'[c] = row[c]
  /\ \/ UNCHANGED row
     \/ call[s].at # "idle" /\ call[s].b = b
     \/ call'[s].at # "idle" /\ call'[s].b = b

LEMMA Moves ==
  ASSUME TypeOK, NEW s \in Slots,
         \/ UNCHANGED call
         \/ Return(s)
         \/ \E at, b, who, seen : Begin(s, at, b, who, seen)
         \/ \E at : Goto(s, at)
         \/ \E at, seen : GotoSeeing(s, at, seen)
  PROVE  Others(s)
  BY DEF TypeOK, Return, Begin, Goto, GotoSeeing, Others

LEMMA StepTouches ==
  ASSUME TypeOK, NEW s \in Slots, Step(s)
  PROVE  Touches(s, call[s].b)
  <1>1. call[s].at # "idle"
    BY DEF Step, PaymentStep, DispatchStep, JobStep, InitiatePaymentSave, SubmitUpiSave, SettleUpiClaim,
           SettleUpiAbort, AssignNobody, AssignBest, OpenSearchWindow, Dispatch, ExpireCheck, ExpireRefund,
           SweepMark, CancelRead, CancelClaim, CancelRefund, AcceptClaim, MintStartOtp, GenerateOtpClaim,
           SaveTrip, ArriveFresh, StartJob, WrongCode, SaveCompletionRequest, SaveCompletionOtp,
           SaveCompletionVerified, SaveSelection, CompleteClaim, At
  <1>2. Others(s)
    BY Moves
       DEF Step, PaymentStep, DispatchStep, JobStep, InitiatePaymentSave, SubmitUpiSave, SettleUpiClaim,
           SettleUpiAbort, AssignNobody, AssignBest, OpenSearchWindow, Dispatch, ExpireCheck, ExpireRefund,
           SweepMark, CancelRead, CancelClaim, CancelRefund, AcceptClaim, MintStartOtp, GenerateOtpClaim,
           SaveTrip, ArriveFresh, StartJob, WrongCode, SaveCompletionRequest, SaveCompletionOtp,
           SaveCompletionVerified, SaveSelection, CompleteClaim, EndCancel
  <1>3. UNCHANGED row \/ \E r : Save(call[s].b, r)
    BY DEF Step, PaymentStep, DispatchStep, JobStep, InitiatePaymentSave, SubmitUpiSave, SettleUpiClaim,
           SettleUpiAbort, AssignNobody, AssignBest, OpenSearchWindow, Dispatch, ExpireCheck, ExpireRefund,
           SweepMark, CancelRead, CancelClaim, CancelRefund, AcceptClaim, MintStartOtp, GenerateOtpClaim,
           SaveTrip, ArriveFresh, StartJob, WrongCode, SaveCompletionRequest, SaveCompletionOtp,
           SaveCompletionVerified, SaveSelection, CompleteClaim, Refund
  <1>4. \A c \in Bookings \ {call[s].b} : row'[c] = row[c]
    BY <1>3 DEF TypeOK, Save
  <1> QED BY <1>1, <1>2, <1>4 DEF Touches

LEMMA RequestTouches ==
  ASSUME TypeOK, NEW s \in Slots, NEW b \in Bookings,
         PaymentRequest(s, b) \/ DispatchRequest(s, b) \/ JobRequest(s, b)
  PROVE  Touches(s, b)
  <1>1. /\ UNCHANGED row \/ \E r : Save(b, r)
        /\ \/ UNCHANGED <<row, call>>
           \/ \E who, seen : \E at \in Steps \cup {"accept.claim", "upi.submit", "upi.settle"} :
                Begin(s, at, b, who, seen)
    BY DEF PaymentRequest, CreateOnline, CreateUnpaid, InitiatePayment, VerifyPayment, SubmitUpi, SettleUpi,
           DispatchRequest, TimerFires, Sweep, RequestCancel, RejectAccepted, JobRequest, Accept,
           IssueStartOtp, GenerateOtp, MarkTravelling, MarkArrived, VerifyStartOtp, RequestCompletion,
           IssueCompletionOtp, VerifyCompletionOtp, Complete, SelectPayment, Steps
  <1>2. CASE UNCHANGED <<row, call>>
    BY <1>2 DEF Touches, Others
  <1>3. CASE \E who, seen : \E at \in Steps \cup {"accept.claim", "upi.submit", "upi.settle"} :
               Begin(s, at, b, who, seen)
    <2>1. call'[s].at # "idle" /\ call'[s].b = b /\ Others(s)
      BY <1>3, Begun DEF Steps, Others
    <2>2. \A c \in Bookings \ {b} : row'[c] = row[c]
      BY <1>1 DEF TypeOK, Save
    <2> QED BY <2>1, <2>2 DEF Touches
  <1> QED BY <1>1, <1>2, <1>3

(* While handlers keep apart, a step of one leaves to the others what they *)
(* rely on.                                                                *)
LEMMA OthersStand ==
  ASSUME Context, Apart, Apart', NEW s \in Slots, NEW b, Touches(s, b), SoundFor(s)
  PROVE  Sound
  <1>1. ASSUME NEW t \in Slots \ {s}
        PROVE  Due(t)'
    <2>1. call'[t] = call[t] /\ Due(t)
      BY <1>1 DEF Touches, Others, Context, AllDue
    <2>2. CASE call[t].at = "idle"
      BY <2>1, <2>2, NothingDue DEF Watched
    <2>3. CASE call[t].at # "idle"
      <3>1. call[t].b \in Bookings /\ (call[t].at = "accept.claim" => call[t].who \in Partners)
        BY <2>3, RunningCall DEF Context, TypeOK
      <3>2. row'[call[t].b] = row[call[t].b]
        BY <1>1, <2>1, <2>3, <3>1 DEF Touches, Apart
      <3>3. ASSUME NEW p \in Partners, call[t].at = "accept.claim", call[t].who = p
            PROVE  ~Laboring(p)'
        <4>1. ~Laboring(p)
          BY <2>1, <3>3 DEF Due
        <4>2. ASSUME At(s, "accept.claim") PROVE call[s].who # p
          <5>1. s # t /\ At(t, "accept.claim") /\ call[s].at # "idle"
            BY <1>1, <3>3, <4>2 DEF At
          <5> QED BY <2>3, <3>3, <4>2, <5>1 DEF Apart
        <4> QED BY <4>1, <4>2 DEF SoundFor, Hired
      <3>4. \A p : call[t].at = "accept.claim" /\ call[t].who = p => ~Laboring(p)'
        BY <3>1, <3>3
      <3> HIDE DEF Laboring
      <3> QED BY <2>1, <3>2, <3>4 DEF Due
    <2> QED BY <2>2, <2>3
  <1> QED BY <1>1 DEF SoundFor, Sound, AllDue

LEMMA SoundStep ==
  ASSUME Context, Apart, Apart', [Next]_vars
  PROVE  Sound
  <1>1. CASE UNCHANGED vars
    <2>1. UNCHANGED <<row, call, money>>
      BY <1>1 DEF vars
    <2>2. UNCHANGED Engaged!promise
      BY <2>1, NoMove DEF Paid
    <2>3. AllDue'
      BY <2>1 DEF Context, AllDue, Unsold, Due, Laboring
    <2> QED BY <2>2, <2>3 DEF Sound, Promised
  <1>2. ASSUME NEW s \in Slots, Step(s)
        PROVE  Sound
    <2>1. SoundFor(s)
      <3> HIDE DEF Context, SoundFor
      <3> QED BY <1>2, PaymentStepSound, DispatchSound, TripSound, CodesSound, CompleteSound
              DEF Step, JobStep
    <2>2. Touches(s, call[s].b)
      BY <1>2, StepTouches DEF Context
    <2> QED BY <2>1, <2>2, OthersStand
  <1>3. ASSUME NEW s \in Slots, NEW b \in Bookings,
               PaymentRequest(s, b) \/ DispatchRequest(s, b) \/ JobRequest(s, b)
        PROVE  Sound
    <2>1. SoundFor(s)
      <3> HIDE DEF Context, SoundFor
      <3> QED BY <1>3, PaymentRequestSound, DispatchRequestSound, JobRequestSound
    <2>2. Touches(s, b)
      BY <1>3, RequestTouches DEF Context
    <2> QED BY <2>1, <2>2, OthersStand
  <1>4. CASE Next
    <2> HIDE DEF Context, Sound
    <2> QED BY <1>2, <1>3, <1>4, BackgroundSound, SweepSound, CrashSound DEF Next, Time
  <1> QED BY <1>1, <1>4

(***************************************************************************)
(* The theorem.                                                            *)
(***************************************************************************)

LEMMA PromiseStarts ==
  ASSUME Init
  PROVE  Engaged!PromiseInit /\ AllDue
  <1>1. /\ \A b \in Bookings : row[b].status = "NONE" /\ row[b].partner = NoPartner
        /\ \A b \in Bookings : money[b].payouts = 0 /\ money[b].refunds = 0
        /\ \A s \in Slots : call[s].at = "idle"
    BY DEF Init, NoRow, Idle
  <1>2. Engaged!PromiseInit
    BY <1>1, StageValues DEF Engaged!PromiseInit
  <1>3. AllDue
    BY <1>1 DEF AllDue, Unsold, Due
  <1> QED BY <1>2, <1>3

(* As long as no two requests of one booking, and no two accepts of one    *)
(* partner, overlap, the handlers keep the promise of Engagement: any      *)
(* number of them may be in flight for other bookings, and sweeps, lapsing *)
(* codes and restarts come between their database calls.  One job at a     *)
(* time per partner thus rests on nothing but the two accepts not racing.  *)
THEOREM ApartKeepsPromise == NoReferences => (Spec /\ []Apart => KeepsPromise)
  <1> SUFFICES ASSUME NoReferences PROVE Spec /\ []Apart => KeepsPromise
    OBVIOUS
  <1>1. Init => Engaged!PromiseInit /\ AllDue /\ Custody
    BY PromiseStarts DEF Init, Custody, FreshRowsFree, TripsExist, NoRow, Idle
  <1>2. TypeOK /\ Custody /\ AllDue /\ Apart /\ Apart' /\ [Next]_vars
          => Custody' /\ AllDue' /\ [Engaged!PromiseNext]_Engaged!promise
    BY SoundStep, CustodyStep DEF Context, Sound, Promised
  <1> QED BY <1>1, <1>2, TypeCorrect, PTL DEF Spec, KeepsPromise, Engaged!Promise

(* In particular one request at a time, of whatever booking, is enough.    *)
THEOREM SerialKeepsPromise == Serial => (Spec => KeepsPromise)
  <1> SUFFICES ASSUME Serial PROVE Spec => KeepsPromise
    OBVIOUS
  <1>1. Apart
    BY DEF Serial, Apart
  <1>2. NoReferences
    BY DEF Serial
  <1> QED BY <1>1, <1>2, ApartKeepsPromise, PTL

(***************************************************************************)
(* The milestones of a booking, under every overlap.                       *)
(***************************************************************************)

(* What the two handlers that enter a code found when they began. *)
Marks == \A s \in Slots : LET j == call[s] IN
  /\ j.at = "start.verify" => row[j.b].partner # NoPartner
  /\ j.at = "done.verify" => "start" \in codes[j.b]

Moved == Reached!MilestonesNext \/ UNCHANGED Reached!milestones
Marked == Marks' /\ Moved

(* A handler that is not about to enter a code. *)
Entering == {"start.verify", "done.verify"}
Elsewhere == \A t \in Slots : call'[t] = call[t] \/ call'[t].at \notin Entering

(* The hypotheses of the lemmas below. *)
Facts == TypeOK /\ Custody /\ Funding /\ Stages /\ Marks

LEMMA MarksOn ==
  ASSUME Facts, Kept, \A b \in Bookings : codes[b] \subseteq codes'[b], Elsewhere
  PROVE  Marks'
  <1> SUFFICES ASSUME NEW s \in Slots, call'[s].at \in Entering
               PROVE  /\ call'[s].at = "start.verify" => row'[call'[s].b].partner # NoPartner
                      /\ call'[s].at = "done.verify" => "start" \in codes'[call'[s].b]
    BY DEF Marks, Entering
  <1>1. call'[s] = call[s] /\ call[s].b \in Bookings
    BY RunningCall DEF Facts, TypeOK, Elsewhere, Entering
  <1> QED BY <1>1 DEF Facts, Marks, Kept, Entering

LEMMA NotEntering ==
  ASSUME TypeOK, NEW s \in Slots, NEW at, NEW b, NEW who, NEW seen, at \notin Entering,
         \/ Return(s)
         \/ call[s].at # "idle" /\ Goto(s, at)
         \/ GotoSeeing(s, at, seen)
         \/ Begin(s, at, b, who, seen)
  PROVE  Elsewhere
  BY Ended, Gone, GoneSeeing, Begun DEF Elsewhere, Entering

LEMMA EndsElsewhere ==
  ASSUME TypeOK, NEW s \in Slots, call[s].at # "idle", EndCancel(s)
  PROVE  Elsewhere
  <1>1. "sweep.mark" \notin Entering
    BY DEF Entering
  <1> QED BY <1>1, NotEntering DEF EndCancel

(* No milestone. *)
LEMMA Still ==
  ASSUME Facts, Kept, Elsewhere, UNCHANGED <<money, codes>>,
         \A b \in Bookings : row'[b].partner = row[b].partner
  PROVE  Marked
  <1>1. Marks'
    BY MarksOn
  <1>2. UNCHANGED Reached!milestones
    BY DEF Reached!milestones
  <1> QED BY <1>1, <1>2 DEF Marked, Moved

LEMMA SavedStill ==
  ASSUME Facts, Kept, Elsewhere, UNCHANGED <<money, codes>>, NEW b \in Bookings,
         NEW r, UNCHANGED row \/ (Save(b, r) /\ r.partner = row[b].partner)
  PROVE  Marked
  <1>1. \A c \in Bookings : row'[c].partner = row[c].partner
    BY DEF Facts, TypeOK, Save
  <1> QED BY <1>1, Still

(* Money moves. *)
LEMMA MoneyMoves ==
  ASSUME Facts, Kept, Elsewhere, UNCHANGED codes,
         \A c \in Bookings : row'[c].partner = row[c].partner,
         NEW b \in Bookings, NEW kind \in {"holds", "cards", "refunds", "payouts"}, Post(b, kind),
         kind = "refunds" => Funded(b),
         kind = "payouts" => codes[b] = {"start", "done"}
  PROVE  Marked
  <1>1. Marks'
    BY MarksOn
  <1>2. money \in [Bookings -> Ledger] /\ money' = [money EXCEPT ![b][kind] = @ + 1]
    BY DEF Facts, TypeOK, Post
  <1>3. CASE kind \in {"holds", "cards"}
    <2>a. \A c \in Bookings \ {b} : money'[c] = money[c]
      BY <1>2
    <2>b. money'[b].holds + money'[b].cards = money[b].holds + money[b].cards + 1
      <3>1. CASE kind = "holds" BY <1>2, <3>1 DEF Ledger
      <3>2. CASE kind = "cards" BY <1>2, <3>2 DEF Ledger
      <3> QED BY <1>3, <3>1, <3>2
    <2>c. \A c \in Bookings : money'[c].payouts = money[c].payouts /\ money'[c].refunds = money[c].refunds
      BY <1>2, <1>3 DEF Ledger
    <2>1. Reached!Take(b)
      BY <2>a, <2>b, <2>c DEF Reached!Take
    <2> QED BY <1>1, <2>1 DEF Marked, Moved, Reached!MilestonesNext
  <1>4. CASE kind = "refunds"
    <2>1. Reached!GiveBack(b)
      BY <1>2, <1>4 DEF Reached!GiveBack, Ledger, Funded
    <2> QED BY <1>1, <2>1 DEF Marked, Moved, Reached!MilestonesNext
  <1>5. CASE kind = "payouts"
    <2>1. Reached!PayOut(b)
      BY <1>2, <1>5 DEF Reached!PayOut, Ledger
    <2> QED BY <1>1, <2>1 DEF Marked, Moved, Reached!MilestonesNext
  <1> QED BY <1>3, <1>4, <1>5

(* A partner is engaged. *)
LEMMA PartnerEngaged ==
  ASSUME Facts, Kept, Elsewhere, UNCHANGED <<money, codes>>,
         NEW b \in Bookings, NEW p \in Partners, row[b].partner = NoPartner, row[b].status \in Open,
         NEW r, Save(b, r), r.partner = p
  PROVE  Marked
  <1>1. Marks'
    BY MarksOn
  <1>2. Funded(b)
    BY DEF Facts, Funding, RowsFunded, RowNeedsMoney
  <1>3. row \in [Bookings -> Row] /\ row' = [row EXCEPT ![b] = r]
    BY DEF Facts, TypeOK, Save
  <1>4. Reached!Engage(b, p)
    BY <1>2, <1>3 DEF Reached!Engage, Funded
  <1> QED BY <1>1, <1>4 DEF Marked, Moved, Reached!MilestonesNext

(* A code is entered. *)
LEMMA CodeEntered ==
  ASSUME Facts, Kept, Elsewhere, UNCHANGED money, NEW b \in Bookings,
         \A c \in Bookings : row'[c].partner = row[c].partner,
         \/ row[b].partner # NoPartner /\ codes' = [codes EXCEPT ![b] = @ \cup {"start"}]
         \/ "start" \in codes[b] /\ codes' = [codes EXCEPT ![b] = @ \cup {"done"}]
  PROVE  Marked
  <1>1. codes \in [Bookings -> SUBSET {"start", "done"}]
    BY DEF Facts, TypeOK
  <1>2. Marks'
    BY <1>1, MarksOn
  <1>3. Reached!EnterStart(b) \/ Reached!EnterDone(b)
    BY DEF Reached!EnterStart, Reached!EnterDone
  <1> QED BY <1>2, <1>3 DEF Marked, Moved, Reached!MilestonesNext

LEMMA PaymentRequestMarked ==
  ASSUME Facts, Kept, NEW s \in Slots, NEW b \in Bookings, PaymentRequest(s, b)
  PROVE  Marked
  <1>1. TypeOK /\ row[b] \in Row /\ (~Exists(b) => row[b].partner = NoPartner)
    BY DEF Facts, TypeOK, Custody, FreshRowsFree
  <1>2. {"dispatch", "initiate", "assign", "upi.submit", "upi.settle"} \cap Entering = {}
    BY DEF Entering
  <1>3. CASE CreateOnline(s, b)
    <2> DEFINE r == [NoRow EXCEPT !.status = "PARTNER_SEARCHING", !.pay = "PAID"]
    <2>1. /\ ~Exists(b) /\ Save(b, r) /\ Post(b, "holds") /\ UNCHANGED codes
          /\ Begin(s, "dispatch", b, "PARTY", SeenNothing)
      BY <1>3 DEF CreateOnline
    <2>2. r.partner = NoPartner
      BY DEF NoRow
    <2> HIDE DEF r
    <2>3. \A c \in Bookings : row'[c].partner = row[c].partner
      BY <1>1, <2>1, <2>2 DEF TypeOK, Save
    <2> QED BY <1>1, <1>2, <2>1, <2>3, NotEntering, MoneyMoves
  <1>4. ASSUME NEW m \in {"CASH", "UPI_MANUAL"}, CreateUnpaid(s, b, m)
        PROVE  Marked
    <2> DEFINE r == [NoRow EXCEPT !.status = "PAYMENT_PENDING",
                                  !.pay = IF m = "CASH" THEN "PENDING_CASH" ELSE "VERIFICATION_PENDING",
                                  !.notes.method = m]
    <2>1. /\ ~Exists(b) /\ Save(b, r) /\ UNCHANGED <<money, codes>>
          /\ Begin(s, "dispatch", b, "PARTY", SeenNothing)
      BY <1>4 DEF CreateUnpaid
    <2>2. r.partner = row[b].partner
      BY <1>1, <2>1 DEF NoRow
    <2> HIDE DEF r
    <2> QED BY <1>1, <1>2, <2>1, <2>2, NotEntering, SavedStill
  <1>5. CASE InitiatePayment(s, b)
    BY <1>1, <1>2, <1>5, NotEntering, Still DEF InitiatePayment
  <1>6. CASE VerifyPayment(s, b)
    <2> DEFINE r == [row[b] EXCEPT !.status = "PARTNER_SEARCHING", !.pay = "PAID"]
    <2>1. /\ Save(b, r) /\ Post(b, "cards") /\ UNCHANGED codes
          /\ Begin(s, "assign", b, "PARTY", SeenNothing)
      BY <1>6 DEF VerifyPayment
    <2>2. r.partner = row[b].partner
      BY <1>1 DEF Row
    <2> HIDE DEF r
    <2>3. \A c \in Bookings : row'[c].partner = row[c].partner
      BY <1>1, <2>1, <2>2 DEF TypeOK, Save
    <2> QED BY <1>1, <1>2, <2>1, <2>3, NotEntering, MoneyMoves
  <1>7. ASSUME NEW u \in Claims, SubmitUpi(s, b, u) \/ SettleUpi(s, b, u)
        PROVE  Marked
    BY <1>1, <1>2, <1>7, NotEntering, Still DEF SubmitUpi, SettleUpi
  <1> QED BY <1>3, <1>4, <1>5, <1>6, <1>7 DEF PaymentRequest

LEMMA PaymentStepMarked ==
  ASSUME Facts, Kept, NEW s \in Slots, PaymentStep(s)
  PROVE  Marked
  <1>1. TypeOK /\ call[s].at # "idle"
    BY DEF Facts, At, PaymentStep, InitiatePaymentSave, SubmitUpiSave, SettleUpiClaim, SettleUpiAbort,
       AssignNobody, OpenSearchWindow, AssignBest
  <1>2. PICK b \in Bookings : b = call[s].b /\ row[b] \in Row
    BY <1>1, RunningCall DEF TypeOK
  <1>3. "assign" \notin Entering
    BY DEF Entering
  <1>4. CASE InitiatePaymentSave(s)
    <2> DEFINE r == [row[b] EXCEPT !.status = "PAYMENT_INITIATED"]
    <2>1. Save(b, r) /\ Return(s) /\ UNCHANGED <<money, codes>> /\ r.partner = row[b].partner
      BY <1>2, <1>4 DEF InitiatePaymentSave, Row
    <2> HIDE DEF r
    <2> QED BY <1>1, <1>3, <2>1, NotEntering, SavedStill
  <1>5. CASE SubmitUpiSave(s)
    <2> DEFINE r == [row[b] EXCEPT !.pay = "VERIFICATION_PENDING"]
    <2>1. Save(b, r) /\ Return(s) /\ UNCHANGED <<money, codes>> /\ r.partner = row[b].partner
      BY <1>2, <1>5 DEF SubmitUpiSave, Row
    <2> HIDE DEF r
    <2> QED BY <1>1, <1>3, <2>1, NotEntering, SavedStill
  <1>6. CASE SettleUpiClaim(s)
    <2> DEFINE r == [row[b] EXCEPT !.status = "PARTNER_SEARCHING", !.pay = "PAID"]
    <2>1. /\ UNCHANGED row \/ Save(b, r)
          /\ UNCHANGED money \/ Post(b, "holds")
          /\ Goto(s, "assign") /\ UNCHANGED codes
      BY <1>2, <1>6 DEF SettleUpiClaim
    <2>2. r.partner = row[b].partner
      BY <1>2 DEF Row
    <2> HIDE DEF r
    <2>3. Elsewhere
      BY <1>1, <1>3, <2>1, NotEntering
    <2>4. \A c \in Bookings : row'[c].partner = row[c].partner
      BY <1>1, <2>1, <2>2 DEF TypeOK, Save
    <2> QED BY <2>1, <2>3, <2>4, MoneyMoves, Still
  <1>7. CASE SettleUpiAbort(s) \/ AssignNobody(s) \/ OpenSearchWindow(s)
    BY <1>1, <1>3, <1>7, NotEntering, Still DEF SettleUpiAbort, AssignNobody, OpenSearchWindow
  <1>8. ASSUME NEW p \in Partners, AssignBest(s, p)
        PROVE  Marked
    <2> DEFINE r == [row[b] EXCEPT !.partner = p, !.status = "PARTNER_ASSIGNED"]
    <2>1. /\ row[b].status \in Open /\ row[b].partner = NoPartner
          /\ Save(b, r) /\ Return(s) /\ UNCHANGED <<money, codes>>
      BY <1>2, <1>8 DEF AssignBest, Unclaimed, Open
    <2>2. r.partner = p
      BY <1>2 DEF Row
    <2> HIDE DEF r
    <2> QED BY <1>1, <1>3, <2>1, <2>2, NotEntering, PartnerEngaged
  <1> QED BY <1>4, <1>5, <1>6, <1>7, <1>8 DEF PaymentStep

LEMMA DispatchMarked ==
  ASSUME Facts, Kept, NEW s \in Slots, DispatchStep(s)
  PROVE  Marked
  <1>1. TypeOK /\ call[s].at # "idle"
    BY DEF Facts, At, DispatchStep, Dispatch, ExpireCheck, ExpireRefund, SweepMark, CancelRead,
       CancelClaim, CancelRefund
  <1>2. PICK b \in Bookings : b = call[s].b /\ row[b] \in Row
    BY <1>1, RunningCall DEF TypeOK
  <1>3. {"expire.refund", "cancel.claim", "cancel.refund"} \cap Entering = {}
    BY DEF Entering
  <1>4. CASE Dispatch(s) \/ SweepMark(s) \/ ExpireCheck(s)
    BY <1>1, <1>3, <1>4, NotEntering, Still DEF Dispatch, SweepMark, ExpireCheck
  <1>5. CASE CancelRead(s)
    BY <1>1, <1>3, <1>5, NotEntering, EndsElsewhere, Still DEF CancelRead
  <1>6. CASE CancelClaim(s)
    <2> DEFINE r == [row[b] EXCEPT !.status = "CANCELLED"]
    <2>1. UNCHANGED row \/ Save(b, r)
      BY <1>2, <1>6 DEF CancelClaim
    <2>2. UNCHANGED <<money, codes>> /\ (EndCancel(s) \/ Goto(s, "cancel.refund"))
      BY <1>6 DEF CancelClaim
    <2>3. r.partner = row[b].partner
      BY <1>2 DEF Row
    <2> HIDE DEF r
    <2> QED BY <1>1, <1>3, <2>1, <2>2, <2>3, NotEntering, EndsElsewhere, SavedStill
  <1>7. CASE ExpireRefund(s) \/ CancelRefund(s)
    <2> DEFINE r == [row[b] EXCEPT !.refunded = TRUE]
    <2>1. Post(b, "refunds") /\ Save(b, r) /\ UNCHANGED codes /\ (Return(s) \/ EndCancel(s))
      BY <1>2, <1>7 DEF ExpireRefund, CancelRefund, Refund
    <2>2. r.partner = row[b].partner
      BY <1>2 DEF Row
    <2> HIDE DEF r
    <2>3. \A c \in Bookings : row'[c].partner = row[c].partner
      BY <1>1, <2>1, <2>2 DEF TypeOK, Save
    <2>4. Funded(b)
      BY <1>1, <1>2, <1>7 DEF Facts, Funding, SeenFunded, ExpireRefund, CancelRefund, At
    <2> QED BY <1>1, <1>3, <2>1, <2>3, <2>4, NotEntering, EndsElsewhere, MoneyMoves
  <1> QED BY <1>4, <1>5, <1>6, <1>7 DEF DispatchStep

LEMMA DispatchRequestMarked ==
  ASSUME Facts, Kept, NEW s \in Slots, NEW b \in Bookings, DispatchRequest(s, b)
  PROVE  Marked
  <1>1. TypeOK /\ row[b] \in Row /\ {"expire.check", "cancel.read", "sweep.mark"} \cap Entering = {}
    BY DEF Facts, TypeOK, Entering
  <1>2. CASE TimerFires(s, b)
    <2> DEFINE r == [row[b] EXCEPT !.status = "EXPIRED"]
    <2>1. /\ UNCHANGED <<row, call>> \/ (Save(b, r) /\ Begin(s, "expire.check", b, "SYSTEM", SeenNothing))
          /\ UNCHANGED <<money, codes>> /\ r.partner = row[b].partner
      BY <1>1, <1>2 DEF TimerFires, Row
    <2> HIDE DEF r
    <2>2. Elsewhere
      BY <1>1, <2>1, NotEntering DEF Elsewhere
    <2> QED BY <2>1, <2>2, SavedStill
  <1>3. CASE Sweep(s, b) \/ RequestCancel(s, b) \/ RejectAccepted(s, b)
    BY <1>1, <1>3, NotEntering, Still DEF Sweep, RequestCancel, RejectAccepted
  <1> QED BY <1>2, <1>3 DEF DispatchRequest

(* A handler about to enter a code. *)
LEMMA AboutToEnter ==
  ASSUME Facts, NEW s \in Slots, NEW b \in Bookings, NEW at, NEW who, NEW seen,
         Begin(s, at, b, who, seen), UNCHANGED <<row, money, codes>>,
         at = "start.verify" => row[b].partner # NoPartner,
         at = "done.verify" => "start" \in codes[b]
  PROVE  Marked
  <1>1. call'[s].at = at /\ call'[s].b = b /\ \A t \in Slots \ {s} : call'[t] = call[t]
    BY Begun DEF Facts
  <1>2. Marks'
    BY <1>1 DEF Facts, Marks
  <1>3. UNCHANGED Reached!milestones
    BY DEF Reached!milestones
  <1> QED BY <1>2, <1>3 DEF Marked, Moved

LEMMA JobRequestMarked ==
  ASSUME Facts, Kept, NEW s \in Slots, NEW b \in Bookings, JobRequest(s, b)
  PROVE  Marked
  <1>1. TypeOK /\ (row[b].status = "COMPLETION_REQUESTED" => "start" \in codes[b])
    BY DEF Facts, Stages, RowTells, Started
  <1>2. {"accept.claim", "otp.mint", "otp.generate", "travel.save", "arrive.save", "start.wrong",
         "done.request", "done.issue", "done.wrong", "complete", "select"} \cap Entering = {}
    BY DEF Entering
  <1>3. ASSUME NEW p \in Partners, NEW route \in {"bookings", "partner"}, Accept(s, b, p, route)
        PROVE  Marked
    BY <1>1, <1>2, <1>3, NotEntering, Still DEF Accept
  <1>4. CASE IssueStartOtp(s, b) \/ GenerateOtp(s, b) \/ MarkTravelling(s, b) \/ MarkArrived(s, b)
    BY <1>1, <1>2, <1>4, NotEntering, Still
       DEF IssueStartOtp, GenerateOtp, MarkTravelling, MarkArrived
  <1>5. CASE VerifyStartOtp(s, b)
    BY <1>5, AboutToEnter DEF VerifyStartOtp, Assigned
  <1>6. CASE RequestCompletion(s, b) \/ IssueCompletionOtp(s, b)
    BY <1>1, <1>2, <1>6, NotEntering, Still DEF RequestCompletion, IssueCompletionOtp
  <1>7. CASE VerifyCompletionOtp(s, b)
    BY <1>1, <1>7, AboutToEnter DEF VerifyCompletionOtp
  <1>8. CASE Complete(s, b)
    <2>1. /\ "start" \in codes[b] /\ codes' = [codes EXCEPT ![b] = @ \cup {"done"}]
          /\ UNCHANGED <<row, money>> /\ Begin(s, "complete", b, "PARTY", SeenNotes(row[b]))
      BY <1>1, <1>8 DEF Complete
    <2>2. \A c \in Bookings : row'[c].partner = row[c].partner
      BY <2>1
    <2>3. Elsewhere
      BY <1>1, <1>2, <2>1, NotEntering
    <2> QED BY <2>1, <2>2, <2>3, CodeEntered
  <1>9. ASSUME NEW m \in {"CASH", "UPI_MANUAL"}, SelectPayment(s, b, m)
        PROVE  Marked
    BY <1>1, <1>2, <1>9, NotEntering, Still DEF SelectPayment
  <1> QED BY <1>3, <1>4, <1>5, <1>6, <1>7, <1>8, <1>9 DEF JobRequest

LEMMA JobStepMarked ==
  ASSUME Facts, Kept, NEW s \in Slots, JobStep(s)
  PROVE  Marked
  <1>1. TypeOK /\ call[s].at # "idle"
    BY DEF Facts, At, JobStep, AcceptClaim, MintStartOtp, GenerateOtpClaim, SaveTrip, ArriveFresh,
       StartJob, WrongCode, SaveCompletionRequest, SaveCompletionOtp, SaveCompletionVerified,
       CompleteClaim, SaveSelection
  <1>2. PICK b \in Bookings : b = call[s].b /\ row[b] \in Row
    BY <1>1, RunningCall DEF TypeOK
  <1>3. {"arrive.fresh", "otp.mint", "done.code"} \cap Entering = {}
    BY DEF Entering
  <1>4. CASE AcceptClaim(s)
    <2> DEFINE p == call[s].who
               r == [row[b] EXCEPT !.partner = p, !.status = "PARTNER_ACCEPTED"]
    <2>1. /\ UNCHANGED row \/ (row[b].status \in Open /\ row[b].partner = NoPartner /\ Save(b, r))
          /\ Return(s) /\ UNCHANGED <<money, codes>>
      BY <1>2, <1>4 DEF AcceptClaim, Open
    <2>2. r.partner = p /\ p \in Partners
      <3>1. call[s].at = "accept.claim" /\ call[s] \in Calls
        BY <1>1, <1>4 DEF AcceptClaim, At, TypeOK
      <3>2. p \in Partners
        BY <3>1 DEF Calls, Running, Steps, Idle
      <3> QED BY <1>2, <3>2 DEF Row
    <2> HIDE DEF r, p
    <2>3. Elsewhere
      BY <1>1, <1>3, <2>1, NotEntering
    <2> QED BY <2>1, <2>2, <2>3, PartnerEngaged, Still
  <1>5. CASE MintStartOtp(s)
    <2> DEFINE seen == call[s].seen
               r == [row[b] EXCEPT
                 !.status = IF seen.status = "PARTNER_ACCEPTED" THEN "OTP_GENERATED" ELSE seen.status,
                 !.otp = "sent",
                 !.notes = [seen.notes EXCEPT !.start = "live"]]
    <2>1. Save(b, r) /\ Return(s) /\ UNCHANGED <<money, codes>>
      BY <1>2, <1>5 DEF MintStartOtp
    <2>2. r.partner = row[b].partner
      BY <1>2 DEF Row
    <2> HIDE DEF r
    <2> QED BY <1>1, <1>3, <2>1, <2>2, NotEntering, SavedStill
  <1>6. CASE GenerateOtpClaim(s)
    <2>1. \E r : r.partner = row[b].partner /\ (UNCHANGED row \/ Save(b, r))
      <3> DEFINE r == [row[b] EXCEPT !.status = "OTP_GENERATED", !.otp = "sent",
                                     !.notes = [call[s].seen.notes EXCEPT !.start = "live"]]
      <3>1. r.partner = row[b].partner
        BY <1>2 DEF Row
      <3>2. UNCHANGED row \/ Save(b, r)
        BY <1>2, <1>6 DEF GenerateOtpClaim
      <3> QED BY <3>1, <3>2
    <2> QED BY <1>1, <1>3, <1>6, <2>1, NotEntering, SavedStill DEF GenerateOtpClaim
  <1>7. CASE SaveTrip(s) \/ SaveCompletionOtp(s) \/ WrongCode(s)
    <2>1. PICK notes : Save(b, [row[b] EXCEPT !.notes = notes])
      BY <1>2, <1>7 DEF SaveTrip, SaveCompletionOtp, WrongCode
    <2>2. [row[b] EXCEPT !.notes = notes].partner = row[b].partner
      BY <1>2 DEF Row
    <2>3. UNCHANGED <<money, codes>> /\ (Return(s) \/ Goto(s, "arrive.fresh"))
      BY <1>7 DEF SaveTrip, SaveCompletionOtp, WrongCode
    <2> QED BY <1>1, <1>3, <2>1, <2>2, <2>3, NotEntering, SavedStill
  <1>8. CASE ArriveFresh(s)
    BY <1>1, <1>3, <1>8, NotEntering, Still DEF ArriveFresh
  <1>9. CASE StartJob(s)
    <2> DEFINE r == [row[b] EXCEPT !.status = "IN_PROGRESS", !.otp = "checked",
                                   !.notes = [call[s].seen.notes EXCEPT !.start = "verified"]]
    <2>1. /\ Save(b, r) /\ Return(s) /\ UNCHANGED money
          /\ codes' = [codes EXCEPT ![b] = @ \cup {"start"}]
      BY <1>2, <1>9 DEF StartJob
    <2>2. r.partner = row[b].partner
      BY <1>2 DEF Row
    <2> HIDE DEF r
    <2>3. row[b].partner # NoPartner
      BY <1>2, <1>9 DEF Facts, Marks, StartJob, At
    <2>4. Elsewhere /\ \A c \in Bookings : row'[c].partner = row[c].partner
      BY <1>1, <1>3, <2>1, <2>2, NotEntering DEF TypeOK, Save
    <2> QED BY <2>1, <2>3, <2>4, CodeEntered
  <1>10. CASE SaveCompletionRequest(s)
    <2> DEFINE r == [row[b] EXCEPT !.status = "COMPLETION_REQUESTED", !.notes = call[s].seen.notes]
    <2>1. Save(b, r) /\ (Return(s) \/ Goto(s, "done.code")) /\ UNCHANGED <<money, codes>>
      BY <1>2, <1>10 DEF SaveCompletionRequest
    <2>2. r.partner = row[b].partner
      BY <1>2 DEF Row
    <2> HIDE DEF r
    <2> QED BY <1>1, <1>3, <2>1, <2>2, NotEntering, SavedStill
  <1>11. CASE SaveCompletionVerified(s)
    <2> DEFINE r == [row[b] EXCEPT !.notes = [call[s].seen.notes EXCEPT !.done = "verified"]]
    <2>1. /\ Save(b, r) /\ Return(s) /\ UNCHANGED money
          /\ codes' = [codes EXCEPT ![b] = @ \cup {"done"}]
      BY <1>2, <1>11 DEF SaveCompletionVerified
    <2>2. r.partner = row[b].partner
      BY <1>2 DEF Row
    <2> HIDE DEF r
    <2>3. "start" \in codes[b]
      BY <1>2, <1>11 DEF Facts, Marks, SaveCompletionVerified, At
    <2>4. Elsewhere /\ \A c \in Bookings : row'[c].partner = row[c].partner
      BY <1>1, <1>3, <2>1, <2>2, NotEntering DEF TypeOK, Save
    <2> QED BY <2>1, <2>3, <2>4, CodeEntered
  <1>12. CASE CompleteClaim(s)
    <2> DEFINE r == [row[b] EXCEPT !.status = "COMPLETED",
                                   !.notes = [call[s].seen.notes EXCEPT !.done = "verified"]]
    <2>1. /\ Return(s) /\ UNCHANGED codes
          /\ \/ UNCHANGED <<row, money>>
             \/ /\ row[b].status = "COMPLETION_REQUESTED" /\ Save(b, r)
                /\ UNCHANGED money \/ Post(b, "payouts")
      BY <1>2, <1>12 DEF CompleteClaim
    <2>2. r.partner = row[b].partner
      BY <1>2 DEF Row
    <2> HIDE DEF r
    <2>3. Elsewhere /\ \A c \in Bookings : row'[c].partner = row[c].partner
      BY <1>1, <1>3, <2>1, <2>2, NotEntering DEF TypeOK, Save
    <2>4. row[b].status = "COMPLETION_REQUESTED" => codes[b] = {"start", "done"}
      <3>1. RowTells(b) /\ CallTells(s) /\ codes[b] \subseteq {"start", "done"} /\ At(s, "complete")
        BY <1>12 DEF Facts, Stages, TypeOK, CompleteClaim
      <3> QED BY <1>2, <3>1 DEF RowTells, CallTells, Started, At
    <2> QED BY <2>1, <2>3, <2>4, MoneyMoves, Still
  <1>13. CASE SaveSelection(s)
    <2> DEFINE seen == call[s].seen  cash == seen.notes.method = "CASH"
               r == IF seen.pay = "PAID"
                    THEN [row[b] EXCEPT !.notes = seen.notes, !.pay = "PAID"]
                    ELSE [row[b] EXCEPT !.notes = seen.notes,
                            !.pay = IF cash THEN "PENDING_CASH" ELSE "VERIFICATION_PENDING",
                            !.status = IF cash THEN "OTP_GENERATED" ELSE @]
    <2>1. /\ UNCHANGED row \/ Save(b, r)
          /\ Return(s) /\ UNCHANGED <<money, codes>>
      BY <1>2, <1>13 DEF SaveSelection
    <2>2. r.partner = row[b].partner
      BY <1>2 DEF Row
    <2> HIDE DEF r
    <2> QED BY <1>1, <1>3, <2>1, <2>2, NotEntering, SavedStill
  <1> QED BY <1>4, <1>5, <1>6, <1>7, <1>8, <1>9, <1>10, <1>11, <1>12, <1>13 DEF JobStep

LEMMA BackgroundMarked ==
  ASSUME Facts, Kept, NEW b \in Bookings, AdminUpi(b) \/ CodeLapses(b) \/ Tick(b)
  PROVE  Marked
  <1>1. row[b] \in Row
    BY DEF Facts, TypeOK
  <1>2. Elsewhere /\ UNCHANGED <<money, codes>>
    BY DEF AdminUpi, RejectUpi, RequestUpiInfo, CodeLapses, Tick, Elsewhere
  <1>3. \E r : r.partner = row[b].partner /\ (UNCHANGED row \/ Save(b, r))
    BY <1>1 DEF AdminUpi, RejectUpi, RequestUpiInfo, CodeLapses, Tick, Row
  <1> QED BY <1>2, <1>3, SavedStill

LEMMA SweepAndCrashMarked ==
  ASSUME Facts, Kept, LazySweep \/ Crash
  PROVE  Marked
  <1>1. Elsewhere /\ UNCHANGED <<money, codes>>
    BY DEF LazySweep, Crash, Elsewhere, Entering, Idle
  <1>2. ASSUME NEW b \in Bookings PROVE row'[b].partner = row[b].partner
    <2>1. row[b] \in Row
      BY DEF Facts, TypeOK
    <2> QED BY <2>1 DEF LazySweep, Crash, Row
  <1> QED BY <1>1, <1>2, Still

LEMMA MarkedStep ==
  ASSUME Facts, [Next]_vars
  PROVE  Marked
  <1>1. Kept
    BY CustodyStep DEF Facts
  <1>2. ASSUME NEW s \in Slots, Step(s) PROVE Marked
    BY <1>1, <1>2, PaymentStepMarked, DispatchMarked, JobStepMarked DEF Step
  <1>3. ASSUME NEW s \in Slots, NEW b \in Bookings,
               PaymentRequest(s, b) \/ DispatchRequest(s, b) \/ JobRequest(s, b)
        PROVE  Marked
    BY <1>1, <1>3, PaymentRequestMarked, DispatchRequestMarked, JobRequestMarked
  <1>4. ASSUME NEW b \in Bookings, AdminUpi(b) \/ CodeLapses(b) \/ Tick(b)
        PROVE  Marked
    BY <1>1, <1>4, BackgroundMarked
  <1>5. CASE LazySweep \/ Crash
    BY <1>1, <1>5, SweepAndCrashMarked
  <1>6. CASE UNCHANGED vars
    BY <1>1, <1>6, Still DEF vars, Elsewhere
  <1> QED BY <1>2, <1>3, <1>4, <1>5, <1>6 DEF Next, Time

(* The booking system implements Milestones for any number of bookings,    *)
(* partners, references and overlapping handlers, restarts included.       *)
THEOREM SystemKeepsMilestones == Spec => KeepsMilestones
  <1>1. Init => Reached!MilestonesInit /\ Marks /\ Custody
    BY DEF Init, Reached!MilestonesInit, Marks, Custody, FreshRowsFree, TripsExist, NoRow, Idle
  <1>2. TypeOK /\ Custody /\ [Next]_vars => Custody'
    BY CustodyStep
  <1>3. TypeOK /\ Custody /\ Funding /\ Stages /\ Marks /\ [Next]_vars => Marks'
    BY MarkedStep DEF Facts, Marked
  <1>4. TypeOK /\ Custody /\ Funding /\ Stages /\ Marks /\ [Next]_vars
          => [Reached!MilestonesNext]_(Reached!milestones)
    BY MarkedStep DEF Facts, Marked, Moved
  <1> QED BY <1>1, <1>2, <1>3, <1>4, TypeCorrect, FundingInvariant, StagesInvariant, PTL
     DEF Spec, KeepsMilestones, Reached!MilestonesSpec

(* A code is entered only for a booking with a partner, the completion     *)
(* code only after the start code.                                         *)
Coded == \A b \in Bookings :
  /\ codes[b] # {} => row[b].partner # NoPartner
  /\ "done" \in codes[b] => "start" \in codes[b]

LEMMA CodedStep ==
  ASSUME TypeOK, Kept, Coded, [Reached!MilestonesNext]_(Reached!milestones)
  PROVE  Coded'
  <1>1. SUFFICES ASSUME NEW b \in Bookings
                 PROVE  /\ codes'[b] # {} => row'[b].partner # NoPartner
                        /\ "done" \in codes'[b] => "start" \in codes'[b]
    BY DEF Coded
  <1>2. /\ codes[b] # {} => row[b].partner # NoPartner
        /\ "done" \in codes[b] => "start" \in codes[b]
        /\ row[b].partner # NoPartner => row'[b].partner # NoPartner
    BY DEF Coded, Kept
  <1>3. CASE codes' = codes
    BY <1>2, <1>3
  <1>4. ASSUME NEW c \in Bookings, Reached!EnterStart(c) \/ Reached!EnterDone(c)
        PROVE  /\ codes'[b] # {} => row'[b].partner # NoPartner
               /\ "done" \in codes'[b] => "start" \in codes'[b]
    BY <1>2, <1>4 DEF Reached!EnterStart, Reached!EnterDone, TypeOK
  <1> QED BY <1>3, <1>4 DEF Reached!MilestonesNext, Reached!milestones, Reached!Take, Reached!PayOut,
             Reached!GiveBack, Reached!Engage

(* completeBooking credits a partner only for a booking that partner was   *)
(* engaged for and whose user was debited: from the order of the           *)
(* milestones, no handler looks at the ledger before it pays.              *)
THEOREM PayoutsAreFunded ==
  Spec => [](\A b \in Bookings : money[b].payouts > 0 => row[b].partner # NoPartner /\ Funded(b))
  <1>1. Init => Coded /\ Custody
    BY DEF Init, Coded, Custody, FreshRowsFree, TripsExist, NoRow, Idle
  <1>2. TypeOK /\ Custody /\ [Next]_vars => Custody' /\ Kept
    BY CustodyStep
  <1>3. TypeOK /\ Kept /\ Coded /\ [Reached!MilestonesNext]_(Reached!milestones) => Coded'
    BY CodedStep
  <1>4. Stages /\ Funding /\ Coded
          => \A b \in Bookings : money[b].payouts > 0 => row[b].partner # NoPartner /\ Funded(b)
    BY DEF Stages, RowTells, Funding, RowsFunded, RowNeedsMoney, Coded
  <1> QED BY <1>1, <1>2, <1>3, <1>4, TypeCorrect, FundingInvariant, StagesInvariant,
             SystemKeepsMilestones, PTL DEF Spec, KeepsMilestones, Reached!MilestonesSpec
=============================================================================
