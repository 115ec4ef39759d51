----------------------- MODULE BookingFunding_proofs ------------------------
(***************************************************************************)
(* Nobody works, and nothing is refunded, before money was taken; and what *)
(* the money of a booking nobody took becomes.                             *)
(*                                                                         *)
(* PartnerImpliesFunded and RefundImpliesFunded are not inductive: a       *)
(* partner claims a row because of its STATUS, a cancellation refunds      *)
(* because of the paymentStatus it READ, a settlement skips the hold       *)
(* because of the paymentStatus it READ.  Each of these must imply the     *)
(* debit, in the row and in every snapshot a handler still holds.          *)
(***************************************************************************)
EXTENDS BookingStages_proofs

Open == {"PARTNER_SEARCHING", "PAYMENT_SUCCESSFUL"}      \* what a partner may claim

RowNeedsMoney(r) == r.partner # NoPartner \/ r.status \in Open \/ r.pay = "PAID"
SeenNeedsMoney(seen) == seen.status \in Open \/ seen.pay = "PAID"

RowsFunded == \A b \in Bookings : RowNeedsMoney(row[b]) => Funded(b)
SeenFunded == \A s \in Slots :
  call[s].at # "idle" /\ (SeenNeedsMoney(call[s].seen)
                          \/ call[s].at \in {"expire.refund", "cancel.refund"})
    => Funded(call[s].b)
RefundsFunded == \A b \in Bookings : money[b].refunds > 0 => Funded(b)

Funding == RowsFunded /\ SeenFunded /\ RefundsFunded

(* What the building blocks keep: rows are only added to the ledger, and a *)
(* handler that goes on keeps a snapshot that was justified.               *)
FundingKept == \A b \in Bookings : Funded(b) => Funded(b)'

LEMMA LedgerGrows ==
  ASSUME TypeOK, NEW b \in Bookings, NEW kind \in {"holds", "cards", "refunds", "payouts"},
         Post(b, kind)
  PROVE  FundingKept
  <1> USE DEF TypeOK, Ledger, Post, Funded, FundingKept
  <1>1. CASE kind = "holds" BY <1>1
  <1>2. CASE kind = "cards" BY <1>2
  <1>3. CASE kind = "refunds" BY <1>3
  <1>4. CASE kind = "payouts" BY <1>4
  <1> QED BY <1>1, <1>2, <1>3, <1>4

LEMMA SavedRow ==
  ASSUME TypeOK, RowsFunded, FundingKept, NEW b \in Bookings, NEW r, Save(b, r),
         RowNeedsMoney(r) => Funded(b)'
  PROVE  RowsFunded'
  BY DEF TypeOK, RowsFunded, FundingKept, Save

LEMMA SameRows ==
  ASSUME RowsFunded, FundingKept, UNCHANGED row
  PROVE  RowsFunded'
  BY DEF RowsFunded, FundingKept

LEMMA FundedRow ==
  ASSUME TypeOK, RowsFunded, FundingKept, NEW b \in Bookings, Funded(b)',
         UNCHANGED row \/ \E r : Save(b, r)
  PROVE  RowsFunded'
  BY SavedRow, SameRows

LEMMA HoldFunds ==
  ASSUME TypeOK, NEW b \in Bookings, Post(b, "holds")
  PROVE  Funded(b)'
  BY DEF TypeOK, Ledger, Post, Funded

LEMMA Returned ==
  ASSUME TypeOK, SeenFunded, FundingKept, NEW s \in Slots, Return(s)
  PROVE  SeenFunded'
  BY RunningCall DEF TypeOK, SeenFunded, FundingKept, Return, Idle

LEMMA GoneOn ==
  ASSUME TypeOK, SeenFunded, FundingKept, NEW s \in Slots, call[s].at # "idle",
         NEW at \in Steps, Goto(s, at),
         at \in {"expire.refund", "cancel.refund"} => Funded(call[s].b)
  PROVE  SeenFunded'
  <1>1. call'[s].b = call[s].b /\ call'[s].seen = call[s].seen /\ call'[s].at = at
    BY RunningCall DEF TypeOK, Goto, Running
  <1>2. \A t \in Slots \ {s} : call'[t] = call[t]
    BY DEF TypeOK, Goto
  <1> QED BY <1>1, <1>2, RunningCall DEF TypeOK, SeenFunded, FundingKept

LEMMA CancelEnded ==
  ASSUME TypeOK, SeenFunded, FundingKept, NEW s \in Slots, call[s].at # "idle", EndCancel(s)
  PROVE  SeenFunded'
  BY GoneOn, Returned DEF EndCancel, Steps

LEMMA PaymentRequestFunding ==
  ASSUME TypeOK, Funding, NEW s \in Slots, NEW b \in Bookings, PaymentRequest(s, b)
  PROVE  Funding'
  <1> USE DEF TypeOK, Funding, RowsFunded, SeenFunded, RefundsFunded, RowNeedsMoney,
              SeenNeedsMoney, Open, Funded, Begin, Save, Post, Row, Ledger, Idle
  <1>1. CASE CreateOnline(s, b)
    BY <1>1 DEF CreateOnline, NoRow, SeenNothing
  <1>2. ASSUME NEW m \in {"CASH", "UPI_MANUAL"}, CreateUnpaid(s, b, m)
        PROVE  Funding'
    BY <1>2 DEF CreateUnpaid, NoRow, SeenNothing
  <1>3. CASE InitiatePayment(s, b)
    BY <1>3 DEF InitiatePayment, SeenNothing
  <1>4. CASE VerifyPayment(s, b)
    BY <1>4 DEF VerifyPayment, SeenNothing
  <1>5. ASSUME NEW u \in Claims, SubmitUpi(s, b, u)
        PROVE  Funding'
    BY <1>5 DEF SubmitUpi, SeenNothing
  <1>6. ASSUME NEW u \in Claims, SettleUpi(s, b, u)
        PROVE  Funding'
    BY <1>6 DEF SettleUpi, SeenPay, SeenNothing
  <1> QED BY <1>1, <1>2, <1>3, <1>4, <1>5, <1>6 DEF PaymentRequest

LEMMA PaymentStepFunding ==
  ASSUME TypeOK, Funding, NEW s \in Slots, PaymentStep(s)
  PROVE  Funding'
  <1> USE DEF TypeOK, Funding, RowsFunded, SeenFunded, RefundsFunded, RowNeedsMoney,
              SeenNeedsMoney, Open, Funded, Save, Post, Row, Ledger, Idle
  <1>a. call[s].at # "idle"
    BY DEF At, PaymentStep, InitiatePaymentSave, SubmitUpiSave, SettleUpiClaim, SettleUpiAbort,
       AssignNobody, OpenSearchWindow, AssignBest
  <1>b. call[s].b \in Bookings /\ row[call[s].b] \in Row /\ call[s].seen \in Seen
    BY <1>a, RunningCall
  <1>1. CASE InitiatePaymentSave(s)
    BY <1>1, <1>a, <1>b DEF InitiatePaymentSave, At, Return, Goto
  <1>2. CASE SubmitUpiSave(s)
    BY <1>2, <1>a, <1>b DEF SubmitUpiSave, At, Return, Goto
  <1>3. CASE SettleUpiClaim(s)
    <2>1. FundingKept
      BY <1>3, <1>b, LedgerGrows DEF SettleUpiClaim, FundingKept
    <2>2. RowsFunded'
      <3>0. PICK b \in Bookings : b = call[s].b
        BY <1>b
      <3>1. call[s].seen.pay = "PAID" => Funded(b)
        BY <1>a, <3>0
      <3> HIDE DEF TypeOK, Save, Post, Funded, RowsFunded
      <3>2. Funded(b)'
        <4>1. CASE Post(b, "holds")
          BY <4>1, HoldFunds
        <4>2. CASE call[s].seen.pay = "PAID"
          BY <2>1, <3>1, <4>2 DEF FundingKept
        <4> QED BY <1>3, <3>0, <4>1, <4>2 DEF SettleUpiClaim
      <3>3. UNCHANGED row \/ \E r : Save(b, r)
        BY <1>3, <3>0 DEF SettleUpiClaim
      <3>4. RowsFunded
        BY DEF Funding
      <3> QED BY <2>1, <3>2, <3>3, <3>4, FundedRow
    <2>3. SeenFunded'
      BY <1>3, <1>a, <2>1, GoneOn DEF SettleUpiClaim, Steps
    <2>4. RefundsFunded'
      <3>1. CASE UNCHANGED money BY <3>1
      <3>2. CASE Post(call[s].b, "holds") BY <1>b, <3>2
      <3> QED BY <1>3, <3>1, <3>2 DEF SettleUpiClaim
    <2> QED BY <2>2, <2>3, <2>4
  <1>4. CASE SettleUpiAbort(s)
    BY <1>4, <1>a, <1>b DEF SettleUpiAbort, At, Return, Goto
  <1>5. CASE AssignNobody(s)
    BY <1>5, <1>a, <1>b DEF AssignNobody, At, Return, Goto
  <1>6. CASE OpenSearchWindow(s)
    BY <1>6, <1>a, <1>b DEF OpenSearchWindow, At, Return, Goto
  <1>7. ASSUME NEW p \in Partners, AssignBest(s, p)
        PROVE  Funding'
    BY <1>7, <1>a, <1>b DEF AssignBest, Unclaimed, At, Return
  <1> QED BY <1>1, <1>2, <1>3, <1>4, <1>5, <1>6, <1>7 DEF PaymentStep

LEMMA DispatchFunding ==
  ASSUME TypeOK, Funding, NEW s \in Slots, DispatchStep(s)
  PROVE  Funding'
  <1> USE DEF TypeOK, Funding, RowsFunded, SeenFunded, RefundsFunded, RowNeedsMoney,
              SeenNeedsMoney, Open, Funded, Save, Post, Row, Ledger, Idle
  <1>a. call[s].at # "idle"
    BY DEF At, DispatchStep, Dispatch, ExpireCheck, ExpireRefund, SweepMark, CancelRead,
       CancelClaim, CancelRefund
  <1>b. call[s].b \in Bookings /\ row[call[s].b] \in Row /\ call[s].seen \in Seen
    BY <1>a, RunningCall
  <1>1. CASE Dispatch(s)
    BY <1>1, <1>a, <1>b DEF Dispatch, At, Return, Goto
  <1>2. CASE ExpireCheck(s)
    <2>1. FundingKept
      BY <1>2 DEF ExpireCheck, FundingKept
    <2>2. RowsFunded'
      BY <1>2, <2>1, SameRows DEF ExpireCheck
    <2>3. SeenFunded'
      <3>1. money[call[s].b].holds > 0 => Funded(call[s].b)
        BY <1>b
      <3> HIDE DEF TypeOK, Funded, SeenFunded
      <3>2. SeenFunded
        BY DEF Funding
      <3> QED BY <1>2, <1>a, <2>1, <3>1, <3>2, GoneOn, Returned DEF ExpireCheck, Steps
    <2>4. RefundsFunded'
      BY <1>2 DEF ExpireCheck, Goto, Return
    <2> QED BY <2>2, <2>3, <2>4
  <1>3. CASE ExpireRefund(s)
    BY <1>3, <1>a, <1>b DEF ExpireRefund, At, Return, Goto, Refund
  <1>4. CASE SweepMark(s)
    BY <1>4, <1>a, <1>b DEF SweepMark, At, Return, Goto
  <1>5. CASE CancelRead(s)
    <2>1. FundingKept
      BY <1>5 DEF CancelRead, FundingKept
    <2>2. RowsFunded'
      BY <1>5, <2>1, SameRows DEF CancelRead
    <2>3. SeenFunded'
      <3>1. CASE EndCancel(s)
        BY <1>a, <2>1, <3>1, CancelEnded
      <3>2. CASE GotoSeeing(s, "cancel.claim", SeenStage(row[call[s].b]))
        BY <1>5, <1>a, <1>b, <3>2 DEF CancelRead, GotoSeeing, SeenStage, SeenNothing
      <3> QED BY <1>5, <3>1, <3>2 DEF CancelRead
    <2>4. RefundsFunded'
      BY <1>5 DEF CancelRead
    <2> QED BY <2>2, <2>3, <2>4
  <1>6. CASE CancelClaim(s)
    <2>1. FundingKept
      BY <1>6 DEF CancelClaim, FundingKept
    <2>2. RowsFunded'
      <3>1. CASE Save(call[s].b, [row[call[s].b] EXCEPT !.status = "CANCELLED"])
        BY <1>b, <2>1, <3>1, SavedRow DEF FundingKept
      <3> QED BY <1>6, <2>1, <3>1, SameRows DEF CancelClaim
    <2>3. SeenFunded'
      <3>1. CASE EndCancel(s)
        BY <1>a, <2>1, <3>1, CancelEnded
      <3>2. CASE RefundDue(call[s].seen) /\ Goto(s, "cancel.refund")
        <4>1. Funded(call[s].b)
          BY <1>a, <3>2 DEF RefundDue
        <4> QED BY <1>a, <2>1, <3>2, <4>1, GoneOn DEF Steps
      <3> QED BY <1>6, <3>1, <3>2 DEF CancelClaim
    <2>4. RefundsFunded'
      BY <1>6 DEF CancelClaim
    <2> QED BY <2>2, <2>3, <2>4
  <1>7. CASE CancelRefund(s)
    <2>1. FundingKept
      BY <1>7, <1>b, LedgerGrows DEF CancelRefund, Refund
    <2>2. RowsFunded'
      BY <1>7, <1>b, <2>1, SavedRow DEF CancelRefund, Refund, FundingKept
    <2>3. SeenFunded'
      BY <1>7, <1>a, <2>1, CancelEnded DEF CancelRefund
    <2>4. RefundsFunded'
      BY <1>7, <1>a, <1>b, <2>1 DEF CancelRefund, Refund, At, FundingKept
    <2> QED BY <2>2, <2>3, <2>4
  <1> QED BY <1>1, <1>2, <1>3, <1>4, <1>5, <1>6, <1>7 DEF DispatchStep

LEMMA DispatchRequestFunding ==
  ASSUME TypeOK, Funding, NEW s \in Slots, NEW b \in Bookings, DispatchRequest(s, b)
  PROVE  Funding'
  <1> USE DEF TypeOK, Funding, RowsFunded, SeenFunded, RefundsFunded, RowNeedsMoney,
              SeenNeedsMoney, Open, Funded, Save, Post, Row, Ledger, Idle
  <1>1. CASE TimerFires(s, b)
    <2>1. FundingKept
      BY <1>1 DEF TimerFires, FundingKept
    <2>2. RowsFunded'
      <3>1. CASE Save(b, [row[b] EXCEPT !.status = "EXPIRED"])
        BY <2>1, <3>1, SavedRow DEF FundingKept
      <3> QED BY <1>1, <2>1, <3>1, SameRows DEF TimerFires
    <2>3. SeenFunded'
      <3>1. CASE Begin(s, "expire.check", b, "SYSTEM", SeenNothing)
        BY <1>1, <3>1 DEF TimerFires, Begin, SeenNothing
      <3>2. CASE UNCHANGED call
        BY <1>1, <3>2 DEF TimerFires
      <3> QED BY <1>1, <3>1, <3>2 DEF TimerFires
    <2>4. RefundsFunded'
      BY <1>1 DEF TimerFires
    <2> QED BY <2>2, <2>3, <2>4
  <1>2. CASE Sweep(s, b)
    <2>1. ASSUME NEW at \in {"cancel.read", "sweep.mark"},
                 Begin(s, at, b, "SYSTEM", SeenNothing)
          PROVE  SeenFunded'
      BY <1>2, <2>1 DEF Sweep, Begin, SeenNothing
    <2>2. SeenFunded'
      BY <1>2, <2>1 DEF Sweep
    <2> QED BY <1>2, <2>2 DEF Sweep
  <1>3. CASE RequestCancel(s, b)
    BY <1>3 DEF RequestCancel, Begin, SeenNothing
  <1>4. CASE RejectAccepted(s, b)
    BY <1>4 DEF RejectAccepted, Begin, SeenNothing
  <1> QED BY <1>1, <1>2, <1>3, <1>4 DEF DispatchRequest

LEMMA JobRequestFunding ==
  ASSUME TypeOK, Funding, NEW s \in Slots, NEW b \in Bookings, JobRequest(s, b)
  PROVE  Funding'
  <1> USE DEF TypeOK, Funding, RowsFunded, SeenFunded, RefundsFunded, RowNeedsMoney,
              SeenNeedsMoney, Open, Funded, Save, Post, Row, Ledger, Idle
  <1>1. ASSUME NEW p \in Partners, NEW route \in {"bookings", "partner"}, Accept(s, b, p, route)
        PROVE  Funding'
    BY <1>1 DEF Accept, Begin, SeenNothing
  <1>2. CASE IssueStartOtp(s, b)
    BY <1>2 DEF IssueStartOtp, Begin, SeenNotes, SeenJob, SeenNothing
  <1>3. CASE GenerateOtp(s, b)
    BY <1>3 DEF GenerateOtp, Begin, SeenNotes, SeenJob, SeenNothing
  <1>4. CASE MarkTravelling(s, b)
    BY <1>4 DEF MarkTravelling, Begin, SeenNotes, SeenJob, SeenNothing
  <1>5. CASE MarkArrived(s, b)
    BY <1>5 DEF MarkArrived, Begin, SeenNotes, SeenJob, SeenNothing
  <1>6. CASE VerifyStartOtp(s, b)
    BY <1>6 DEF VerifyStartOtp, Begin, SeenNotes, SeenJob, SeenNothing
  <1>7. CASE RequestCompletion(s, b)
    BY <1>7 DEF RequestCompletion, Begin, SeenNotes, SeenJob, SeenNothing
  <1>8. CASE IssueCompletionOtp(s, b)
    BY <1>8 DEF IssueCompletionOtp, Begin, SeenNotes, SeenJob, SeenNothing
  <1>9. CASE VerifyCompletionOtp(s, b)
    BY <1>9 DEF VerifyCompletionOtp, Begin, SeenNotes, SeenJob, SeenNothing
  <1>10. CASE Complete(s, b)
    BY <1>10 DEF Complete, Begin, SeenNotes, SeenJob, SeenNothing
  <1>11. ASSUME NEW m \in {"CASH", "UPI_MANUAL"}, SelectPayment(s, b, m)
        PROVE  Funding'
    BY <1>11 DEF SelectPayment, Begin, SeenPay, SeenNothing
  <1> QED BY <1>1, <1>2, <1>3, <1>4, <1>5, <1>6, <1>7, <1>8, <1>9, <1>10, <1>11 DEF JobRequest

LEMMA JobStepFunding ==
  ASSUME TypeOK, Funding, NEW s \in Slots, JobStep(s)
  PROVE  Funding'
  <1> USE DEF TypeOK, Funding, RowsFunded, SeenFunded, RefundsFunded, RowNeedsMoney,
              SeenNeedsMoney, Open, Funded, Save, Post, Row, Ledger, Idle
  <1>a. call[s].at # "idle"
    BY DEF At, JobStep, AcceptClaim, MintStartOtp, GenerateOtpClaim, SaveTrip, ArriveFresh,
       StartJob, WrongCode, SaveCompletionRequest, SaveCompletionOtp, SaveCompletionVerified,
       CompleteClaim, SaveSelection
  <1>b. call[s].b \in Bookings /\ row[call[s].b] \in Row /\ call[s].seen \in Seen
    BY <1>a, RunningCall
  <1>1. CASE AcceptClaim(s)
    BY <1>1, <1>a, <1>b DEF AcceptClaim, At, Return, Goto
  <1>2. CASE MintStartOtp(s)
    BY <1>2, <1>a, <1>b DEF MintStartOtp, At, Return, Goto
  <1>3. CASE GenerateOtpClaim(s)
    <2>1. FundingKept
      BY <1>3 DEF GenerateOtpClaim, FundingKept
    <2>2. RowsFunded'
      <3>1. CASE row[call[s].b].status \in Pending
        <4>1. Save(call[s].b, [row[call[s].b] EXCEPT !.status = "OTP_GENERATED", !.otp = "sent",
                 !.notes = [call[s].seen.notes EXCEPT !.start = "live"]])
          BY <1>3, <3>1 DEF GenerateOtpClaim
        <4> QED BY <1>b, <2>1, <4>1, SavedRow DEF FundingKept
      <3>2. CASE row[call[s].b].status \notin Pending
        BY <1>3, <2>1, <3>2, SameRows DEF GenerateOtpClaim
      <3> QED BY <3>1, <3>2
    <2>3. SeenFunded'
      BY <1>3, <2>1, Returned DEF GenerateOtpClaim
    <2>4. RefundsFunded'
      BY <1>3 DEF GenerateOtpClaim
    <2> QED BY <2>2, <2>3, <2>4
  <1>4. CASE SaveTrip(s)
    <2>1. FundingKept
      BY <1>4 DEF SaveTrip, FundingKept
    <2>2. RowsFunded'
      BY <1>4, <1>b, <2>1, SavedRow DEF SaveTrip, FundingKept
    <2>3. SeenFunded'
      BY <1>4, <1>a, <2>1, GoneOn, Returned DEF SaveTrip, Steps
    <2>4. RefundsFunded'
      BY <1>4 DEF SaveTrip
    <2> QED BY <2>2, <2>3, <2>4
  <1>5. CASE ArriveFresh(s)
    BY <1>5, <1>a, <1>b DEF ArriveFresh, At, Return, Goto, GotoSeeing, SeenJob, SeenNothing
  <1>6. CASE StartJob(s)
    BY <1>6, <1>a, <1>b DEF StartJob, At, Return, Goto
  <1>7. CASE WrongCode(s)
    <2>1. FundingKept
      BY <1>7 DEF WrongCode, FundingKept
    <2>2. RowsFunded'
      <3>1. \E notes : Save(call[s].b, [row[call[s].b] EXCEPT !.notes = notes])
        BY <1>7 DEF WrongCode
      <3> QED BY <1>b, <2>1, <3>1, SavedRow DEF FundingKept
    <2>3. SeenFunded'
      BY <1>7, <2>1, Returned DEF WrongCode
    <2>4. RefundsFunded'
      BY <1>7 DEF WrongCode
    <2> QED BY <2>2, <2>3, <2>4
  <1>8. CASE SaveCompletionRequest(s)
    <2>1. FundingKept
      BY <1>8 DEF SaveCompletionRequest, FundingKept
    <2>2. RowsFunded'
      BY <1>8, <1>b, <2>1, SavedRow DEF SaveCompletionRequest, FundingKept
    <2>3. SeenFunded'
      BY <1>8, <1>a, <2>1, GoneOn, Returned DEF SaveCompletionRequest, Steps
    <2>4. RefundsFunded'
      BY <1>8 DEF SaveCompletionRequest
    <2> QED BY <2>2, <2>3, <2>4
  <1>9. CASE SaveCompletionOtp(s)
    BY <1>9, <1>a, <1>b DEF SaveCompletionOtp, At, Return, Goto
  <1>10. CASE SaveCompletionVerified(s)
    BY <1>10, <1>a, <1>b DEF SaveCompletionVerified, At, Return, Goto
  <1>11. CASE CompleteClaim(s)
    <2>1. FundingKept
      BY <1>11, <1>b, LedgerGrows DEF CompleteClaim, FundingKept
    <2>2. RowsFunded'
      <3>1. CASE row[call[s].b].status = "COMPLETION_REQUESTED"
        <4>1. Save(call[s].b, [row[call[s].b] EXCEPT !.status = "COMPLETED",
                 !.notes = [call[s].seen.notes EXCEPT !.done = "verified"]])
          BY <1>11, <3>1 DEF CompleteClaim
        <4> QED BY <1>b, <2>1, <4>1, SavedRow DEF FundingKept
      <3>2. CASE row[call[s].b].status # "COMPLETION_REQUESTED"
        BY <1>11, <2>1, <3>2, SameRows DEF CompleteClaim
      <3> QED BY <3>1, <3>2
    <2>3. SeenFunded'
      BY <1>11, <2>1, Returned DEF CompleteClaim
    <2>4. RefundsFunded'
      <3>1. CASE UNCHANGED money BY <3>1
      <3>2. CASE Post(call[s].b, "payouts") BY <1>b, <3>2
      <3> QED BY <1>11, <3>1, <3>2 DEF CompleteClaim
    <2> QED BY <2>2, <2>3, <2>4
  <1>12. CASE SaveSelection(s)
    <2>1. FundingKept
      BY <1>12 DEF SaveSelection, FundingKept
    <2>2. RowsFunded'
      <3> DEFINE b == call[s].b  seen == call[s].seen  cash == seen.notes.method = "CASH"
      <3>1. CASE seen.pay = "PAID" /\ Save(b, [row[b] EXCEPT !.notes = seen.notes, !.pay = "PAID"])
        <4>1. Funded(b)
          BY <1>a, <3>1
        <4> QED BY <1>b, <2>1, <3>1, <4>1, SavedRow DEF FundingKept
      <3>2. CASE Save(b, [row[b] EXCEPT !.notes = seen.notes,
                            !.pay = IF cash THEN "PENDING_CASH" ELSE "VERIFICATION_PENDING",
                            !.status = IF cash THEN "OTP_GENERATED" ELSE @])
        BY <1>b, <2>1, <3>2, SavedRow DEF FundingKept
      <3>3. CASE UNCHANGED row
        BY <2>1, <3>3, SameRows
      <3> QED BY <1>12, <3>1, <3>2, <3>3 DEF SaveSelection
    <2>3. SeenFunded'
      BY <1>12, <2>1, Returned DEF SaveSelection
    <2>4. RefundsFunded'
      BY <1>12 DEF SaveSelection
    <2> QED BY <2>2, <2>3, <2>4
  <1> QED BY <1>1, <1>2, <1>3, <1>4, <1>5, <1>6, <1>7, <1>8, <1>9, <1>10, <1>11, <1>12
     DEF JobStep

LEMMA BackgroundFunding ==
  ASSUME TypeOK, Funding, NEW b \in Bookings, AdminUpi(b) \/ CodeLapses(b) \/ Tick(b)
  PROVE  Funding'
  <1> USE DEF TypeOK, Funding, RowsFunded, SeenFunded, RefundsFunded, RowNeedsMoney,
              SeenNeedsMoney, Open, Funded, Save, Post, Row, Ledger, Idle
  <1>1. ASSUME NEW u \in Claims, RejectUpi(b, u)
        PROVE  Funding'
    BY <1>1 DEF RejectUpi
  <1>2. ASSUME NEW u \in Claims, RequestUpiInfo(b, u)
        PROVE  Funding'
    BY <1>2 DEF RequestUpiInfo
  <1>3. CASE CodeLapses(b)
    <2>1. \E notes : Save(b, [row[b] EXCEPT !.notes = notes])
      BY <1>3 DEF CodeLapses
    <2>2. RowsFunded'
      BY <1>3, <2>1 DEF CodeLapses
    <2> QED BY <1>3, <2>2 DEF CodeLapses
  <1>4. CASE Tick(b)
    BY <1>4 DEF Tick
  <1> QED BY <1>1, <1>2, <1>3, <1>4 DEF AdminUpi

LEMMA SweepAndCrashFunding ==
  ASSUME TypeOK, Funding, LazySweep \/ Crash
  PROVE  Funding'
  <1> USE DEF TypeOK, Funding, RowsFunded, SeenFunded, RefundsFunded, RowNeedsMoney,
              SeenNeedsMoney, Open, Funded, Save, Post, Row, Ledger, Idle
  <1>1. CASE LazySweep
    BY <1>1 DEF LazySweep
  <1>2. CASE Crash
    BY <1>2 DEF Crash
  <1> QED BY <1>1, <1>2 DEF Funding

LEMMA FundingInvariant == Spec => []Funding
  <1>1. Init => Funding
    BY DEF Init, Funding, RowsFunded, SeenFunded, RefundsFunded, RowNeedsMoney, Open, NoRow,
       Idle
  <1>2. ASSUME TypeOK, Funding, [Next]_vars PROVE Funding'
    <2>1. ASSUME NEW s \in Slots, Step(s) PROVE Funding'
      BY <1>2, <2>1, PaymentStepFunding, DispatchFunding, JobStepFunding DEF Step
    <2>2. ASSUME NEW s \in Slots, NEW b \in Bookings,
                 PaymentRequest(s, b) \/ DispatchRequest(s, b) \/ JobRequest(s, b)
          PROVE  Funding'
      BY <1>2, <2>2, PaymentRequestFunding, DispatchRequestFunding, JobRequestFunding
    <2>3. ASSUME NEW b \in Bookings, AdminUpi(b) \/ CodeLapses(b) \/ Tick(b)
          PROVE  Funding'
      BY <1>2, <2>3, BackgroundFunding
    <2>4. CASE LazySweep \/ Crash
      BY <1>2, <2>4, SweepAndCrashFunding
    <2>5. CASE UNCHANGED vars
      BY <1>2, <2>5 DEF vars, Funding, RowsFunded, SeenFunded, RefundsFunded, Funded
    <2> QED BY <1>2, <2>1, <2>2, <2>3, <2>4, <2>5 DEF Next, Time
  <1> QED BY <1>1, <1>2, TypeCorrect, PTL DEF Spec

(* A partner is on a row only if its hold or its gateway payment was       *)
(* posted, however the handlers, admins, timers and restarts interleave.   *)
THEOREM PartnersWorkFunded == Spec => []PartnerImpliesFunded
  <1>1. Funding => PartnerImpliesFunded
    BY DEF Funding, RowsFunded, RowNeedsMoney, PartnerImpliesFunded
  <1> QED BY <1>1, FundingInvariant, PTL

(* No refund without a debit, though cancelBooking decides on a snapshot.  *)
THEOREM RefundsAreFunded == Spec => []RefundImpliesFunded
  <1>1. Funding => RefundImpliesFunded
    BY DEF Funding, RefundsFunded, RefundImpliesFunded
  <1> QED BY <1>1, FundingInvariant, PTL

(***************************************************************************)
(* A booking paid from the wallet, as long as nobody took it.              *)
(***************************************************************************)

(* Where such a booking is without a partner, and where it no longer is    *)
(* with one.                                                               *)
Untaken == {"PARTNER_SEARCHING", "EXPIRED", "CANCELLED"}
Before == {"NONE", "PAYMENT_PENDING", "PAYMENT_INITIATED", "PARTNER_SEARCHING", "EXPIRED"}

About(t, b, at) == At(t, at) /\ call[t].b = b
Working == {"start.verify", "done.request"}     \* about to write a stage of a running job

RowHeld(b) ==
  LET r == row[b] IN
  /\ r.pay = "PAID"
  /\ r.partner = NoPartner => r.status \in Untaken
  /\ r.partner # NoPartner => r.status \notin Before
WatchHeld(b) ==
  row[b].status = "PARTNER_SEARCHING" => b \in timers \/ Dispatching(b) \/ crashes > 0
RefundHeld(b) ==
  row[b].status = "CANCELLED" /\ row[b].partner = NoPartner
    => row[b].refunded \/ Refunding(b) \/ crashes > 0
CallHeld(t, b) ==
  LET j == call[t] IN
  /\ ~About(t, b, "initiate") /\ ~About(t, b, "upi.submit")
  /\ j.at \in Working /\ j.b = b => row[b].partner # NoPartner
  /\ About(t, b, "otp.mint") => j.seen.status \notin Before
  /\ About(t, b, "cancel.claim") =>
       /\ j.seen.pay = "PAID"
       /\ row[b].partner = NoPartner => j.seen.status \in {"PARTNER_SEARCHING", "EXPIRED"}

(* The refunds of an untaken booking, posted or on their way: one once it  *)
(* expired, one more once it was cancelled.                                *)
Expiring(t, b) == About(t, b, "expire.check") \/ About(t, b, "expire.refund")
Repaying(t, b) == About(t, b, "cancel.refund")
Coming(b) ==
  (IF \E t \in Slots : Expiring(t, b) THEN 1 ELSE 0) + (IF \E t \in Slots : Repaying(t, b) THEN 1 ELSE 0)
Allowed(status) == IF status = "CANCELLED" THEN 2 ELSE IF status = "EXPIRED" THEN 1 ELSE 0
CountHeld(b) ==
  row[b].partner = NoPartner =>
    /\ money[b].refunds + Coming(b) <= Allowed(row[b].status)
    /\ row[b].status # "CANCELLED" => \A t \in Slots : ~Repaying(t, b)
    /\ \A s, t \in Slots : Expiring(s, b) /\ Expiring(t, b) => s = t
    /\ \A s, t \in Slots : Repaying(s, b) /\ Repaying(t, b) => s = t

Held(b) == RowHeld(b) /\ WatchHeld(b) /\ RefundHeld(b) /\ CountHeld(b) /\ \A t \in Slots : CallHeld(t, b)
Blank(b) == ~Exists(b) => money[b].refunds = 0
Holding == \A b \in Bookings : (WalletHeld(b) => Held(b)) /\ Blank(b)

(***************************************************************************)
(* Frames.                                                                 *)
(***************************************************************************)

(* A handler of b these facts count on, and one that does not come to be   *)
(* counted on or to remember anything of the stage.                        *)
Watching == {"dispatch", "expire.check", "expire.refund", "cancel.refund"}
Telling == Working \cup {"initiate", "upi.submit", "otp.mint", "cancel.claim"}
Owing == {"expire.check", "expire.refund", "cancel.refund"}
Free(s, b) == ~(call[s].at \in Watching /\ call[s].b = b)
Owes(s, b) == call[s].at \in Owing /\ call[s].b = b
Others(s) == \A t \in Slots \ {s} : call'[t] = call[t]
Calm(s, b) == Others(s) /\ ~(call'[s].at \in Telling \cup Owing /\ call'[s].b = b)

LEMMA Calmed ==
  ASSUME TypeOK, NEW s \in Slots, NEW at, NEW c, NEW who, NEW seen, NEW b,
         \/ Return(s)
         \/ call[s].at # "idle" /\ Goto(s, at) /\ (at \notin Telling \cup Owing \/ call[s].b # b)
         \/ GotoSeeing(s, at, seen) /\ (at \notin Telling \cup Owing \/ call[s].b # b)
         \/ Begin(s, at, c, who, seen) /\ (at \notin Telling \cup Owing \/ c # b)
         \/ call[s].at # "idle" /\ EndCancel(s)
  PROVE  Calm(s, b)
  <1>1. "idle" \notin Telling \cup Owing /\ "sweep.mark" \notin Telling \cup Owing
    BY DEF Telling, Owing, Working
  <1> QED BY <1>1, Ended, Gone, GoneSeeing, Begun DEF Calm, Others, EndCancel

(* What a write may do to the row: keep its stage, or give it one that     *)
(* only a booking with a partner has, or expire it.                        *)
Fine(b, r) ==
  /\ r.pay \in {row[b].pay, "PAID"} /\ row[b].refunded \in {r.refunded, FALSE}
  /\ \/ r.partner = row[b].partner /\ r.status = row[b].status
     \/ r.partner # NoPartner /\ r.status \notin Before
     \/ r.partner = NoPartner /\ r.status = "EXPIRED" /\ row[b].status = "PARTNER_SEARCHING"
RowFine(b) == row'[b] = row[b] \/ Fine(b, row'[b])

LEMMA FineSave ==
  ASSUME TypeOK, NEW c \in Bookings, NEW r, UNCHANGED row \/ Save(c, r),
         NEW b \in Bookings, b = c => Fine(c, r)
  PROVE  RowFine(b)
  BY DEF TypeOK, Save, RowFine

Timely(b) ==
  /\ crashes' = crashes
  /\ b \in timers => b \in timers' \/ row'[b].status # "PARTNER_SEARCHING"
  /\ money'[b].refunds = money[b].refunds

(* A ledger row that is no refund.                                         *)
LEMMA Unrefunded ==
  ASSUME TypeOK, NEW c \in Bookings, NEW kind \in {"holds", "cards", "payouts"},
         UNCHANGED money \/ Post(c, kind), NEW b \in Bookings
  PROVE  money'[b].refunds = money[b].refunds
  <1> USE DEF TypeOK, Ledger, Post
  <1>1. CASE UNCHANGED money BY <1>1
  <1>2. CASE Post(c, "holds") BY <1>2
  <1>3. CASE Post(c, "cards") BY <1>3
  <1>4. CASE Post(c, "payouts") BY <1>4
  <1> QED BY <1>1, <1>2, <1>3, <1>4

LEMMA CountOn ==
  ASSUME TypeOK, Kept, NEW b \in Bookings, CountHeld(b), RowFine(b), Timely(b),
         \A t \in Slots : /\ Expiring(t, b)' <=> Expiring(t, b)
                          /\ Repaying(t, b)' <=> Repaying(t, b)
  PROVE  CountHeld(b)'
  <1> SUFFICES ASSUME row'[b].partner = NoPartner
               PROVE  CountHeld(b)'
    BY DEF CountHeld
  <1>1. /\ row[b].partner = NoPartner
        /\ \/ row'[b].status = row[b].status
           \/ row'[b].status = "EXPIRED" /\ row[b].status = "PARTNER_SEARCHING"
    BY DEF Kept, RowFine, Fine
  <1>2. Coming(b)' = Coming(b) /\ Coming(b) \in Nat
    <2>1. /\ (\E t \in Slots : Expiring(t, b)') <=> \E t \in Slots : Expiring(t, b)
          /\ (\E t \in Slots : Repaying(t, b)') <=> \E t \in Slots : Repaying(t, b)
      OBVIOUS
    <2> QED BY <2>1 DEF Coming
  <1>3. money'[b].refunds = money[b].refunds
    BY DEF Timely
  <1>4. money[b].refunds + Coming(b) <= Allowed(row'[b].status)
    <2>1. money[b].refunds \in Nat
      BY DEF TypeOK, Ledger
    <2> QED BY <1>1, <1>2, <2>1 DEF CountHeld, Allowed
  <1>5. row'[b].status # "CANCELLED" => \A t \in Slots : ~Repaying(t, b)'
    BY <1>1 DEF CountHeld
  <1>6. /\ \A s, t \in Slots : Expiring(s, b)' /\ Expiring(t, b)' => s = t
        /\ \A s, t \in Slots : Repaying(s, b)' /\ Repaying(t, b)' => s = t
    BY <1>1 DEF CountHeld
  <1>7. money'[b].refunds + Coming(b)' <= Allowed(row'[b].status)
    BY <1>2, <1>3, <1>4
  <1>8. Allowed(row[b].status)' = Allowed(row'[b].status)
    BY DEF Allowed
  <1> QED BY <1>5, <1>6, <1>7, <1>8 DEF CountHeld

LEMMA HeldIfCounted ==
  ASSUME TypeOK, Kept, NEW s \in Slots, NEW b \in Bookings, Held(b), RowFine(b), Timely(b),
         Free(s, b), Others(s), CallHeld(s, b)', CountHeld(b)'
  PROVE  Held(b)'
  <1>1. RowHeld(b)'
    BY DEF Held, RowHeld, RowFine, Fine, Untaken
  <1>2. WatchHeld(b)'
    BY DEF Held, RowHeld, WatchHeld, RowFine, Fine, Untaken, Before, Timely, Dispatching, At, Free,
           Watching, Others
  <1>3. RefundHeld(b)'
    BY DEF Held, RefundHeld, RowFine, Fine, Timely, Refunding, At, Free, Watching, Others
  <1>4. ASSUME NEW t \in Slots PROVE CallHeld(t, b)'
    <2>1. CallHeld(t, b) /\ (row'[b].partner = NoPartner => row[b].partner = NoPartner)
      BY DEF Held, Kept
    <2> QED BY <2>1 DEF CallHeld, About, At, Others
  <1> QED BY <1>1, <1>2, <1>3, <1>4 DEF Held

LEMMA HeldOn ==
  ASSUME TypeOK, Kept, NEW s \in Slots, NEW b \in Bookings, Held(b), RowFine(b), Timely(b),
         Free(s, b), Others(s), CallHeld(s, b)', ~Owes(s, b)'
  PROVE  Held(b)'
  <1>1. ASSUME NEW t \in Slots
        PROVE  (Expiring(t, b)' <=> Expiring(t, b)) /\ (Repaying(t, b)' <=> Repaying(t, b))
    BY DEF Expiring, Repaying, About, At, Others, Free, Owes, Watching, Owing
  <1>2. CountHeld(b)'
    BY <1>1, CountOn DEF Held
  <1> QED BY <1>2, HeldIfCounted

LEMMA CalmHeld ==
  ASSUME TypeOK, Kept, NEW s \in Slots, NEW b \in Bookings, Held(b), RowFine(b), Timely(b),
         Free(s, b), Calm(s, b)
  PROVE  Held(b)'
  <1>1. CallHeld(s, b)' /\ Others(s) /\ ~Owes(s, b)'
    BY DEF Calm, CallHeld, About, At, Telling, Working, Owes
  <1> QED BY <1>1, HeldOn

(* A step of something else. *)
LEMMA StillHeld ==
  ASSUME TypeOK, Kept, UNCHANGED call, NEW b \in Bookings, Held(b), RowFine(b), Timely(b)
  PROVE  Held(b)'
  <1>1. RowHeld(b)'
    BY DEF Held, RowHeld, RowFine, Fine, Untaken
  <1>2. WatchHeld(b)'
    BY DEF Held, RowHeld, WatchHeld, RowFine, Fine, Untaken, Before, Timely, Dispatching, At
  <1>3. RefundHeld(b)'
    BY DEF Held, RefundHeld, RowFine, Fine, Timely, Refunding, At
  <1>4. ASSUME NEW t \in Slots PROVE CallHeld(t, b)'
    <2>1. CallHeld(t, b) /\ (row'[b].partner = NoPartner => row[b].partner = NoPartner)
      BY DEF Held, Kept
    <2> QED BY <2>1 DEF CallHeld, About, At
  <1>5. CountHeld(b)'
    <2>1. ASSUME NEW t \in Slots
          PROVE  (Expiring(t, b)' <=> Expiring(t, b)) /\ (Repaying(t, b)' <=> Repaying(t, b))
      BY DEF Expiring, Repaying, About, At
    <2> QED BY <2>1, CountOn DEF Held
  <1> QED BY <1>1, <1>2, <1>3, <1>4, <1>5 DEF Held

(***************************************************************************)
(* One lemma per group of actions.                                         *)
(***************************************************************************)

LEMMA PaymentRequestHeld ==
  ASSUME TypeOK, Kept, NEW s \in Slots, NEW c \in Bookings, PaymentRequest(s, c),
         NEW b \in Bookings, Held(b)
  PROVE  Held(b)'
  <1>1. /\ row[c] \in Row /\ call[s].at = "idle"
        /\ b = c => row[c].pay = "PAID" /\ row[c].status \notin {"NONE", "PAYMENT_PENDING", "PAYMENT_INITIATED"}
    BY DEF TypeOK, Held, RowHeld, Untaken, Before, PaymentRequest, CreateOnline, CreateUnpaid,
       InitiatePayment, VerifyPayment, SubmitUpi, SettleUpi, Begin, Idle
  <1>2. Free(s, b)
    BY <1>1 DEF Free, Watching
  <1>3. {"dispatch", "assign", "upi.settle"} \cap (Telling \cup Owing) = {}
    BY DEF Telling, Owing, Working
  <1>4. money'[b].refunds = money[b].refunds
    BY Unrefunded DEF PaymentRequest, CreateOnline, CreateUnpaid, InitiatePayment, VerifyPayment,
       SubmitUpi, SettleUpi
  <1>5. CASE CreateOnline(s, c)
    <2>1. PICK r : Save(c, r) /\ b # c
      BY <1>1, <1>5 DEF CreateOnline, Exists
    <2>2. RowFine(b) /\ Timely(b) /\ Calm(s, b)
      BY <1>3, <1>4, <1>5, <2>1, FineSave, Calmed DEF CreateOnline, Timely
    <2> QED BY <1>2, <2>2, CalmHeld
  <1>6. ASSUME NEW m \in {"CASH", "UPI_MANUAL"}, CreateUnpaid(s, c, m)
        PROVE  Held(b)'
    <2>1. PICK r : Save(c, r) /\ b # c
      BY <1>1, <1>6 DEF CreateUnpaid, Exists
    <2>2. RowFine(b) /\ Timely(b) /\ Calm(s, b)
      BY <1>3, <1>4, <1>6, <2>1, FineSave, Calmed DEF CreateUnpaid, Timely
    <2> QED BY <1>2, <2>2, CalmHeld
  <1>7. CASE InitiatePayment(s, c)
    <2>1. b # c /\ call'[s].at = "initiate" /\ call'[s].b = c /\ Others(s)
      BY <1>1, <1>7, Begun DEF InitiatePayment, Others
    <2>2. RowFine(b) /\ Timely(b) /\ CallHeld(s, b)' /\ ~Owes(s, b)'
      BY <1>4, <1>7, <2>1 DEF InitiatePayment, RowFine, Timely, CallHeld, About, At, Owes
    <2> QED BY <1>2, <2>1, <2>2, HeldOn
  <1>8. CASE VerifyPayment(s, c)
    <2>1. PICK r : Save(c, r) /\ b # c
      BY <1>1, <1>8 DEF VerifyPayment
    <2>2. RowFine(b) /\ Timely(b) /\ Calm(s, b)
      BY <1>3, <1>4, <1>8, <2>1, FineSave, Calmed DEF VerifyPayment, Timely
    <2> QED BY <1>2, <2>2, CalmHeld
  <1>9. ASSUME NEW u \in Claims, SubmitUpi(s, c, u)
        PROVE  Held(b)'
    <2>1. b # c /\ call'[s].at = "upi.submit" /\ call'[s].b = c /\ Others(s)
      BY <1>1, <1>9, Begun DEF SubmitUpi, Others
    <2>2. RowFine(b) /\ Timely(b) /\ CallHeld(s, b)' /\ ~Owes(s, b)'
      BY <1>4, <1>9, <2>1 DEF SubmitUpi, RowFine, Timely, CallHeld, About, At, Owes
    <2> QED BY <1>2, <2>1, <2>2, HeldOn
  <1>10. ASSUME NEW u \in Claims, SettleUpi(s, c, u)
        PROVE  Held(b)'
    <2>1. RowFine(b) /\ Timely(b) /\ Calm(s, b)
      BY <1>3, <1>4, <1>10, Calmed DEF SettleUpi, RowFine, Timely
    <2> QED BY <1>2, <2>1, CalmHeld
  <1> QED BY <1>5, <1>6, <1>7, <1>8, <1>9, <1>10 DEF PaymentRequest

LEMMA PaymentStepHeld ==
  ASSUME TypeOK, Kept, NEW s \in Slots, PaymentStep(s), NEW b \in Bookings, Held(b)
  PROVE  Held(b)'
  <1>1. call[s].at \in {"initiate", "upi.submit", "upi.settle", "assign"}
    BY DEF At, PaymentStep, InitiatePaymentSave, SubmitUpiSave, SettleUpiClaim, SettleUpiAbort,
       AssignNobody, OpenSearchWindow, AssignBest
  <1>2. PICK c \in Bookings : c = call[s].b /\ row[c] \in Row
    BY <1>1, RunningCall DEF TypeOK
  <1>3. Free(s, b) /\ "assign" \notin Telling \cup Owing
    BY <1>1 DEF Free, Watching, At, Telling, Owing, Working
  <1>4. Timely(b)
    <2>1. money'[b].refunds = money[b].refunds
      BY <1>2, Unrefunded DEF PaymentStep, InitiatePaymentSave, SubmitUpiSave, SettleUpiClaim,
         SettleUpiAbort, AssignNobody, OpenSearchWindow, AssignBest
    <2> QED BY <2>1 DEF Timely, PaymentStep, InitiatePaymentSave, SubmitUpiSave, SettleUpiClaim,
       SettleUpiAbort, AssignNobody, OpenSearchWindow, AssignBest
  <1>5. Calm(s, b)
    BY <1>1, <1>3, Calmed DEF PaymentStep, InitiatePaymentSave, SubmitUpiSave, SettleUpiClaim,
       SettleUpiAbort, AssignNobody, OpenSearchWindow, AssignBest
  <1>6. RowFine(b)
    <2>1. CASE InitiatePaymentSave(s) \/ SubmitUpiSave(s)
      <3>1. b # c
        BY <1>2, <2>1 DEF Held, CallHeld, About, InitiatePaymentSave, SubmitUpiSave
      <3>2. \E r : Save(c, r)
        BY <1>2, <2>1 DEF InitiatePaymentSave, SubmitUpiSave
      <3> QED BY <3>1, <3>2, FineSave
    <2>2. CASE SettleUpiClaim(s)
      <3>1. b = c => UNCHANGED row
        BY <1>2, <2>2 DEF Held, RowHeld, SettleUpiClaim
      <3>2. UNCHANGED row \/ \E r : Save(c, r)
        BY <1>2, <2>2 DEF SettleUpiClaim
      <3>3. CASE b = c
        BY <3>1, <3>3 DEF RowFine
      <3>4. CASE b # c
        BY <3>2, <3>4, FineSave DEF RowFine
      <3> QED BY <3>3, <3>4
    <2>3. CASE SettleUpiAbort(s) \/ AssignNobody(s) \/ OpenSearchWindow(s)
      BY <2>3 DEF RowFine, SettleUpiAbort, AssignNobody, OpenSearchWindow
    <2>4. ASSUME NEW p \in Partners, AssignBest(s, p)
          PROVE  RowFine(b)
      <3> DEFINE r == [row[c] EXCEPT !.partner = p, !.status = "PARTNER_ASSIGNED"]
      <3>1. /\ r.partner = p /\ r.status = "PARTNER_ASSIGNED" /\ r.pay = row[c].pay
            /\ r.refunded = row[c].refunded /\ r.refunded \in BOOLEAN
        BY <1>2 DEF Row
      <3>2. Save(c, r)
        BY <1>2, <2>4 DEF AssignBest
      <3> HIDE DEF r
      <3>3. Fine(c, r)
        BY <3>1, BookingsAssumption DEF Fine, Before
      <3> QED BY <3>2, <3>3, FineSave
    <2> QED BY <2>1, <2>2, <2>3, <2>4 DEF PaymentStep
  <1> QED BY <1>3, <1>4, <1>5, <1>6, CalmHeld

(* A handler that owed a refund has posted it, or found none to post.      *)
LEMMA CountOff ==
  ASSUME TypeOK, NEW s \in Slots, NEW b \in Bookings, CountHeld(b), Others(s),
         Expiring(s, b) \/ Repaying(s, b), ~Owes(s, b)',
         row'[b].partner = row[b].partner, row'[b].status = row[b].status,
         money'[b].refunds \in {money[b].refunds, money[b].refunds + 1}
  PROVE  CountHeld(b)'
  <1> SUFFICES ASSUME row'[b].partner = NoPartner
               PROVE  CountHeld(b)'
    BY DEF CountHeld
  <1>1. CountHeld(b) /\ row[b].partner = NoPartner /\ money[b].refunds \in Nat
    BY DEF TypeOK, Ledger
  <1>2. ~Expiring(s, b)' /\ ~Repaying(s, b)' /\ ~(Expiring(s, b) /\ Repaying(s, b))
    BY DEF Owes, Owing, Expiring, Repaying, About, At
  <1>3. ASSUME NEW t \in Slots \ {s}
        PROVE  (Expiring(t, b)' <=> Expiring(t, b)) /\ (Repaying(t, b)' <=> Repaying(t, b))
    BY DEF Others, Expiring, Repaying, About, At
  <1>4. Coming(b)' + 1 = Coming(b) /\ Coming(b)' \in Nat
    <2>1. CASE Expiring(s, b)
      <3>1. /\ \A t \in Slots : ~Expiring(t, b)'
            /\ (\E t \in Slots : Repaying(t, b)') <=> \E t \in Slots : Repaying(t, b)
        BY <1>1, <1>2, <1>3, <2>1 DEF CountHeld
      <3> QED BY <2>1, <3>1 DEF Coming
    <2>2. CASE Repaying(s, b)
      <3>1. /\ \A t \in Slots : ~Repaying(t, b)'
            /\ (\E t \in Slots : Expiring(t, b)') <=> \E t \in Slots : Expiring(t, b)
        BY <1>1, <1>2, <1>3, <2>2 DEF CountHeld
      <3> QED BY <2>2, <3>1 DEF Coming
    <2> QED BY <2>1, <2>2
  <1>5. money'[b].refunds + Coming(b)' <= Allowed(row[b].status)'
    <2>1. Allowed(row[b].status)' = Allowed(row[b].status) /\ Allowed(row[b].status) \in Nat
      BY DEF Allowed
    <2> QED BY <1>1, <1>4, <2>1 DEF CountHeld
  <1>6. \A t \in Slots : (Expiring(t, b)' => Expiring(t, b)) /\ (Repaying(t, b)' => Repaying(t, b))
    BY <1>2, <1>3
  <1>7. /\ row'[b].status # "CANCELLED" => \A t \in Slots : ~Repaying(t, b)'
        /\ \A u, t \in Slots : Expiring(u, b)' /\ Expiring(t, b)' => u = t
        /\ \A u, t \in Slots : Repaying(u, b)' /\ Repaying(t, b)' => u = t
    BY <1>1, <1>6 DEF CountHeld
  <1> QED BY <1>5, <1>7 DEF CountHeld

(* The timer of an unclaimed search has expired it and looks for its hold. *)
LEMMA CountExpired ==
  ASSUME TypeOK, NEW s \in Slots, NEW b \in Bookings, CountHeld(b), Others(s),
         Unclaimed(row[b]), Free(s, b), ~Repaying(s, b)',
         row'[b].status = "EXPIRED", money'[b].refunds = money[b].refunds
  PROVE  CountHeld(b)'
  <1>1. money[b].refunds \in Nat
    BY DEF TypeOK, Ledger
  <1>2. Coming(b) \in Nat
    BY DEF Coming
  <1>3. money[b].refunds = 0 /\ Coming(b) = 0 /\ \A t \in Slots : ~Repaying(t, b)
    BY <1>1, <1>2 DEF CountHeld, Unclaimed, Allowed
  <1>4. \A t \in Slots : ~Expiring(t, b)
    BY <1>3 DEF Coming
  <1>5. \A t \in Slots \ {s} : ~Expiring(t, b)' /\ ~Repaying(t, b)'
    BY <1>3, <1>4 DEF Others, Expiring, Repaying, About, At
  <1>6. \A t \in Slots : ~Repaying(t, b)'
    BY <1>5
  <1>7. Coming(b)' <= 1 /\ Coming(b)' \in Nat
    BY <1>6 DEF Coming
  <1>8. Allowed(row[b].status)' = 1
    BY DEF Allowed
  <1> QED BY <1>3, <1>5, <1>6, <1>7, <1>8 DEF CountHeld

(* It was cancelled, and one refund more is on its way.                    *)
LEMMA CountCancelled ==
  ASSUME TypeOK, NEW s \in Slots, NEW b \in Bookings, Held(b), Others(s),
         row[b].status \notin Terminal, Free(s, b), ~Expiring(s, b)',
         row'[b].partner = row[b].partner, row'[b].status = "CANCELLED",
         money'[b].refunds = money[b].refunds
  PROVE  CountHeld(b)'
  <1> SUFFICES ASSUME row'[b].partner = NoPartner
               PROVE  CountHeld(b)'
    BY DEF CountHeld
  <1>1. CountHeld(b) /\ money[b].refunds \in Nat /\ row[b].status \in {"PARTNER_SEARCHING", "EXPIRED"}
    BY DEF TypeOK, Ledger, Held, RowHeld, Untaken, Terminal
  <1>2. ASSUME NEW t \in Slots \ {s}
        PROVE  (Expiring(t, b)' <=> Expiring(t, b)) /\ ~Repaying(t, b)'
    BY <1>1 DEF Others, CountHeld, Expiring, Repaying, About, At
  <1>3. ~Expiring(s, b)
    BY DEF Free, Watching, Expiring, About, At
  <1>4. Coming(b)' <= Coming(b) + 1 /\ Coming(b) \in Nat /\ Coming(b)' \in Nat
    <2>1. (\E t \in Slots : Expiring(t, b)') <=> \E t \in Slots : Expiring(t, b)
      BY <1>2, <1>3
    <2> QED BY <2>1 DEF Coming
  <1>5. Allowed(row[b].status) <= 1 /\ Allowed(row[b].status) \in Nat /\ Allowed(row[b].status)' = 2
    BY <1>1 DEF Allowed
  <1>6. money[b].refunds + Coming(b) <= Allowed(row[b].status)
    BY <1>1 DEF CountHeld
  <1>7. /\ \A u, t \in Slots : Expiring(u, b)' /\ Expiring(t, b)' => u = t
        /\ \A u, t \in Slots : Repaying(u, b)' /\ Repaying(t, b)' => u = t
    <2>1. \A t \in Slots : (Expiring(t, b)' => Expiring(t, b)) /\ (Repaying(t, b)' => t = s)
      BY <1>2, <1>3
    <2> QED BY <1>1, <2>1 DEF CountHeld
  <1>8. money'[b].refunds + Coming(b)' <= 2
    BY <1>1, <1>4, <1>5, <1>6
  <1> QED BY <1>5, <1>7, <1>8 DEF CountHeld

LEMMA DispatchHeld ==
  ASSUME TypeOK, Kept, NEW s \in Slots, DispatchStep(s), NEW b \in Bookings, Held(b)
  PROVE  Held(b)'
  <1>1. call[s].at # "idle"
    BY DEF At, DispatchStep, Dispatch, ExpireCheck, ExpireRefund, SweepMark, CancelRead,
       CancelClaim, CancelRefund
  <1>2. PICK c \in Bookings : c = call[s].b /\ row[c] \in Row
    BY <1>1, RunningCall DEF TypeOK
  <1> DEFINE q == [row[c] EXCEPT !.refunded = TRUE]
             x == [row[c] EXCEPT !.status = "CANCELLED"]
  <1>3. /\ q.status = row[c].status /\ q.pay = row[c].pay /\ q.partner = row[c].partner
        /\ q.refunded = TRUE
        /\ x.status = "CANCELLED" /\ x.pay = row[c].pay /\ x.partner = row[c].partner
        /\ x.refunded = row[c].refunded /\ row[c].refunded \in BOOLEAN
    BY <1>2 DEF Row
  <1>4. /\ UNCHANGED row \/ Save(c, q) \/ Save(c, x)
        /\ UNCHANGED money \/ Post(c, "refunds")
        /\ crashes' = crashes /\ timers \subseteq timers'
    BY <1>2 DEF DispatchStep, Dispatch, ExpireCheck, ExpireRefund, SweepMark, CancelRead,
       CancelClaim, CancelRefund, Refund, q, x
  <1> HIDE DEF q, x
  <1>5. CASE b # c
    <2>1. Free(s, b)
      BY <1>2, <1>5 DEF Free
    <2>2. Calm(s, b)
      <3>1. CASE CancelRead(s)
        <4>1. EndCancel(s) \/ GotoSeeing(s, "cancel.claim", SeenStage(row[call[s].b]))
          BY <3>1 DEF CancelRead
        <4> QED BY <1>1, <1>2, <1>5, <4>1, Calmed
      <3>2. CASE Dispatch(s) \/ ExpireRefund(s) \/ SweepMark(s) \/ CancelRefund(s)
        BY <1>1, <3>2, Calmed DEF Dispatch, ExpireRefund, SweepMark, CancelRefund
      <3>3. CASE ExpireCheck(s) \/ CancelClaim(s)
        <4>1. Return(s) \/ Goto(s, "expire.refund") \/ Goto(s, "cancel.refund") \/ EndCancel(s)
          BY <3>3 DEF ExpireCheck, CancelClaim
        <4> QED BY <1>1, <1>2, <1>5, <4>1, Calmed
      <3> QED BY <3>1, <3>2, <3>3 DEF DispatchStep
    <2>3. RowFine(b) /\ Timely(b)
      BY <1>4, <1>5 DEF RowFine, Timely, Save, Post, TypeOK
    <2> QED BY <2>1, <2>2, <2>3, CalmHeld
  <1> SUFFICES ASSUME b = c
               PROVE  Held(b)'
    BY <1>5
  <1>6. CASE Dispatch(s)
    <2>1. /\ UNCHANGED <<row, money>> /\ crashes' = crashes /\ timers \subseteq timers'
          /\ row[b].status = "PARTNER_SEARCHING" => b \in timers'
          /\ At(s, "dispatch") /\ call'[s].at = "idle" /\ Others(s)
      BY <1>2, <1>6, Ended DEF Dispatch, Others
    <2>2. Timely(b) /\ RowFine(b)
      BY <2>1 DEF Timely, RowFine
    <2>3. RowHeld(b)' /\ WatchHeld(b)'
      BY <2>1 DEF Held, RowHeld, WatchHeld
    <2>4. RefundHeld(b)'
      BY <2>1 DEF Held, RefundHeld, Refunding, At, Others
    <2>5. \A t \in Slots : CallHeld(t, b)'
      BY <2>1 DEF Held, CallHeld, About, At, Others, Working
    <2>6. CountHeld(b)'
      <3>1. ASSUME NEW t \in Slots
            PROVE  (Expiring(t, b)' <=> Expiring(t, b)) /\ (Repaying(t, b)' <=> Repaying(t, b))
        BY <2>1 DEF Expiring, Repaying, About, At, Others
      <3> QED BY <2>2, <3>1, CountOn DEF Held
    <2> QED BY <2>3, <2>4, <2>5, <2>6 DEF Held
  <1>7. CASE ExpireCheck(s) \/ ExpireRefund(s)
    <2>1. /\ Expiring(s, b) /\ call[s].at \in {"expire.check", "expire.refund"}
          /\ \/ call'[s].at = "idle"
             \/ call'[s].at = "expire.refund" /\ call'[s].b = b /\ UNCHANGED <<row, money>>
          /\ Others(s) /\ timers' = timers
      BY <1>1, <1>2, <1>7, Ended, Gone DEF ExpireCheck, ExpireRefund, Expiring, About, At, Others
    <2>2. row'[b] \in {row[b], q}
      BY <1>2, <1>7 DEF ExpireCheck, ExpireRefund, Refund, Save, TypeOK, q
    <2>3. RowHeld(b)' /\ WatchHeld(b)' /\ RefundHeld(b)'
      <3>1. (Dispatching(b) => Dispatching(b)') /\ (Refunding(b) => Refunding(b)')
        BY <2>1 DEF Dispatching, Refunding, At, Others
      <3> QED BY <1>3, <1>4, <2>1, <2>2, <3>1 DEF Held, RowHeld, WatchHeld, RefundHeld
    <2>4. \A t \in Slots : CallHeld(t, b)'
      BY <1>3, <2>1, <2>2 DEF Held, CallHeld, About, At, Others, Working
    <2>5. CountHeld(b)'
      <3>1. CASE call'[s].at = "expire.refund" /\ call'[s].b = b /\ UNCHANGED <<row, money>>
        <4>1. ASSUME NEW t \in Slots
              PROVE  (Expiring(t, b)' <=> Expiring(t, b)) /\ (Repaying(t, b)' <=> Repaying(t, b))
          BY <2>1, <3>1 DEF Expiring, Repaying, About, At, Others
        <4>2. RowFine(b) /\ Timely(b)
          BY <1>4, <3>1 DEF RowFine, Timely
        <4> QED BY <4>1, <4>2, CountOn DEF Held
      <3>2. CASE call'[s].at = "idle"
        <4>1. money'[b].refunds \in {money[b].refunds, money[b].refunds + 1}
          BY <1>4 DEF Post, TypeOK, Ledger
        <4>2. row'[b].partner = row[b].partner /\ row'[b].status = row[b].status /\ ~Owes(s, b)'
          BY <1>3, <2>2, <3>2 DEF Owes, Owing
        <4> QED BY <2>1, <4>1, <4>2, CountOff DEF Held
      <3> QED BY <2>1, <3>1, <3>2
    <2> QED BY <2>3, <2>4, <2>5 DEF Held
  <1>8. CASE SweepMark(s) \/ CancelRead(s)
    <2>1. Free(s, b) /\ RowFine(b) /\ Timely(b)
      BY <1>8 DEF Free, Watching, At, RowFine, Timely, SweepMark, CancelRead
    <2>2. CASE SweepMark(s) \/ EndCancel(s)
      BY <1>1, <2>1, <2>2, Calmed, CalmHeld DEF SweepMark
    <2>3. CASE row[c].status \notin Terminal /\ GotoSeeing(s, "cancel.claim", SeenStage(row[c])) /\ UNCHANGED row
      <3>1. /\ call'[s].at = "cancel.claim" /\ call'[s].b = c /\ call'[s].seen = SeenStage(row[c])
            /\ Others(s)
        BY <1>2, <2>3, GoneSeeing DEF Others
      <3>2. SeenStage(row[c]).pay = row[c].pay /\ SeenStage(row[c]).status = row[c].status
        BY DEF SeenStage, SeenNothing
      <3>3. CallHeld(s, b)' /\ ~Owes(s, b)'
        BY <2>3, <3>1, <3>2 DEF Held, RowHeld, CallHeld, About, At, Untaken, Terminal, Working, Owes, Owing
      <3> QED BY <2>1, <3>1, <3>3, HeldOn
    <2> QED BY <1>2, <1>8, <2>2, <2>3 DEF CancelRead
  <1>9. CASE CancelClaim(s)
    <2>1. Free(s, b) /\ Timely(b)
      BY <1>9 DEF Free, Watching, At, Timely, CancelClaim
    <2>2. CASE UNCHANGED row /\ EndCancel(s)
      BY <1>1, <2>1, <2>2, Calmed, CalmHeld DEF RowFine
    <2>3. CASE /\ row[c].status \notin Terminal /\ Save(c, x)
               /\ IF RefundDue(call[s].seen) THEN Goto(s, "cancel.refund") ELSE EndCancel(s)
      <3>1. row'[b] = x
        BY <2>3 DEF Save, TypeOK
      <3>2. /\ Others(s) /\ call'[s].at \in {"cancel.refund", "idle", "sweep.mark"}
            /\ RefundDue(call[s].seen) => call'[s].at = "cancel.refund" /\ call'[s].b = b
        BY <1>1, <1>2, <2>3, Gone, Ended DEF Others, EndCancel
      <3>3. RowHeld(b)' /\ WatchHeld(b)'
        BY <1>3, <2>3, <3>1 DEF Held, RowHeld, WatchHeld, Untaken, Before, Terminal
      <3>4. RefundHeld(b)'
        <4>1. row[b].partner = NoPartner => RefundDue(call[s].seen)
          BY <1>2, <1>9 DEF Held, CallHeld, About, CancelClaim, RefundDue
        <4>2. RefundDue(call[s].seen) => Refunding(b)'
          BY <3>2 DEF Refunding, At
        <4> QED BY <1>3, <3>1, <4>1, <4>2 DEF RefundHeld
      <3>5. \A t \in Slots : CallHeld(t, b)'
        BY <1>3, <3>1, <3>2 DEF Held, CallHeld, About, At, Others, Working
      <3>6. CountHeld(b)'
        <4>1. ~Expiring(s, b)'
          BY <3>2 DEF Expiring, About, At
        <4>2. row[b].status \notin Terminal /\ row'[b].partner = row[b].partner
              /\ row'[b].status = "CANCELLED" /\ money'[b].refunds = money[b].refunds
          BY <1>3, <2>1, <2>3, <3>1 DEF Timely
        <4> QED BY <2>1, <3>2, <4>1, <4>2, CountCancelled
      <3> QED BY <3>3, <3>4, <3>5, <3>6 DEF Held
    <2> QED BY <1>2, <1>9, <2>2, <2>3 DEF CancelClaim, x
  <1>10. CASE CancelRefund(s)
    <2>1. /\ row'[b] = q /\ Others(s) /\ call'[s].at \in {"idle", "sweep.mark"}
          /\ call[s].at = "cancel.refund" /\ timers' = timers
      BY <1>1, <1>2, <1>10, Gone, Ended
         DEF CancelRefund, Refund, Save, TypeOK, q, Others, EndCancel, At
    <2>2. RowHeld(b)' /\ RefundHeld(b)'
      BY <1>3, <2>1 DEF Held, RowHeld, RefundHeld
    <2>3. WatchHeld(b)'
      BY <1>3, <1>4, <2>1 DEF Held, WatchHeld, Dispatching, At, Others
    <2>4. \A t \in Slots : CallHeld(t, b)'
      BY <1>3, <2>1 DEF Held, CallHeld, About, At, Others, Working
    <2>5. CountHeld(b)'
      <3>1. money'[b].refunds \in {money[b].refunds, money[b].refunds + 1}
        BY <1>4 DEF Post, TypeOK, Ledger
      <3>2. /\ Repaying(s, b) /\ ~Owes(s, b)'
            /\ row'[b].partner = row[b].partner /\ row'[b].status = row[b].status
        BY <1>2, <1>3, <2>1 DEF Repaying, About, At, Owes, Owing
      <3> QED BY <2>1, <3>1, <3>2, CountOff DEF Held
    <2> QED BY <2>2, <2>3, <2>4, <2>5 DEF Held
  <1> QED BY <1>6, <1>7, <1>8, <1>9, <1>10 DEF DispatchStep

LEMMA DispatchRequestHeld ==
  ASSUME TypeOK, Kept, NEW s \in Slots, NEW c \in Bookings, DispatchRequest(s, c),
         NEW b \in Bookings, Held(b)
  PROVE  Held(b)'
  <1>1. row[c] \in Row /\ {"cancel.read", "sweep.mark"} \cap (Telling \cup Owing) = {}
    BY DEF TypeOK, Telling, Owing, Working
  <1>2. CASE TimerFires(s, c)
    <2> DEFINE r == [row[c] EXCEPT !.status = "EXPIRED"]
    <2>1. /\ r.status = "EXPIRED" /\ r.pay = row[c].pay /\ r.partner = row[c].partner
          /\ r.refunded = row[c].refunded /\ r.refunded \in BOOLEAN
      BY <1>1 DEF Row
    <2>2. /\ timers' = timers \ {c} /\ crashes' = crashes /\ money' = money
          /\ \/ Unclaimed(row[c]) /\ Save(c, r) /\ Begin(s, "expire.check", c, "SYSTEM", SeenNothing)
             \/ ~Unclaimed(row[c]) /\ UNCHANGED <<row, call>>
      BY <1>2 DEF TimerFires
    <2> HIDE DEF r
    <2>3. CASE Unclaimed(row[c]) /\ Save(c, r) /\ Begin(s, "expire.check", c, "SYSTEM", SeenNothing)
      <3>1. RowFine(b)
        BY <2>1, <2>3, FineSave DEF Fine, Unclaimed
      <3>2. /\ Others(s) /\ call[s].at = "idle"
            /\ call'[s].at = "expire.check" /\ call'[s].b = c
        BY <2>3, Begun DEF Others
      <3>3. Free(s, b) /\ CallHeld(s, b)' /\ ~Repaying(s, b)'
        BY <3>2 DEF Free, Watching, CallHeld, Repaying, About, At, Working
      <3>4. row'[c] = r
        BY <2>3 DEF Save, TypeOK
      <3>5. Timely(b)
        BY <2>1, <2>2, <3>4 DEF Timely
      <3>6. CASE b = c
        <4>1. CountHeld(b)'
          BY <2>1, <2>3, <3>2, <3>3, <3>4, <3>5, <3>6, CountExpired DEF Held, Timely
        <4> QED BY <3>1, <3>2, <3>3, <3>5, <4>1, HeldIfCounted
      <3>7. CASE b # c
        BY <3>1, <3>2, <3>3, <3>5, <3>7, HeldOn DEF Owes
      <3> QED BY <3>6, <3>7
    <2>4. CASE ~Unclaimed(row[c]) /\ UNCHANGED <<row, call>>
      <3>1. RowFine(b)
        BY <2>4 DEF RowFine
      <3>2. Timely(b)
        BY <2>2, <2>4 DEF Timely, Held, RowHeld, Unclaimed, Before
      <3> QED BY <2>4, <3>1, <3>2, StillHeld
    <2> QED BY <2>2, <2>3, <2>4
  <1>3. CASE Sweep(s, c) \/ RequestCancel(s, c) \/ RejectAccepted(s, c)
    <2>1. PICK at, who : at \in {"cancel.read", "sweep.mark"} /\ Begin(s, at, c, who, SeenNothing)
      BY <1>3 DEF Sweep, RequestCancel, RejectAccepted
    <2>2. Calm(s, b) /\ Free(s, b)
      BY <1>1, <2>1, Calmed, Begun DEF Free, Watching
    <2>3. RowFine(b) /\ Timely(b)
      BY <1>3 DEF RowFine, Timely, Sweep, RequestCancel, RejectAccepted
    <2> QED BY <2>2, <2>3, CalmHeld
  <1> QED BY <1>2, <1>3 DEF DispatchRequest

LEMMA JobRequestHeld ==
  ASSUME TypeOK, Kept, NEW s \in Slots, NEW c \in Bookings, JobRequest(s, c),
         NEW b \in Bookings, Held(b)
  PROVE  Held(b)'
  <1>1. RowFine(b) /\ Timely(b)
    BY DEF RowFine, Timely, JobRequest, Accept, IssueStartOtp, GenerateOtp, MarkTravelling, MarkArrived,
       VerifyStartOtp, RequestCompletion, IssueCompletionOtp, VerifyCompletionOtp, Complete, SelectPayment
  <1>2. PICK at, who, seen :
          /\ Begin(s, at, c, who, seen) /\ at \notin {"initiate", "upi.submit", "cancel.claim"} \cup Owing
          /\ at = "otp.mint" => row[c].status \in Pending /\ seen = SeenJob(row[c])
          /\ at \in Working => row[c].partner # NoPartner /\ UNCHANGED row
    BY DEF Owing, Working, Assigned, JobRequest, Accept, IssueStartOtp, GenerateOtp, MarkTravelling, MarkArrived,
       VerifyStartOtp, RequestCompletion, IssueCompletionOtp, VerifyCompletionOtp, Complete, SelectPayment
  <1>3. Free(s, b)
    BY <1>2, Begun DEF Free, Watching
  <1>4. Others(s) /\ CallHeld(s, b)' /\ ~Owes(s, b)'
    <2>1. SeenJob(row[c]).status = row[c].status
      BY DEF SeenJob, SeenNothing
    <2>2. Others(s) /\ call'[s].at = at /\ call'[s].b = c /\ call'[s].seen = seen
      BY <1>2, Begun DEF Others
    <2> QED BY <1>2, <2>1, <2>2 DEF CallHeld, About, At, Pending, Before, Owes
  <1> QED BY <1>1, <1>3, <1>4, HeldOn

(* A handler of a job in flight.                                           *)
LEMMA JobStepHeld ==
  ASSUME TypeOK, Stages, Kept, NEW s \in Slots, JobStep(s), NEW b \in Bookings, Held(b)
  PROVE  Held(b)'
  <1>1. call[s].at \notin {"idle", "sweep.mark"} \cup Watching
    BY DEF At, Watching, JobStep, AcceptClaim, MintStartOtp, GenerateOtpClaim, SaveTrip, ArriveFresh,
       StartJob, WrongCode, SaveCompletionRequest, SaveCompletionOtp, SaveCompletionVerified,
       CompleteClaim, SaveSelection
  <1>2. PICK c \in Bookings : /\ c = call[s].b /\ row[c] \in Row /\ call[s].seen \in Seen
                              /\ CallTells(s) /\ RowTells(c)
    BY <1>1, RunningBooking DEF Stages
  <1>3. {"arrive.fresh", "done.code"} \cap (Telling \cup Owing) = {}
    BY DEF Telling, Owing, Working
  <1>4. Free(s, b)
    BY <1>1 DEF Free, Watching
  <1>5. CASE AcceptClaim(s)
    <2> DEFINE p == call[s].who
               r == [row[c] EXCEPT !.partner = p, !.status = "PARTNER_ACCEPTED"]
    <2>1. /\ \/ UNCHANGED <<row, timers>>
             \/ Save(c, r) /\ timers' = timers \ {c}
          /\ Return(s) /\ crashes' = crashes /\ At(s, "accept.claim") /\ money' = money
      BY <1>2, <1>5 DEF AcceptClaim
    <2>2. p \in Partners /\ p # NoPartner
      BY <1>1, <2>1, RunningCall, BookingsAssumption DEF TypeOK, At
    <2>3. /\ r.partner = p /\ r.status = "PARTNER_ACCEPTED" /\ r.pay = row[c].pay
          /\ r.refunded = row[c].refunded /\ r.refunded \in BOOLEAN
      BY <1>2 DEF Row
    <2> HIDE DEF r, p
    <2>4. RowFine(b)
      BY <2>1, <2>2, <2>3, FineSave DEF Fine, Before
    <2>5. Timely(b)
      <3>1. Save(c, r) => row'[c].status = "PARTNER_ACCEPTED"
        BY <2>3 DEF Save, TypeOK
      <3> QED BY <2>1, <3>1 DEF Timely
    <2>6. Calm(s, b)
      BY <1>1, <1>3, <2>1, Calmed
    <2> QED BY <1>4, <2>4, <2>5, <2>6, CalmHeld
  <1>6. ASSUME ~AcceptClaim(s) PROVE Timely(b)
    <2>1. UNCHANGED money \/ Post(c, "payouts")
      BY <1>2, <1>6 DEF JobStep, MintStartOtp, GenerateOtpClaim, SaveTrip, ArriveFresh,
         StartJob, WrongCode, SaveCompletionRequest, SaveCompletionOtp, SaveCompletionVerified,
         CompleteClaim, SaveSelection
    <2>2. money'[b].refunds = money[b].refunds
      BY <2>1, Unrefunded
    <2> QED BY <1>6, <2>2 DEF Timely, JobStep, MintStartOtp, GenerateOtpClaim, SaveTrip, ArriveFresh,
       StartJob, WrongCode, SaveCompletionRequest, SaveCompletionOtp, SaveCompletionVerified,
       CompleteClaim, SaveSelection
  <1>7. ASSUME NEW r, UNCHANGED row \/ Save(c, r), Timely(b),
               Return(s) \/ Goto(s, "arrive.fresh") \/ Goto(s, "done.code"),
               r.pay \in {row[c].pay, "PAID"}, r.partner = row[c].partner,
               r.refunded = row[c].refunded,
               b = c => r.status = row[c].status \/ (row[c].partner # NoPartner /\ r.status \notin Before)
        PROVE  Held(b)'
    <2>1. row[c].refunded \in BOOLEAN
      BY <1>2 DEF Row
    <2>2. RowFine(b)
      BY <1>7, <2>1, FineSave DEF Fine
    <2>3. Calm(s, b)
      BY <1>1, <1>3, <1>7, Calmed
    <2> QED BY <1>4, <1>7, <2>2, <2>3, CalmHeld
  <1>8. CASE MintStartOtp(s)
    <2> DEFINE seen == call[s].seen
               r == [row[c] EXCEPT
                 !.status = IF seen.status = "PARTNER_ACCEPTED" THEN "OTP_GENERATED" ELSE seen.status,
                 !.otp = "sent",
                 !.notes = [seen.notes EXCEPT !.start = "live"]]
    <2>1. Save(c, r) /\ Return(s) /\ At(s, "otp.mint") /\ Timely(b)
      BY <1>2, <1>6, <1>8 DEF MintStartOtp, AcceptClaim, At
    <2>2. /\ r.pay = row[c].pay /\ r.partner = row[c].partner /\ r.refunded = row[c].refunded
          /\ r.status \in {seen.status, "OTP_GENERATED"}
      BY <1>2 DEF Row
    <2>3. row[c].partner # NoPartner /\ (b = c => seen.status \notin Before)
      BY <1>2, <2>1 DEF CallTells, Trip, At, Held, CallHeld, About
    <2> HIDE DEF r, seen
    <2> QED BY <1>7, <2>1, <2>2, <2>3 DEF Before
  <1>9. ASSUME UNCHANGED row, Return(s), ~AcceptClaim(s) PROVE Held(b)'
    <2>1. RowFine(b) /\ Calm(s, b)
      BY <1>1, <1>3, <1>9, Calmed DEF RowFine
    <2> QED BY <1>4, <1>6, <1>9, <2>1, CalmHeld
  <1>10. CASE GenerateOtpClaim(s)
    <2> DEFINE r == [row[c] EXCEPT !.status = "OTP_GENERATED", !.otp = "sent",
                                   !.notes = [call[s].seen.notes EXCEPT !.start = "live"]]
    <2>1. /\ Return(s) /\ ~AcceptClaim(s)
          /\ UNCHANGED row \/ (row[c].status \in Pending /\ Save(c, r))
      BY <1>2, <1>10 DEF GenerateOtpClaim, AcceptClaim, At
    <2>2. /\ r.pay = row[c].pay /\ r.partner = row[c].partner /\ r.refunded = row[c].refunded
          /\ r.status = "OTP_GENERATED"
      BY <1>2 DEF Row
    <2> HIDE DEF r
    <2>3. CASE row[c].status \in Pending /\ Save(c, r)
      <3>1. (b = c => row[c].partner # NoPartner) /\ r.status \notin Before
        BY <2>2, <2>3 DEF Held, RowHeld, Pending, Untaken, Before
      <3> QED BY <1>6, <1>7, <2>1, <2>2, <2>3, <3>1
    <2> QED BY <1>9, <2>1, <2>3
  <1>11. CASE SaveTrip(s) \/ WrongCode(s) \/ SaveCompletionOtp(s) \/ SaveCompletionVerified(s)
    <2>1. PICK notes : /\ Save(c, [row[c] EXCEPT !.notes = notes]) /\ ~AcceptClaim(s)
                       /\ Return(s) \/ Goto(s, "arrive.fresh")
      BY <1>2, <1>11 DEF SaveTrip, WrongCode, SaveCompletionOtp, SaveCompletionVerified, AcceptClaim, At
    <2> DEFINE r == [row[c] EXCEPT !.notes = notes]
    <2>2. /\ r.pay = row[c].pay /\ r.partner = row[c].partner /\ r.refunded = row[c].refunded
          /\ r.status = row[c].status
      BY <1>2 DEF Row
    <2> HIDE DEF r
    <2> QED BY <1>6, <1>7, <2>1, <2>2 DEF r
  <1>12. CASE ArriveFresh(s)
    <2>1. /\ call'[s].at = "otp.mint" /\ call'[s].b = c /\ call'[s].seen = SeenJob(row[c])
          /\ Others(s) /\ UNCHANGED row /\ At(s, "arrive.fresh")
      BY <1>2, <1>12, GoneSeeing DEF Others, ArriveFresh
    <2>2. row[c].partner # NoPartner /\ SeenJob(row[c]).status = row[c].status
      BY <1>2, <2>1 DEF CallTells, Trip, At, SeenJob, SeenNothing
    <2>3. CallHeld(s, b)' /\ RowFine(b) /\ ~Owes(s, b)'
      BY <2>1, <2>2 DEF Held, RowHeld, CallHeld, About, At, RowFine, Working, Owes, Owing
    <2>4. Timely(b)
      BY <1>6, <2>1 DEF AcceptClaim, At
    <2> QED BY <1>4, <2>1, <2>3, <2>4, HeldOn
  <1>13. CASE StartJob(s)
    <2> DEFINE r == [row[c] EXCEPT !.status = "IN_PROGRESS", !.otp = "checked",
                                   !.notes = [call[s].seen.notes EXCEPT !.start = "verified"]]
    <2>1. Save(c, r) /\ Return(s) /\ At(s, "start.verify") /\ ~AcceptClaim(s)
      BY <1>2, <1>13 DEF StartJob, AcceptClaim, At
    <2>2. /\ r.pay = row[c].pay /\ r.partner = row[c].partner /\ r.refunded = row[c].refunded
          /\ r.status = "IN_PROGRESS"
      BY <1>2 DEF Row
    <2> HIDE DEF r
    <2>3. (b = c => row[c].partner # NoPartner) /\ r.status \notin Before
      BY <1>2, <2>1, <2>2 DEF Held, CallHeld, At, Working, Before
    <2> QED BY <1>6, <1>7, <2>1, <2>2, <2>3
  <1>14. CASE SaveCompletionRequest(s)
    <2> DEFINE r == [row[c] EXCEPT !.status = "COMPLETION_REQUESTED", !.notes = call[s].seen.notes]
    <2>1. Save(c, r) /\ (Return(s) \/ Goto(s, "done.code")) /\ At(s, "done.request") /\ ~AcceptClaim(s)
      BY <1>2, <1>14 DEF SaveCompletionRequest, AcceptClaim, At
    <2>2. /\ r.pay = row[c].pay /\ r.partner = row[c].partner /\ r.refunded = row[c].refunded
          /\ r.status = "COMPLETION_REQUESTED"
      BY <1>2 DEF Row
    <2> HIDE DEF r
    <2>3. (b = c => row[c].partner # NoPartner) /\ r.status \notin Before
      BY <1>2, <2>1, <2>2 DEF Held, CallHeld, At, Working, Before
    <2> QED BY <1>6, <1>7, <2>1, <2>2, <2>3
  <1>15. CASE CompleteClaim(s)
    <2>1. /\ Return(s) /\ ~AcceptClaim(s)
          /\ \/ UNCHANGED row
             \/ /\ row[c].status = "COMPLETION_REQUESTED"
                /\ Save(c, [row[c] EXCEPT !.status = "COMPLETED",
                                          !.notes = [call[s].seen.notes EXCEPT !.done = "verified"]])
      BY <1>2, <1>15 DEF CompleteClaim, AcceptClaim, At
    <2> DEFINE r == [row[c] EXCEPT !.status = "COMPLETED",
                                   !.notes = [call[s].seen.notes EXCEPT !.done = "verified"]]
    <2>2. /\ r.pay = row[c].pay /\ r.partner = row[c].partner /\ r.refunded = row[c].refunded
          /\ r.status = "COMPLETED"
      BY <1>2 DEF Row
    <2>3. CASE row[c].status = "COMPLETION_REQUESTED" /\ Save(c, r)
      <3> HIDE DEF r
      <3>1. (b = c => row[c].partner # NoPartner) /\ r.status \notin Before
        BY <2>2, <2>3 DEF Held, RowHeld, Untaken, Before
      <3> QED BY <1>6, <1>7, <2>1, <2>2, <2>3, <3>1
    <2> QED BY <1>9, <2>1, <2>3
  <1>16. CASE SaveSelection(s)
    <2> DEFINE r == [row[c] EXCEPT !.notes = call[s].seen.notes, !.pay = "PAID"]
    <2>1. Return(s) /\ ~AcceptClaim(s) /\ (UNCHANGED row \/ Save(c, r))
      BY <1>2, <1>16 DEF SaveSelection, AcceptClaim, At, CallTells
    <2>2. /\ r.pay = "PAID" /\ r.partner = row[c].partner /\ r.refunded = row[c].refunded
          /\ r.status = row[c].status
      BY <1>2 DEF Row
    <2> HIDE DEF r
    <2>3. CASE Save(c, r)
      BY <1>6, <1>7, <2>1, <2>2, <2>3
    <2> QED BY <1>9, <2>1, <2>3
  <1> QED BY <1>5, <1>8, <1>10, <1>11, <1>12, <1>13, <1>14, <1>15, <1>16 DEF JobStep

(* An admin's decision, a lapsed code, time.                               *)
LEMMA BackgroundHeld ==
  ASSUME TypeOK, Kept, NEW c \in Bookings, AdminUpi(c) \/ CodeLapses(c) \/ Tick(c),
         NEW b \in Bookings, Held(b), WalletHeld(b)
  PROVE  Held(b)'
  <1>1. row[c] \in Row
    BY DEF TypeOK
  <1>2. UNCHANGED call /\ Timely(b)
    BY DEF Timely, AdminUpi, RejectUpi, RequestUpiInfo, CodeLapses, Tick
  <1>3. CASE AdminUpi(c)
    <2>1. UNCHANGED row \/ (b # c /\ \E r : Save(c, r))
      BY <1>3 DEF AdminUpi, RejectUpi, RequestUpiInfo, WalletHeld
    <2>2. RowFine(b)
      BY <2>1, FineSave DEF RowFine
    <2> QED BY <1>2, <2>2, StillHeld
  <1>4. CASE CodeLapses(c)
    <2>1. PICK r : /\ Save(c, r) /\ r.status = row[c].status /\ r.pay = row[c].pay
                   /\ r.partner = row[c].partner /\ r.refunded = row[c].refunded
                   /\ r.refunded \in BOOLEAN
      BY <1>1, <1>4 DEF CodeLapses, Row, Notes
    <2>2. RowFine(b)
      BY <2>1, FineSave DEF Fine
    <2> QED BY <1>2, <2>2, StillHeld
  <1>5. CASE Tick(c)
    BY <1>2, <1>5, StillHeld DEF Tick, RowFine
  <1> QED BY <1>3, <1>4, <1>5

LEMMA SweepAndCrashHeld ==
  ASSUME TypeOK, Kept, LazySweep \/ Crash, NEW b \in Bookings, Held(b)
  PROVE  Held(b)'
  <1>1. CASE LazySweep
    <2>1. /\ UNCHANGED <<call, timers, crashes, money>> /\ row[b] \in Row
          /\ \/ row'[b] = row[b]
             \/ Unclaimed(row[b]) /\ row'[b] = [row[b] EXCEPT !.status = "EXPIRED"]
      BY <1>1 DEF LazySweep, TypeOK
    <2>2. RowFine(b)
      BY <2>1 DEF RowFine, Fine, Unclaimed, Row
    <2> QED BY <2>1, <2>2, StillHeld DEF Timely
  <1>2. CASE Crash
    <2>1. /\ UNCHANGED <<row, money>> /\ crashes' > 0 /\ \A t \in Slots : call'[t].at = "idle"
      BY <1>2 DEF Crash, Idle, TypeOK
    <2>2. \A t \in Slots : CallHeld(t, b)' /\ ~Expiring(t, b)' /\ ~Repaying(t, b)'
      BY <2>1 DEF CallHeld, Expiring, Repaying, About, At, Working
    <2>3. CountHeld(b)'
      <3>1. Coming(b) \in Nat /\ Coming(b)' = 0 /\ money[b].refunds \in Nat
        BY <2>2 DEF Coming, TypeOK, Ledger
      <3>2. Allowed(row[b].status)' = Allowed(row[b].status) /\ Allowed(row[b].status) \in Nat
        BY <2>1 DEF Allowed
      <3> QED BY <2>1, <2>2, <3>1, <3>2 DEF Held, CountHeld
    <2> QED BY <2>1, <2>2, <2>3 DEF Held, RowHeld, WatchHeld, RefundHeld
  <1> QED BY <1>1, <1>2

(* A booking becomes one at its creation only: any later hold is a claim's. *)
NoHold(b) ==
  \/ /\ money'[b].holds = money[b].holds
     /\ \A u \in Claims : upi[b][u] # "NONE" => upi'[b][u] # "NONE"
  \/ \E u \in Claims : upi'[b][u] # "NONE"

LEMMA OtherRows ==
  ASSUME TypeOK, NEW c \in Bookings, NEW kind \in {"cards", "refunds", "payouts"},
         Post(c, kind) \/ UNCHANGED money, UNCHANGED upi, NEW b \in Bookings
  PROVE  NoHold(b)
  <1>1. money[b] \in Ledger
    BY DEF TypeOK
  <1>2. money'[b].holds = money[b].holds
    BY <1>1 DEF Post, Ledger, TypeOK
  <1> QED BY <1>2 DEF NoHold

LEMMA ClaimRows ==
  ASSUME TypeOK, NEW c \in Bookings, NEW u \in Claims, NEW v, v # "NONE",
         upi' = [upi EXCEPT ![c][u] = v], UNCHANGED money \/ Post(c, "holds"), NEW b \in Bookings
  PROVE  NoHold(b)
  <1>1. upi[b] \in [Claims -> ClaimStatus] /\ upi[c] \in [Claims -> ClaimStatus]
    BY DEF TypeOK
  <1>2. CASE b = c
    <2>1. upi'[b][u] # "NONE"
      BY <1>1, <1>2 DEF TypeOK
    <2> QED BY <2>1 DEF NoHold
  <1>3. CASE b # c
    <2>1. upi'[b] = upi[b] /\ money'[b] = money[b]
      BY <1>3 DEF TypeOK, Post
    <2> QED BY <2>1 DEF NoHold
  <1> QED BY <1>2, <1>3

LEMMA StepRuns ==
  ASSUME TypeOK, NEW s \in Slots, Step(s)
  PROVE  call[s].b \in Bookings
  <1>1. call[s].at # "idle"
    BY DEF At, Step, PaymentStep, InitiatePaymentSave, SubmitUpiSave, SettleUpiClaim, SettleUpiAbort,
       AssignNobody, OpenSearchWindow, AssignBest,
       DispatchStep, Dispatch, ExpireCheck, ExpireRefund, SweepMark, CancelRead, CancelClaim, CancelRefund,
       JobStep, AcceptClaim, MintStartOtp, GenerateOtpClaim, SaveTrip, ArriveFresh, StartJob, WrongCode,
       SaveCompletionRequest, SaveCompletionOtp, SaveCompletionVerified, CompleteClaim, SaveSelection
  <1> QED BY <1>1, RunningCall DEF TypeOK

LEMMA HeldWhen ==
  ASSUME TypeOK, [Next]_vars, NEW b \in Bookings, \A s \in Slots : ~CreateOnline(s, b)
  PROVE  WalletHeld(b)' => WalletHeld(b)
  <1>1. SUFFICES NoHold(b)
    BY DEF NoHold, WalletHeld
  <1>2. ASSUME NEW s \in Slots, Step(s) PROVE NoHold(b)
    <2>1. PICK c \in Bookings : c = call[s].b
      BY <1>2, StepRuns
    <2>2. CASE SubmitUpiSave(s) \/ SettleUpiClaim(s)
      <3>1. call[s].who \in Claims
        BY <2>2, RunningCall DEF TypeOK, SubmitUpiSave, SettleUpiClaim, At
      <3> QED BY <2>1, <2>2, <3>1, ClaimRows DEF SubmitUpiSave, SettleUpiClaim
    <2>3. CASE ExpireRefund(s) \/ CancelRefund(s)
      BY <2>1, <2>3, OtherRows DEF ExpireRefund, CancelRefund, Refund
    <2>4. CASE CompleteClaim(s)
      BY <2>1, <2>4, OtherRows DEF CompleteClaim
    <2>5. CASE PaymentStep(s) /\ ~SubmitUpiSave(s) /\ ~SettleUpiClaim(s)
      BY <2>1, <2>5, OtherRows DEF PaymentStep, InitiatePaymentSave, SettleUpiAbort, AssignNobody,
         OpenSearchWindow, AssignBest
    <2>6. CASE DispatchStep(s) /\ ~ExpireRefund(s) /\ ~CancelRefund(s)
      BY <2>1, <2>6, OtherRows DEF DispatchStep, Dispatch, ExpireCheck, SweepMark, CancelRead, CancelClaim
    <2>7. CASE JobStep(s) /\ ~CompleteClaim(s)
      BY <2>1, <2>7, OtherRows DEF JobStep, AcceptClaim, MintStartOtp, GenerateOtpClaim, SaveTrip,
         ArriveFresh, StartJob, WrongCode, SaveCompletionRequest, SaveCompletionOtp,
         SaveCompletionVerified, SaveSelection
    <2> QED BY <1>2, <2>2, <2>3, <2>4, <2>5, <2>6, <2>7 DEF Step
  <1>3. ASSUME NEW s \in Slots, NEW c \in Bookings, PaymentRequest(s, c) PROVE NoHold(b)
    <2>1. CASE CreateOnline(s, c)
      <3>1. b # c
        BY <2>1
      <3>2. money'[b] = money[b] /\ UNCHANGED upi
        BY <2>1, <3>1 DEF CreateOnline, Post, TypeOK
      <3> QED BY <3>2 DEF NoHold
    <2>2. CASE VerifyPayment(s, c)
      BY <2>2, OtherRows DEF VerifyPayment
    <2>3. CASE ~CreateOnline(s, c) /\ ~VerifyPayment(s, c)
      BY <1>3, <2>3, OtherRows DEF PaymentRequest, CreateUnpaid, InitiatePayment, SubmitUpi, SettleUpi
    <2> QED BY <2>1, <2>2, <2>3
  <1>4. ASSUME NEW s \in Slots, NEW c \in Bookings, DispatchRequest(s, c) \/ JobRequest(s, c)
        PROVE  NoHold(b)
    <2>1. UNCHANGED <<money, upi>>
      BY <1>4 DEF DispatchRequest, TimerFires, Sweep, RequestCancel, RejectAccepted, JobRequest, Accept,
         IssueStartOtp, GenerateOtp, MarkTravelling, MarkArrived, VerifyStartOtp, RequestCompletion,
         IssueCompletionOtp, VerifyCompletionOtp, Complete, SelectPayment
    <2> QED BY <2>1, OtherRows
  <1>5. ASSUME NEW c \in Bookings, AdminUpi(c) \/ CodeLapses(c) \/ Tick(c) PROVE NoHold(b)
    BY <1>5, OtherRows, ClaimRows DEF AdminUpi, RejectUpi, RequestUpiInfo, CodeLapses, Tick
  <1>6. CASE LazySweep \/ Crash \/ UNCHANGED vars
    BY <1>6, OtherRows DEF LazySweep, Crash, vars
  <1> QED BY <1>2, <1>3, <1>4, <1>5, <1>6 DEF Next, Time

(* Only an existing booking is refunded.                                   *)
LEMMA RefundedWhen ==
  ASSUME TypeOK, [Next]_vars, NEW b \in Bookings,
         \A s \in Slots : ExpireRefund(s) \/ CancelRefund(s) => call[s].b # b
  PROVE  money'[b].refunds = money[b].refunds
  <1>1. ASSUME NEW s \in Slots, Step(s) PROVE money'[b].refunds = money[b].refunds
    <2>1. PICK c \in Bookings : c = call[s].b
      BY <1>1, StepRuns
    <2>2. CASE ExpireRefund(s) \/ CancelRefund(s)
      BY <2>1, <2>2 DEF ExpireRefund, CancelRefund, Refund, Post, TypeOK
    <2>3. CASE PaymentStep(s)
      BY <2>1, <2>3, Unrefunded DEF PaymentStep, InitiatePaymentSave, SubmitUpiSave, SettleUpiClaim,
         SettleUpiAbort, AssignNobody, OpenSearchWindow, AssignBest
    <2>4. CASE DispatchStep(s) /\ ~ExpireRefund(s) /\ ~CancelRefund(s)
      BY <2>4 DEF DispatchStep, Dispatch, ExpireCheck, SweepMark, CancelRead, CancelClaim
    <2>5. CASE JobStep(s)
      BY <2>1, <2>5, Unrefunded DEF JobStep, AcceptClaim, MintStartOtp, GenerateOtpClaim, SaveTrip,
         ArriveFresh, StartJob, WrongCode, SaveCompletionRequest, SaveCompletionOtp,
         SaveCompletionVerified, CompleteClaim, SaveSelection
    <2> QED BY <1>1, <2>2, <2>3, <2>4, <2>5 DEF Step
  <1>2. ASSUME NEW s \in Slots, NEW c \in Bookings,
               PaymentRequest(s, c) \/ DispatchRequest(s, c) \/ JobRequest(s, c)
        PROVE  money'[b].refunds = money[b].refunds
    <2>1. UNCHANGED money \/ Post(c, "holds") \/ Post(c, "cards")
      BY <1>2 DEF PaymentRequest, CreateOnline, CreateUnpaid, InitiatePayment, VerifyPayment, SubmitUpi,
         SettleUpi, DispatchRequest, TimerFires, Sweep, RequestCancel, RejectAccepted, JobRequest, Accept,
         IssueStartOtp, GenerateOtp, MarkTravelling, MarkArrived, VerifyStartOtp, RequestCompletion,
         IssueCompletionOtp, VerifyCompletionOtp, Complete, SelectPayment
    <2> QED BY <2>1, Unrefunded
  <1>3. ASSUME NEW c \in Bookings, AdminUpi(c) \/ CodeLapses(c) \/ Tick(c)
        PROVE  money'[b].refunds = money[b].refunds
    BY <1>3 DEF AdminUpi, RejectUpi, RequestUpiInfo, CodeLapses, Tick
  <1>4. CASE LazySweep \/ Crash \/ UNCHANGED vars
    BY <1>4 DEF LazySweep, Crash, vars
  <1> QED BY <1>1, <1>2, <1>3, <1>4 DEF Next, Time

LEMMA BlankStep ==
  ASSUME TypeOK, Stages, Kept, [Next]_vars, NEW b \in Bookings, Blank(b)
  PROVE  Blank(b)'
  <1> SUFFICES ASSUME ~Exists(b)'
               PROVE  money'[b].refunds = 0
    BY DEF Blank
  <1>1. ~Exists(b)
    BY DEF Kept
  <1>2. \A s \in Slots : ExpireRefund(s) \/ CancelRefund(s) => call[s].b # b
    BY <1>1 DEF Stages, CallTells, ExpireRefund, CancelRefund, At
  <1> QED BY <1>1, <1>2, RefundedWhen DEF Blank

(* A booking just created is so held.                                      *)
LEMMA CreatedHeld ==
  ASSUME TypeOK, Stages, NEW s \in Slots, NEW b \in Bookings, CreateOnline(s, b), Blank(b)
  PROVE  Held(b)'
  <1> DEFINE r == [NoRow EXCEPT !.status = "PARTNER_SEARCHING", !.pay = "PAID"]
  <1>1. ~Exists(b) /\ row'[b] = r
    BY DEF CreateOnline, Save, TypeOK
  <1>2. r.status = "PARTNER_SEARCHING" /\ r.pay = "PAID" /\ r.partner = NoPartner
    BY DEF NoRow
  <1> HIDE DEF r
  <1>3. At(s, "dispatch")' /\ call'[s].b = b /\ Others(s)
    BY Begun DEF CreateOnline, At, Others
  <1>4. \A t \in Slots \ {s} : At(t, "idle") \/ At(t, "sweep.mark") \/ call[t].b # b
    BY <1>1 DEF Stages, CallTells, At
  <1>5. \A t \in Slots : CallHeld(t, b)' /\ ~Expiring(t, b)' /\ ~Repaying(t, b)'
    BY <1>3, <1>4 DEF CallHeld, Expiring, Repaying, About, At, Others, Working
  <1>6. RowHeld(b)' /\ RefundHeld(b)'
    BY <1>1, <1>2 DEF RowHeld, RefundHeld, Untaken
  <1>7. WatchHeld(b)'
    BY <1>3 DEF WatchHeld, Dispatching, At
  <1>8. CountHeld(b)'
    <2>1. money'[b].refunds = 0
      BY <1>1, Unrefunded DEF Blank, CreateOnline
    <2>2. Coming(b)' = 0 /\ Allowed(row[b].status)' \in Nat
      BY <1>5 DEF Coming, Allowed
    <2> QED BY <1>5, <2>1, <2>2 DEF CountHeld
  <1> QED BY <1>5, <1>6, <1>7, <1>8 DEF Held

LEMMA HoldingStep ==
  ASSUME TypeOK, Custody, Stages, Holding, [Next]_vars
  PROVE  Holding'
  <1>1. Kept
    BY CustodyStep
  <1>2. SUFFICES ASSUME NEW b \in Bookings, WalletHeld(b)' PROVE Held(b)'
    BY <1>1, BlankStep DEF Holding
  <1>3. CASE \E s \in Slots : CreateOnline(s, b)
    BY <1>3, CreatedHeld DEF Holding
  <1>4. CASE \A s \in Slots : ~CreateOnline(s, b)
    <2>1. WalletHeld(b) /\ Held(b)
      BY <1>2, <1>4, HeldWhen DEF Holding
    <2>2. ASSUME NEW s \in Slots, Step(s) PROVE Held(b)'
      BY <1>1, <2>1, <2>2, PaymentStepHeld, DispatchHeld, JobStepHeld DEF Step
    <2>3. ASSUME NEW s \in Slots, NEW c \in Bookings,
                 PaymentRequest(s, c) \/ DispatchRequest(s, c) \/ JobRequest(s, c)
          PROVE  Held(b)'
      BY <1>1, <2>1, <2>3, PaymentRequestHeld, DispatchRequestHeld, JobRequestHeld
    <2>4. ASSUME NEW c \in Bookings, AdminUpi(c) \/ CodeLapses(c) \/ Tick(c) PROVE Held(b)'
      BY <1>1, <2>1, <2>4, BackgroundHeld
    <2>5. CASE LazySweep \/ Crash
      BY <1>1, <2>1, <2>5, SweepAndCrashHeld
    <2>6. CASE UNCHANGED vars
      BY <1>1, <2>1, <2>6, StillHeld DEF vars, RowFine, Timely
    <2> QED BY <2>2, <2>3, <2>4, <2>5, <2>6 DEF Next, Time
  <1> QED BY <1>3, <1>4

LEMMA HoldingInvariant == Spec => []Holding
  <1>1. Init => Custody
    BY DEF Init, Custody, FreshRowsFree, TripsExist, NoRow, Idle
  <1>2. TypeOK /\ Custody /\ [Next]_vars => Custody'
    BY CustodyStep
  <1>3. Init => Holding
    BY DEF Init, Holding, WalletHeld, Blank
  <1>4. TypeOK /\ Custody /\ Stages /\ Holding /\ [Next]_vars => Holding'
    BY HoldingStep
  <1> QED BY <1>1, <1>2, <1>3, <1>4, TypeCorrect, StagesInvariant, PTL DEF Spec

(* A booking paid from the wallet never searches without a timer, except   *)
(* after a restart: dispatchBooking arms one and only a claim disarms it.  *)
THEOREM SearchesAreTimed == Spec => []SearchIsTimed
  <1>1. Holding => SearchIsTimed
    BY DEF Holding, Held, WatchHeld, SearchIsTimed
  <1> QED BY <1>1, HoldingInvariant, PTL

(* Cancelling an untaken booking paid from the wallet gives its money back *)
(* or is about to, unless a restart lost the handler before its refund.    *)
THEOREM CancelledAreRefunded == Spec => []CancelledIsRefunded
  <1>1. Holding => CancelledIsRefunded
    BY DEF Holding, Held, RefundHeld, CancelledIsRefunded
  <1> QED BY <1>1, HoldingInvariant, PTL

(* An untaken booking paid from the wallet is refunded at most once before *)
(* it is cancelled, and at most twice ever: cancelBooking refunds what its *)
(* expiry had refunded already, but no interleaving of the timer, the      *)
(* sweeps and any number of cancellations posts a third refund.            *)
THEOREM UntakenRefundsAreBounded == Spec => []UntakenRefundsBounded
  <1>1. TypeOK /\ Holding => UntakenRefundsBounded
    <2> SUFFICES ASSUME TypeOK, Holding, NEW b \in Bookings, WalletHeld(b), row[b].partner = NoPartner
                 PROVE  money[b].refunds <= IF row[b].status = "CANCELLED" THEN 2 ELSE 1
      BY DEF UntakenRefundsBounded
    <2>1. money[b].refunds \in Nat /\ Coming(b) \in Nat
      BY DEF TypeOK, Ledger, Coming
    <2>2. money[b].refunds + Coming(b) <= Allowed(row[b].status)
      BY DEF Holding, Held, CountHeld
    <2> QED BY <2>1, <2>2 DEF Allowed
  <1> QED BY <1>1, HoldingInvariant, TypeCorrect, PTL
=============================================================================
