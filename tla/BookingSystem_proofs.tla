------------------------ MODULE BookingSystem_proofs ------------------------
(***************************************************************************)
(* Theorems about BookingSystem for every number of bookings, partners,    *)
(* claims and handlers in flight, any number of restarts.                  *)
(***************************************************************************)
EXTENDS BookingSystem, TLAPS

(***************************************************************************)
(* Type correctness.  First what the building blocks of the actions do to  *)
(* the typed variables, then one step per action.                          *)
(***************************************************************************)

(* A call that is not idle has a booking, a caller and a snapshot; the one *)
(* about to claim a booking for a partner has a partner, the one about to  *)
(* submit or settle a UPI reference has the reference.                     *)
LEMMA RunningCall ==
  ASSUME call \in [Slots -> Calls], NEW s \in Slots, call[s].at # "idle"
  PROVE  /\ call[s] \in Running(Steps \cup {"accept.claim", "upi.submit", "upi.settle"}, Who)
         /\ call[s].b \in Bookings /\ call[s].who \in Who /\ call[s].seen \in Seen
         /\ call[s].seen.status \in Status /\ call[s].seen.pay \in PaymentStatus
         /\ call[s].seen.notes \in Notes
         /\ call[s].at = "accept.claim" => call[s].who \in Partners
         /\ call[s].at \in {"upi.submit", "upi.settle"} => call[s].who \in Claims
  BY DEF Calls, Running, Idle, Seen, Who, Steps

LEMMA BeginTyped ==
  ASSUME call \in [Slots -> Calls], NEW s \in Slots, NEW at \in Steps, NEW b \in Bookings,
         NEW who \in Who, NEW seen \in Seen, Begin(s, at, b, who, seen)
  PROVE  call' \in [Slots -> Calls]
  BY DEF Calls, Running, Begin

LEMMA UpiBeginTyped ==
  ASSUME call \in [Slots -> Calls], NEW s \in Slots, NEW at \in {"upi.submit", "upi.settle"},
         NEW b \in Bookings, NEW u \in Claims, NEW seen \in Seen, Begin(s, at, b, u, seen)
  PROVE  call' \in [Slots -> Calls]
  BY DEF Calls, Running, Begin

LEMMA GotoTyped ==
  ASSUME call \in [Slots -> Calls], NEW s \in Slots, call[s].at # "idle",
         NEW at \in Steps, Goto(s, at)
  PROVE  call' \in [Slots -> Calls]
  BY RunningCall DEF Calls, Running, Goto

LEMMA GotoSeeingTyped ==
  ASSUME call \in [Slots -> Calls], NEW s \in Slots, call[s].at # "idle",
         NEW at \in Steps, NEW seen \in Seen, GotoSeeing(s, at, seen)
  PROVE  call' \in [Slots -> Calls]
  BY RunningCall DEF Calls, Running, GotoSeeing

LEMMA ReturnTyped ==
  ASSUME call \in [Slots -> Calls], NEW s \in Slots, Return(s)
  PROVE  call' \in [Slots -> Calls]
  BY DEF Calls, Return

LEMMA SaveTyped ==
  ASSUME row \in [Bookings -> Row], NEW b \in Bookings, NEW r \in Row, Save(b, r)
  PROVE  row' \in [Bookings -> Row]
  BY DEF Save

LEMMA PostTyped ==
  ASSUME money \in [Bookings -> Ledger], NEW b \in Bookings,
         NEW kind \in {"holds", "cards", "refunds", "payouts"}, Post(b, kind)
  PROVE  money' \in [Bookings -> Ledger]
  <1>1. money[b] \in Ledger /\ money[b][kind] + 1 \in Nat
    BY DEF Ledger
  <1>2. [money[b] EXCEPT ![kind] = @ + 1] \in Ledger
    BY <1>1 DEF Ledger
  <1> QED BY <1>2 DEF Post

LEMMA StatusTyped ==
  ASSUME NEW r \in Row, NEW status \in Status
  PROVE  [r EXCEPT !.status = status] \in Row
  BY DEF Row

LEMMA NotesTyped ==
  ASSUME NEW r \in Row, NEW notes \in Notes
  PROVE  /\ [r EXCEPT !.notes = notes] \in Row
         /\ \A code \in Code : /\ [notes EXCEPT !.start = code] \in Notes
                               /\ [notes EXCEPT !.done = code] \in Notes
         /\ r.notes \in Notes
  BY DEF Row, Notes

(* The snapshots are snapshots.                                            *)
LEMMA SeenTyped ==
  ASSUME NEW r \in Row
  PROVE  /\ SeenNothing \in Seen /\ SeenPay(r) \in Seen /\ SeenStage(r) \in Seen
         /\ SeenNotes(r) \in Seen /\ SeenJob(r) \in Seen
  BY DEF SeenNothing, SeenPay, SeenStage, SeenNotes, SeenJob, Seen, Row, Status,
         PaymentStatus, NoNotes, Notes, Code, Method

LEMMA PaymentRequestTyped ==
  ASSUME TypeOK, NEW s \in Slots, NEW b \in Bookings, PaymentRequest(s, b)
  PROVE  TypeOK'
  <1> USE DEF TypeOK, Steps, Who
  <1> row[b] \in Row OBVIOUS
  <1>1. CASE CreateOnline(s, b)
    <2>1. row' \in [Bookings -> Row]
      BY <1>1, SaveTyped
         DEF CreateOnline, NoRow, Row, Status, PaymentStatus, Notes, NoNotes, Code, Method
    <2> QED BY <1>1, <2>1, BeginTyped, PostTyped, SeenTyped DEF CreateOnline
  <1>2. ASSUME NEW m \in {"CASH", "UPI_MANUAL"}, CreateUnpaid(s, b, m)
        PROVE  TypeOK'
    <2>1. row' \in [Bookings -> Row]
      BY <1>2, SaveTyped
         DEF CreateUnpaid, NoRow, Row, Status, PaymentStatus, Notes, NoNotes, Code, Method
    <2> QED BY <1>2, <2>1, BeginTyped, SeenTyped DEF CreateUnpaid
  <1>3. CASE InitiatePayment(s, b)
    BY <1>3, BeginTyped, SeenTyped DEF InitiatePayment
  <1>4. CASE VerifyPayment(s, b)
    <2>1. row' \in [Bookings -> Row]
      BY <1>4, SaveTyped DEF VerifyPayment, Row, Status, PaymentStatus
    <2> QED BY <1>4, <2>1, BeginTyped, PostTyped, SeenTyped DEF VerifyPayment
  <1>5. ASSUME NEW u \in Claims, SubmitUpi(s, b, u)
        PROVE  TypeOK'
    BY <1>5, UpiBeginTyped, SeenTyped DEF SubmitUpi
  <1>6. ASSUME NEW u \in Claims, SettleUpi(s, b, u)
        PROVE  TypeOK'
    BY <1>6, UpiBeginTyped, SeenTyped DEF SettleUpi
  <1> QED BY <1>1, <1>2, <1>3, <1>4, <1>5, <1>6 DEF PaymentRequest

LEMMA PaymentStepTyped ==
  ASSUME TypeOK, NEW s \in Slots, PaymentStep(s)
  PROVE  TypeOK'
  <1> USE DEF TypeOK, Steps, Who
  <1> DEFINE b == call[s].b
  <1>0. call[s].at # "idle" /\ b \in Bookings /\ row[b] \in Row
    BY RunningCall DEF PaymentStep, At, InitiatePaymentSave, SubmitUpiSave, SettleUpiClaim,
       SettleUpiAbort, AssignNobody, OpenSearchWindow, AssignBest
  <1> HIDE DEF b
  <1>1. CASE InitiatePaymentSave(s)
    <2>1. row' \in [Bookings -> Row]
      BY <1>0, <1>1, SaveTyped DEF InitiatePaymentSave, Row, Status, b
    <2> QED BY <1>1, <2>1, ReturnTyped DEF InitiatePaymentSave
  <1>2. CASE SubmitUpiSave(s)
    <2>1. row' \in [Bookings -> Row]
      BY <1>0, <1>2, SaveTyped DEF SubmitUpiSave, Row, PaymentStatus, b
    <2> QED BY <1>2, <2>1, ReturnTyped DEF SubmitUpiSave, ClaimStatus
  <1>3. CASE SettleUpiClaim(s)
    <2>1. row' \in [Bookings -> Row]
      BY <1>0, <1>3, SaveTyped DEF SettleUpiClaim, Row, Status, PaymentStatus, b
    <2>2. money' \in [Bookings -> Ledger]
      BY <1>0, <1>3, PostTyped DEF SettleUpiClaim, b
    <2> QED BY <1>0, <1>3, <2>1, <2>2, GotoTyped DEF SettleUpiClaim, ClaimStatus
  <1>4. CASE SettleUpiAbort(s)
    BY <1>4, ReturnTyped DEF SettleUpiAbort
  <1>5. CASE AssignNobody(s)
    BY <1>5, ReturnTyped DEF AssignNobody
  <1>6. ASSUME NEW p \in Partners, AssignBest(s, p)
        PROVE  TypeOK'
    <2>1. row' \in [Bookings -> Row]
      BY <1>0, <1>6, SaveTyped DEF AssignBest, Row, Status, b
    <2> QED BY <1>6, <2>1, ReturnTyped DEF AssignBest
  <1>7. CASE OpenSearchWindow(s)
    BY <1>7, ReturnTyped DEF OpenSearchWindow
  <1> QED BY <1>1, <1>2, <1>3, <1>4, <1>5, <1>6, <1>7 DEF PaymentStep

LEMMA DispatchTyped ==
  ASSUME TypeOK, NEW s \in Slots, DispatchStep(s)
  PROVE  TypeOK'
  <1> USE DEF TypeOK, Steps, Who
  <1> DEFINE b == call[s].b
  <1>0. call[s].at # "idle" /\ b \in Bookings /\ row[b] \in Row
    BY RunningCall DEF DispatchStep, At, Dispatch, ExpireCheck, ExpireRefund, SweepMark,
       CancelRead, CancelClaim, CancelRefund
  <1> HIDE DEF b
  <1>1. ASSUME EndCancel(s) PROVE call' \in [Slots -> Calls]
    BY <1>0, <1>1, GotoTyped, ReturnTyped DEF EndCancel
  <1>2. ASSUME Refund(b)
        PROVE  row' \in [Bookings -> Row] /\ money' \in [Bookings -> Ledger]
    BY <1>0, <1>2, SaveTyped, PostTyped DEF Refund, Row
  <1>3. CASE Dispatch(s)
    BY <1>0, <1>3, ReturnTyped DEF Dispatch, b
  <1>4. CASE ExpireCheck(s)
    BY <1>0, <1>4, GotoTyped, ReturnTyped DEF ExpireCheck
  <1>5. CASE ExpireRefund(s)
    BY <1>2, <1>5, ReturnTyped DEF ExpireRefund, b
  <1>6. CASE SweepMark(s)
    BY <1>6, ReturnTyped DEF SweepMark
  <1>7. CASE CancelRead(s)
    <2>1. ASSUME GotoSeeing(s, "cancel.claim", SeenStage(row[b]))
          PROVE  call' \in [Slots -> Calls]
      BY <1>0, <2>1, GotoSeeingTyped, SeenTyped
    <2> QED BY <1>1, <1>7, <2>1 DEF CancelRead, b
  <1>8. CASE CancelClaim(s)
    <2>1. row' \in [Bookings -> Row]
      <3>1. [row[b] EXCEPT !.status = "CANCELLED"] \in Row
        BY <1>0, StatusTyped DEF Status
      <3> QED BY <1>0, <1>8, <3>1, SaveTyped DEF CancelClaim, b
    <2>2. call' \in [Slots -> Calls]
      BY <1>0, <1>1, <1>8, GotoTyped DEF CancelClaim
    <2> QED BY <1>8, <2>1, <2>2 DEF CancelClaim
  <1>9. CASE CancelRefund(s)
    BY <1>1, <1>2, <1>9 DEF CancelRefund, b
  <1> QED BY <1>3, <1>4, <1>5, <1>6, <1>7, <1>8, <1>9 DEF DispatchStep

LEMMA DispatchRequestTyped ==
  ASSUME TypeOK, NEW s \in Slots, NEW b \in Bookings, DispatchRequest(s, b)
  PROVE  TypeOK'
  <1> USE DEF TypeOK, Steps, Who
  <1>1. CASE TimerFires(s, b)
    <2>1. row' \in [Bookings -> Row]
      <3>1. [row[b] EXCEPT !.status = "EXPIRED"] \in Row
        BY StatusTyped DEF Status
      <3> QED BY <1>1, <3>1, SaveTyped DEF TimerFires
    <2>2. call' \in [Slots -> Calls]
      BY <1>1, BeginTyped, SeenTyped DEF TimerFires
    <2> QED BY <1>1, <2>1, <2>2 DEF TimerFires
  <1>2. CASE Sweep(s, b)
    BY <1>2, BeginTyped, SeenTyped DEF Sweep
  <1>3. CASE RequestCancel(s, b)
    BY <1>3, BeginTyped, SeenTyped DEF RequestCancel
  <1>4. CASE RejectAccepted(s, b)
    BY <1>4, BeginTyped, SeenTyped DEF RejectAccepted
  <1> QED BY <1>1, <1>2, <1>3, <1>4 DEF DispatchRequest

LEMMA JobRequestTyped ==
  ASSUME TypeOK, NEW s \in Slots, NEW b \in Bookings, JobRequest(s, b)
  PROVE  TypeOK'
  <1> USE DEF TypeOK, Steps, Who
  <1> row[b] \in Row OBVIOUS
  <1>1. ASSUME NEW p \in Partners, NEW route \in {"bookings", "partner"}, Accept(s, b, p, route)
        PROVE  TypeOK'
    BY <1>1, SeenTyped DEF Accept, Begin, Calls, Running
  <1>2. CASE IssueStartOtp(s, b)
    BY <1>2, BeginTyped, SeenTyped DEF IssueStartOtp
  <1>3. CASE GenerateOtp(s, b)
    BY <1>3, BeginTyped, SeenTyped DEF GenerateOtp
  <1>4. CASE MarkTravelling(s, b)
    BY <1>4, BeginTyped, SeenTyped DEF MarkTravelling
  <1>5. CASE MarkArrived(s, b)
    BY <1>5, BeginTyped, SeenTyped DEF MarkArrived
  <1>6. CASE VerifyStartOtp(s, b)
    <2>1. PICK at \in {"start.verify", "start.wrong"} : Begin(s, at, b, "PARTY", SeenNotes(row[b]))
      BY <1>6 DEF VerifyStartOtp
    <2>2. call' \in [Slots -> Calls]
      <3>1. at \in Steps /\ "PARTY" \in Who /\ SeenNotes(row[b]) \in Seen
        BY SeenTyped
      <3> HIDE DEF Steps, Who
      <3> QED BY <2>1, <3>1, BeginTyped
    <2> QED BY <1>6, <2>2 DEF VerifyStartOtp
  <1>7. CASE RequestCompletion(s, b)
    BY <1>7, BeginTyped, SeenTyped DEF RequestCompletion
  <1>8. CASE IssueCompletionOtp(s, b)
    BY <1>8, BeginTyped, SeenTyped DEF IssueCompletionOtp
  <1>9. CASE VerifyCompletionOtp(s, b)
    <2>1. PICK at \in {"done.verify", "done.wrong"} : Begin(s, at, b, "PARTY", SeenNotes(row[b]))
      BY <1>9 DEF VerifyCompletionOtp
    <2>2. call' \in [Slots -> Calls]
      <3>1. at \in Steps /\ "PARTY" \in Who /\ SeenNotes(row[b]) \in Seen
        BY SeenTyped
      <3> HIDE DEF Steps, Who
      <3> QED BY <2>1, <3>1, BeginTyped
    <2> QED BY <1>9, <2>2 DEF VerifyCompletionOtp
  <1>10. CASE Complete(s, b)
    BY <1>10, BeginTyped, SeenTyped DEF Complete
  <1>11. ASSUME NEW m \in {"CASH", "UPI_MANUAL"}, SelectPayment(s, b, m)
         PROVE  TypeOK'
    <2>1. [SeenPay(row[b]) EXCEPT !.notes = [row[b].notes EXCEPT !.method = m]] \in Seen
      BY SeenTyped DEF Seen, Row, Notes, Method
    <2> QED BY <1>11, <2>1, BeginTyped DEF SelectPayment
  <1> QED BY <1>1, <1>2, <1>3, <1>4, <1>5, <1>6, <1>7, <1>8, <1>9, <1>10, <1>11 DEF JobRequest

LEMMA JobStepTyped ==
  ASSUME TypeOK, NEW s \in Slots, JobStep(s)
  PROVE  TypeOK'
  <1> USE DEF TypeOK
  <1> DEFINE b == call[s].b  seen == call[s].seen
  <1>0. /\ call[s].at # "idle" /\ b \in Bookings /\ row[b] \in Row
        /\ seen.notes \in Notes /\ seen.status \in Status
    BY RunningCall DEF JobStep, At, AcceptClaim, MintStartOtp, GenerateOtpClaim, SaveTrip,
       ArriveFresh, StartJob, WrongCode, SaveCompletionRequest, SaveCompletionOtp,
       SaveCompletionVerified, CompleteClaim, SaveSelection
  <1> HIDE DEF b, seen
  <1>c. {"none", "live", "verified"} \subseteq Code BY DEF Code
  <1>1. CASE AcceptClaim(s)
    <2>1. row' \in [Bookings -> Row]
      <3>1. [row[b] EXCEPT !.partner = call[s].who, !.status = "PARTNER_ACCEPTED"] \in Row
        BY <1>0, <1>1, RunningCall DEF AcceptClaim, At, Row, Status
      <3> QED BY <1>0, <1>1, <3>1, SaveTyped DEF AcceptClaim, b
    <2> QED BY <1>1, <2>1, ReturnTyped DEF AcceptClaim
  <1>2. CASE MintStartOtp(s)
    <2>1. row' \in [Bookings -> Row]
      <3>1. [row[b] EXCEPT
               !.status = IF seen.status = "PARTNER_ACCEPTED" THEN "OTP_GENERATED" ELSE seen.status,
               !.otp = "sent",
               !.notes = [seen.notes EXCEPT !.start = "live"]] \in Row
        BY <1>0, <1>c, NotesTyped DEF Row, Status
      <3> QED BY <1>0, <1>2, <3>1, SaveTyped DEF MintStartOtp, b, seen
    <2> QED BY <1>2, <2>1, ReturnTyped DEF MintStartOtp
  <1>3. CASE GenerateOtpClaim(s)
    <2>1. row' \in [Bookings -> Row]
      <3>1. [row[b] EXCEPT !.status = "OTP_GENERATED", !.otp = "sent",
                           !.notes = [seen.notes EXCEPT !.start = "live"]] \in Row
        BY <1>0, <1>c, NotesTyped DEF Row, Status
      <3> QED BY <1>0, <1>3, <3>1, SaveTyped DEF GenerateOtpClaim, b, seen
    <2> QED BY <1>3, <2>1, ReturnTyped DEF GenerateOtpClaim
  <1>4. CASE SaveTrip(s)
    <2>1. row' \in [Bookings -> Row]
      BY <1>0, <1>4, NotesTyped, SaveTyped DEF SaveTrip, b, seen
    <2>2. call' \in [Slots -> Calls]
      BY <1>0, <1>4, GotoTyped, ReturnTyped DEF SaveTrip, Steps
    <2> QED BY <1>4, <2>1, <2>2 DEF SaveTrip
  <1>5. CASE ArriveFresh(s)
    BY <1>0, <1>5, GotoSeeingTyped, SeenTyped DEF ArriveFresh, Steps, b
  <1>6. CASE StartJob(s)
    <2>1. row' \in [Bookings -> Row]
      <3>1. [row[b] EXCEPT !.status = "IN_PROGRESS", !.otp = "checked",
                           !.notes = [seen.notes EXCEPT !.start = "verified"]] \in Row
        BY <1>0, <1>c, NotesTyped DEF Row, Status
      <3> QED BY <1>0, <1>6, <3>1, SaveTyped DEF StartJob, b, seen
    <2> QED BY <1>0, <1>6, <2>1, ReturnTyped DEF StartJob, b
  <1>7. CASE WrongCode(s)
    <2>1. row' \in [Bookings -> Row]
      <3>1. ASSUME NEW notes \in Notes, Save(b, [row[b] EXCEPT !.notes = notes])
            PROVE  row' \in [Bookings -> Row]
        BY <1>0, <3>1, NotesTyped, SaveTyped
      <3>2. PICK locked \in BOOLEAN :
               \/ Save(b, [row[b] EXCEPT !.notes =
                             IF locked THEN [seen.notes EXCEPT !.start = "none"] ELSE seen.notes])
               \/ Save(b, [row[b] EXCEPT !.notes =
                             IF locked THEN [seen.notes EXCEPT !.done = "none"] ELSE seen.notes])
        BY <1>7 DEF WrongCode, b, seen
      <3>3. /\ [seen.notes EXCEPT !.start = "none"] \in Notes
            /\ [seen.notes EXCEPT !.done = "none"] \in Notes
        BY <1>0, <1>c, NotesTyped
      <3> QED BY <1>0, <3>1, <3>2, <3>3
    <2> QED BY <1>7, <2>1, ReturnTyped DEF WrongCode
  <1>8. CASE SaveCompletionRequest(s)
    <2>1. row' \in [Bookings -> Row]
      <3>1. [row[b] EXCEPT !.status = "COMPLETION_REQUESTED", !.notes = seen.notes] \in Row
        BY <1>0 DEF Row, Status
      <3> QED BY <1>0, <1>8, <3>1, SaveTyped DEF SaveCompletionRequest, b, seen
    <2>2. call' \in [Slots -> Calls]
      BY <1>0, <1>8, GotoTyped, ReturnTyped DEF SaveCompletionRequest, Steps
    <2> QED BY <1>8, <2>1, <2>2 DEF SaveCompletionRequest
  <1>9. CASE SaveCompletionOtp(s)
    <2>1. row' \in [Bookings -> Row]
      <3>1. [seen.notes EXCEPT !.done = "live"] \in Notes
        BY <1>0, <1>c, NotesTyped
      <3> QED BY <1>0, <1>9, <3>1, NotesTyped, SaveTyped DEF SaveCompletionOtp, b, seen
    <2> QED BY <1>9, <2>1, ReturnTyped DEF SaveCompletionOtp
  <1>10. CASE SaveCompletionVerified(s)
    <2>1. row' \in [Bookings -> Row]
      <3>1. [seen.notes EXCEPT !.done = "verified"] \in Notes
        BY <1>0, <1>c, NotesTyped
      <3> QED BY <1>0, <1>10, <3>1, NotesTyped, SaveTyped DEF SaveCompletionVerified, b, seen
    <2> QED BY <1>0, <1>10, <2>1, ReturnTyped DEF SaveCompletionVerified, b
  <1>11. CASE CompleteClaim(s)
    <2>1. row' \in [Bookings -> Row]
      <3>1. [row[b] EXCEPT !.status = "COMPLETED",
                           !.notes = [seen.notes EXCEPT !.done = "verified"]] \in Row
        BY <1>0, <1>c, NotesTyped DEF Row, Status
      <3> QED BY <1>0, <1>11, <3>1, SaveTyped DEF CompleteClaim, b, seen
    <2>2. money' \in [Bookings -> Ledger]
      BY <1>0, <1>11, PostTyped DEF CompleteClaim, b
    <2> QED BY <1>11, <2>1, <2>2, ReturnTyped DEF CompleteClaim
  <1>12. CASE SaveSelection(s)
    <2>1. row' \in [Bookings -> Row]
      <3> DEFINE cash == seen.notes.method = "CASH"
      <3>1. [row[b] EXCEPT !.notes = seen.notes, !.pay = "PAID"] \in Row
        BY <1>0 DEF Row, PaymentStatus
      <3>2. [row[b] EXCEPT !.notes = seen.notes,
               !.pay = IF cash THEN "PENDING_CASH" ELSE "VERIFICATION_PENDING",
               !.status = IF cash THEN "OTP_GENERATED" ELSE @] \in Row
        BY <1>0 DEF Row, PaymentStatus, Status
      <3> HIDE DEF cash
      <3>3. \/ Save(b, [row[b] EXCEPT !.notes = seen.notes, !.pay = "PAID"])
            \/ Save(b, [row[b] EXCEPT !.notes = seen.notes,
                        !.pay = IF cash THEN "PENDING_CASH" ELSE "VERIFICATION_PENDING",
                        !.status = IF cash THEN "OTP_GENERATED" ELSE @])
            \/ UNCHANGED row
        BY <1>12 DEF SaveSelection, b, seen, cash
      <3> QED BY <1>0, <3>1, <3>2, <3>3, SaveTyped
    <2> QED BY <1>12, <2>1, ReturnTyped DEF SaveSelection
  <1> QED BY <1>1, <1>2, <1>3, <1>4, <1>5, <1>6, <1>7, <1>8, <1>9, <1>10, <1>11, <1>12
     DEF JobStep

LEMMA BackgroundTyped ==
  ASSUME TypeOK, NEW b \in Bookings, AdminUpi(b) \/ CodeLapses(b) \/ Tick(b)
  PROVE  TypeOK'
  <1> USE DEF TypeOK
  <1> row[b] \in Row OBVIOUS
  <1>1. ASSUME NEW u \in Claims, RejectUpi(b, u)
        PROVE  TypeOK'
    <2>1. row' \in [Bookings -> Row]
      BY <1>1, SaveTyped DEF RejectUpi, Row, PaymentStatus
    <2> QED BY <1>1, <2>1 DEF RejectUpi, ClaimStatus
  <1>2. ASSUME NEW u \in Claims, RequestUpiInfo(b, u)
        PROVE  TypeOK'
    BY <1>2 DEF RequestUpiInfo, ClaimStatus
  <1>3. CASE CodeLapses(b)
    <2>1. /\ [row[b] EXCEPT !.notes.start = "none"] \in Row
          /\ [row[b] EXCEPT !.notes.done = "none"] \in Row
      BY DEF Row, Notes, Code
    <2>2. row' \in [Bookings -> Row]
      BY <1>3, <2>1, SaveTyped DEF CodeLapses
    <2> QED BY <1>3, <2>2 DEF CodeLapses
  <1>4. CASE Tick(b)
    BY <1>4, BookingsAssumption DEF Tick, BookingsAssumption
  <1> QED BY <1>1, <1>2, <1>3, <1>4 DEF AdminUpi

LEMMA SweepAndCrashTyped ==
  ASSUME TypeOK, LazySweep \/ Crash
  PROVE  TypeOK'
  <1> USE DEF TypeOK
  <1>1. CASE LazySweep
    <2>1. \A b \in Bookings : row[b] \in Row /\ [row[b] EXCEPT !.status = "EXPIRED"] \in Row
      BY StatusTyped DEF Status
    <2> QED BY <1>1, <2>1 DEF LazySweep
  <1>2. CASE Crash
    BY <1>2, BookingsAssumption DEF Crash, Calls, BookingsAssumption
  <1> QED BY <1>1, <1>2

LEMMA NextTyped == TypeOK /\ [Next]_vars => TypeOK'
  <1> SUFFICES ASSUME TypeOK, [Next]_vars PROVE TypeOK'
    OBVIOUS
  <1>1. ASSUME NEW s \in Slots, Step(s) PROVE TypeOK'
    BY <1>1, PaymentStepTyped, DispatchTyped, JobStepTyped DEF Step
  <1>2. ASSUME NEW s \in Slots, NEW b \in Bookings,
               PaymentRequest(s, b) \/ DispatchRequest(s, b) \/ JobRequest(s, b)
        PROVE  TypeOK'
    BY <1>2, PaymentRequestTyped, DispatchRequestTyped, JobRequestTyped
  <1>3. ASSUME NEW b \in Bookings, AdminUpi(b) \/ CodeLapses(b) \/ Tick(b)
        PROVE  TypeOK'
    BY <1>3, BackgroundTyped
  <1>4. CASE LazySweep \/ Crash
    BY <1>4, SweepAndCrashTyped
  <1>5. CASE UNCHANGED vars
    BY <1>5 DEF vars, TypeOK
  <1> QED BY <1>1, <1>2, <1>3, <1>4, <1>5 DEF Next, Time

(* Every variable keeps its type: in particular no handler writes a status *)
(* outside the enum, and the id a claim writes is a partner's.             *)
THEOREM TypeCorrect == Spec => []TypeOK
  <1>1. Init => TypeOK
    BY BookingsAssumption DEF Init, TypeOK, BookingsAssumption, NoRow, NoNotes, Row, Status,
       PaymentStatus, Notes, Code, Method, ClaimStatus, Ledger, Calls
  <1> QED BY <1>1, NextTyped, PTL DEF Spec

(***************************************************************************)
(* The first partner to claim a booking keeps it.                          *)
(*                                                                         *)
(* Creation writes a whole row, so the argument needs that a row that was  *)
(* never created has no partner and that no stale write turns a row back   *)
(* into one that does not exist: the status mintStartOtp writes is one it  *)
(* read, and what markArrived works on exists.                             *)
(***************************************************************************)

FreshRowsFree == \A b \in Bookings : ~Exists(b) => row[b].partner = NoPartner
TripsExist ==
  \A s \in Slots :
    /\ call[s].at \in {"arrive.save", "arrive.fresh"} => Exists(call[s].b)
    /\ call[s].at = "otp.mint" => call[s].seen.status # "NONE"

Custody == FreshRowsFree /\ TripsExist

(* What a step does to the partners and to the existence of rows.          *)
Kept ==
  \A b \in Bookings : /\ row[b].partner # NoPartner => row'[b].partner = row[b].partner
                      /\ Exists(b) => Exists(b)'

(* A write that keeps the partner the row has and leaves the row existing. *)
HarmlessWrite(b, r) ==
  /\ row[b].status # "NONE" => r.status # "NONE"
  /\ r.partner = row[b].partner \/ (row[b].partner = NoPartner /\ r.status # "NONE")

LEMMA RowsKept ==
  ASSUME TypeOK, FreshRowsFree, NEW b \in Bookings,
         UNCHANGED row \/ \E r : Save(b, r) /\ HarmlessWrite(b, r)
  PROVE  FreshRowsFree' /\ Kept
  <1>1. CASE UNCHANGED row
    BY <1>1 DEF FreshRowsFree, Kept, Exists
  <1>2. ASSUME NEW r, Save(b, r), HarmlessWrite(b, r)
        PROVE  FreshRowsFree' /\ Kept
    BY <1>2 DEF TypeOK, FreshRowsFree, Kept, Exists, Save, HarmlessWrite
  <1> QED BY <1>1, <1>2

Trip == {"arrive.save", "arrive.fresh", "otp.mint"}

LEMMA TripsKept ==
  ASSUME TypeOK, TripsExist, Kept, NEW s \in Slots,
         \A t \in Slots \ {s} : call'[t] = call[t], call'[s].at \notin Trip
  PROVE  TripsExist'
  BY RunningCall DEF TypeOK, TripsExist, Kept, Trip

LEMMA CallsOn ==
  ASSUME TypeOK, TripsExist, Kept, NEW s \in Slots,
         \/ UNCHANGED call
         \/ Return(s)
         \/ call[s].at # "idle" /\ EndCancel(s)
         \/ call[s].at # "idle" /\ \E at \in Steps \ Trip : Goto(s, at)
         \/ \E at \in Steps \ Trip, b \in Bookings, who \in Who, seen \in Seen :
              Begin(s, at, b, who, seen)
  PROVE  TripsExist'
  <1>1. CASE UNCHANGED call
    BY <1>1, RunningCall DEF TypeOK, TripsExist, Kept
  <1>2. CASE Return(s)
    <2>1. call'[s].at \notin Trip
      BY <1>2 DEF TypeOK, Return, Idle, Trip
    <2>2. \A t \in Slots \ {s} : call'[t] = call[t]
      BY <1>2 DEF TypeOK, Return
    <2> QED BY <2>1, <2>2, TripsKept
  <1>3. ASSUME NEW at \in Steps \ Trip, call[s].at # "idle", Goto(s, at)
        PROVE  TripsExist'
    <2>1. call'[s].at \notin Trip
      BY <1>3, RunningCall DEF TypeOK, Goto, Running
    <2>2. \A t \in Slots \ {s} : call'[t] = call[t]
      BY <1>3 DEF TypeOK, Goto
    <2> QED BY <2>1, <2>2, TripsKept
  <1>4. CASE call[s].at # "idle" /\ EndCancel(s)
    <2>1. "sweep.mark" \in Steps \ Trip
      BY DEF Steps, Trip
    <2> QED BY <1>2, <1>3, <1>4, <2>1 DEF EndCancel
  <1>5. ASSUME NEW at \in Steps \ Trip, NEW b \in Bookings, NEW who \in Who, NEW seen \in Seen,
               Begin(s, at, b, who, seen)
        PROVE  TripsExist'
    <2>1. call'[s].at \notin Trip
      BY <1>5 DEF TypeOK, Begin
    <2>2. \A t \in Slots \ {s} : call'[t] = call[t]
      BY <1>5 DEF TypeOK, Begin
    <2> QED BY <2>1, <2>2, TripsKept
  <1> QED BY <1>1, <1>2, <1>3, <1>4, <1>5

(* Every step of a handler that is neither a trip nor a mint comes down to *)
(* these two effects.                                                      *)
LEMMA StepKeeps ==
  ASSUME TypeOK, Custody, NEW s \in Slots, NEW b \in Bookings,
         UNCHANGED row \/ \E r : Save(b, r) /\ HarmlessWrite(b, r),
         \/ UNCHANGED call
         \/ Return(s)
         \/ call[s].at # "idle" /\ EndCancel(s)
         \/ call[s].at # "idle" /\ \E at \in Steps \ Trip : Goto(s, at)
         \/ \E at \in Steps \ Trip, who \in Who, seen \in Seen : Begin(s, at, b, who, seen)
  PROVE  Custody' /\ Kept
  <1>1. FreshRowsFree /\ TripsExist
    BY DEF Custody
  <1>2. FreshRowsFree' /\ Kept
    BY <1>1, RowsKept
  <1>3. TripsExist'
    BY <1>1, <1>2, CallsOn
  <1> QED BY <1>2, <1>3 DEF Custody

LEMMA PaymentRequestCustody ==
  ASSUME TypeOK, Custody, NEW s \in Slots, NEW b \in Bookings, PaymentRequest(s, b)
  PROVE  Custody' /\ Kept
  <1> USE DEF TypeOK, Custody, FreshRowsFree, TripsExist, Kept, Exists, Save, Row, Idle
  <1>1. CASE CreateOnline(s, b)
    BY <1>1 DEF CreateOnline, Begin, NoRow
  <1>2. ASSUME NEW m \in {"CASH", "UPI_MANUAL"}, CreateUnpaid(s, b, m)
        PROVE  Custody' /\ Kept
    BY <1>2 DEF CreateUnpaid, Begin, NoRow
  <1>3. CASE InitiatePayment(s, b)
    BY <1>3 DEF InitiatePayment, Begin
  <1>4. CASE VerifyPayment(s, b)
    BY <1>4 DEF VerifyPayment, Begin
  <1>5. ASSUME NEW u \in Claims, SubmitUpi(s, b, u)
        PROVE  Custody' /\ Kept
    BY <1>5 DEF SubmitUpi, Begin
  <1>6. ASSUME NEW u \in Claims, SettleUpi(s, b, u)
        PROVE  Custody' /\ Kept
    BY <1>6 DEF SettleUpi, Begin
  <1> QED BY <1>1, <1>2, <1>3, <1>4, <1>5, <1>6 DEF PaymentRequest

LEMMA PaymentStepCustody ==
  ASSUME TypeOK, Custody, NEW s \in Slots, PaymentStep(s)
  PROVE  Custody' /\ Kept
  <1> USE DEF TypeOK, Custody, FreshRowsFree, TripsExist, Kept, Exists, Save, Row, Idle
  <1>a. call[s].at # "idle"
    BY DEF At, PaymentStep, InitiatePaymentSave, SubmitUpiSave, SettleUpiClaim, SettleUpiAbort,
       AssignNobody, OpenSearchWindow, AssignBest
  <1>b. call[s].b \in Bookings /\ row[call[s].b] \in Row /\ call[s].seen \in Seen
    BY <1>a, RunningCall
  <1>1. CASE InitiatePaymentSave(s)
    BY <1>1, <1>a, <1>b DEF InitiatePaymentSave, At, Return, Goto
  <1>2. CASE SubmitUpiSave(s)
    BY <1>2, <1>a, <1>b DEF SubmitUpiSave, At, Return, Goto
  <1>3. CASE SettleUpiClaim(s)
    <2>0. PICK b \in Bookings : b = call[s].b
      BY <1>b
    <2> DEFINE r == [row[b] EXCEPT !.status = "PARTNER_SEARCHING", !.pay = "PAID"]
    <2>1. HarmlessWrite(b, r)
      BY <1>b, <2>0 DEF HarmlessWrite
    <2>2. UNCHANGED row \/ Save(b, r)
      BY <1>3, <2>0 DEF SettleUpiClaim
    <2> HIDE DEF r, TypeOK, Custody, FreshRowsFree, TripsExist, Kept, Save, Exists, Row, Idle
    <2> QED BY <1>3, <1>a, <2>0, <2>1, <2>2, StepKeeps DEF SettleUpiClaim, Steps, Trip
  <1>4. CASE SettleUpiAbort(s)
    BY <1>4, <1>a, <1>b DEF SettleUpiAbort, At, Return, Goto
  <1>5. CASE AssignNobody(s)
    BY <1>5, <1>a, <1>b DEF AssignNobody, At, Return, Goto
  <1>6. CASE OpenSearchWindow(s)
    BY <1>6, <1>a, <1>b DEF OpenSearchWindow, At, Return, Goto
  <1>7. ASSUME NEW p \in Partners, AssignBest(s, p)
        PROVE  Custody' /\ Kept
    BY <1>7, <1>a, <1>b DEF AssignBest, Unclaimed, At, Return
  <1> QED BY <1>1, <1>2, <1>3, <1>4, <1>5, <1>6, <1>7 DEF PaymentStep

LEMMA DispatchCustody ==
  ASSUME TypeOK, Custody, NEW s \in Slots, DispatchStep(s)
  PROVE  Custody' /\ Kept
  <1> USE DEF TypeOK, Custody, FreshRowsFree, TripsExist, Kept, Exists, Save, Row, Idle
  <1>a. call[s].at # "idle"
    BY DEF At, DispatchStep, Dispatch, ExpireCheck, ExpireRefund, SweepMark, CancelRead,
       CancelClaim, CancelRefund
  <1>b. call[s].b \in Bookings /\ row[call[s].b] \in Row /\ call[s].seen \in Seen
    BY <1>a, RunningCall
  <1>1. CASE Dispatch(s)
    BY <1>1, <1>a, <1>b DEF Dispatch, At, Return, Goto
  <1>2. CASE ExpireCheck(s)
    <2>1. FreshRowsFree' /\ Kept
      BY <1>2 DEF ExpireCheck
    <2>2. TripsExist'
      <3>1. TripsExist
        BY DEF Custody
      <3> HIDE DEF TypeOK, Custody, FreshRowsFree, TripsExist, Kept, Save
      <3> QED BY <1>2, <1>a, <2>1, <3>1, CallsOn DEF ExpireCheck, Steps, Trip
    <2> QED BY <2>1, <2>2
  <1>3. CASE ExpireRefund(s)
    BY <1>3, <1>a, <1>b DEF ExpireRefund, At, Return, Goto, Refund
  <1>4. CASE SweepMark(s)
    BY <1>4, <1>a, <1>b DEF SweepMark, At, Return, Goto
  <1>5. CASE CancelRead(s)
    <2>0. PICK b \in Bookings : b = call[s].b
      BY <1>b
    <2>1. UNCHANGED row
      BY <1>5 DEF CancelRead
    <2>2. CASE EndCancel(s)
      <3> HIDE DEF TypeOK, Custody, FreshRowsFree, TripsExist, Kept, Save, Exists, Row, Idle
      <3> QED BY <1>a, <2>0, <2>1, <2>2, StepKeeps
    <2>3. CASE GotoSeeing(s, "cancel.claim", SeenStage(row[call[s].b]))
      <3>1. call'[s].at = "cancel.claim" /\ \A t \in Slots \ {s} : call'[t] = call[t]
        BY <2>3 DEF GotoSeeing
      <3>2. FreshRowsFree' /\ Kept /\ TripsExist
        BY <2>1
      <3> HIDE DEF TypeOK, FreshRowsFree, TripsExist, Kept
      <3>3. TripsExist'
        BY <3>1, <3>2, TripsKept DEF Trip
      <3> QED BY <3>2, <3>3
    <2> QED BY <1>5, <2>2, <2>3 DEF CancelRead
  <1>6. CASE CancelClaim(s)
    <2>0. PICK b \in Bookings : b = call[s].b
      BY <1>b
    <2> DEFINE r == [row[b] EXCEPT !.status = "CANCELLED"]
    <2>1. HarmlessWrite(b, r)
      BY <1>b, <2>0 DEF HarmlessWrite
    <2>2. UNCHANGED row \/ Save(b, r)
      BY <1>6, <2>0 DEF CancelClaim
    <2> HIDE DEF r, TypeOK, Custody, FreshRowsFree, TripsExist, Kept, Save, Exists, Row, Idle
    <2> QED BY <1>6, <1>a, <2>0, <2>1, <2>2, StepKeeps DEF CancelClaim, Steps, Trip
  <1>7. CASE CancelRefund(s)
    <2>0. PICK b \in Bookings : b = call[s].b
      BY <1>b
    <2> DEFINE r == [row[b] EXCEPT !.refunded = TRUE]
    <2>1. HarmlessWrite(b, r)
      BY <1>b, <2>0 DEF HarmlessWrite
    <2>2. UNCHANGED row \/ Save(b, r)
      BY <1>7, <2>0 DEF CancelRefund, Refund
    <2> HIDE DEF r, TypeOK, Custody, FreshRowsFree, TripsExist, Kept, Save, Exists, Row, Idle
    <2> QED BY <1>7, <1>a, <2>0, <2>1, <2>2, StepKeeps DEF CancelRefund, Steps, Trip
  <1> QED BY <1>1, <1>2, <1>3, <1>4, <1>5, <1>6, <1>7 DEF DispatchStep

LEMMA DispatchRequestCustody ==
  ASSUME TypeOK, Custody, NEW s \in Slots, NEW b \in Bookings, DispatchRequest(s, b)
  PROVE  Custody' /\ Kept
  <1> USE DEF TypeOK, Custody, FreshRowsFree, TripsExist, Kept, Exists, Save, Row, Idle
  <1>1. CASE TimerFires(s, b)
    <2> DEFINE r == [row[b] EXCEPT !.status = "EXPIRED"]
    <2>1. HarmlessWrite(b, r)
      BY DEF HarmlessWrite
    <2>2. UNCHANGED row \/ Save(b, r)
      BY <1>1 DEF TimerFires
    <2>3. UNCHANGED call \/ Begin(s, "expire.check", b, "SYSTEM", SeenNothing)
      BY <1>1 DEF TimerFires
    <2>4. "expire.check" \in Steps \ Trip /\ "SYSTEM" \in Who
      BY DEF Steps, Trip, Who
    <2>5. SeenNothing \in Seen
      BY SeenTyped
    <2> HIDE DEF r, TypeOK, Custody, FreshRowsFree, TripsExist, Kept, Save, Exists, Row, Idle
    <2> QED BY <2>1, <2>2, <2>3, <2>4, <2>5, StepKeeps
  <1>2. CASE Sweep(s, b)
    <2>1. UNCHANGED row
      BY <1>2 DEF Sweep
    <2>2. \/ Begin(s, "cancel.read", b, "SYSTEM", SeenNothing)
          \/ Begin(s, "sweep.mark", b, "SYSTEM", SeenNothing)
      BY <1>2 DEF Sweep
    <2>3. {"cancel.read", "sweep.mark"} \subseteq Steps \ Trip /\ "SYSTEM" \in Who
      BY DEF Steps, Trip, Who
    <2>4. SeenNothing \in Seen
      BY SeenTyped
    <2> HIDE DEF TypeOK, Custody, FreshRowsFree, TripsExist, Kept, Save, Exists, Row, Idle
    <2> QED BY <2>1, <2>2, <2>3, <2>4, StepKeeps
  <1>3. CASE RequestCancel(s, b)
    BY <1>3 DEF RequestCancel, Begin
  <1>4. CASE RejectAccepted(s, b)
    BY <1>4 DEF RejectAccepted, Begin
  <1> QED BY <1>1, <1>2, <1>3, <1>4 DEF DispatchRequest

LEMMA JobRequestCustody ==
  ASSUME TypeOK, Custody, NEW s \in Slots, NEW b \in Bookings, JobRequest(s, b)
  PROVE  Custody' /\ Kept
  <1> USE DEF TypeOK, Custody, FreshRowsFree, TripsExist, Kept, Exists, Save, Row, Idle
  <1>1. ASSUME NEW p \in Partners, NEW route \in {"bookings", "partner"}, Accept(s, b, p, route)
        PROVE  Custody' /\ Kept
    BY <1>1 DEF Accept, Begin
  <1>2. CASE IssueStartOtp(s, b)
    BY <1>2 DEF IssueStartOtp, Begin, SeenJob, SeenNothing, Pending
  <1>3. CASE GenerateOtp(s, b)
    BY <1>3 DEF GenerateOtp, Begin
  <1>4. CASE MarkTravelling(s, b)
    BY <1>4 DEF MarkTravelling, Begin
  <1>5. CASE MarkArrived(s, b)
    BY <1>5 DEF MarkArrived, Begin, Pending
  <1>6. CASE VerifyStartOtp(s, b)
    BY <1>6 DEF VerifyStartOtp, Begin
  <1>7. CASE RequestCompletion(s, b)
    BY <1>7 DEF RequestCompletion, Begin
  <1>8. CASE IssueCompletionOtp(s, b)
    BY <1>8 DEF IssueCompletionOtp, Begin
  <1>9. CASE VerifyCompletionOtp(s, b)
    BY <1>9 DEF VerifyCompletionOtp, Begin
  <1>10. CASE Complete(s, b)
    BY <1>10 DEF Complete, Begin
  <1>11. ASSUME NEW m \in {"CASH", "UPI_MANUAL"}, SelectPayment(s, b, m)
        PROVE  Custody' /\ Kept
    BY <1>11 DEF SelectPayment, Begin
  <1> QED BY <1>1, <1>2, <1>3, <1>4, <1>5, <1>6, <1>7, <1>8, <1>9, <1>10, <1>11 DEF JobRequest

LEMMA JobStepCustody ==
  ASSUME TypeOK, Custody, NEW s \in Slots, JobStep(s)
  PROVE  Custody' /\ Kept
  <1> USE DEF TypeOK, Custody, FreshRowsFree, TripsExist, Kept, Exists, Save, Row, Idle
  <1>a. call[s].at # "idle"
    BY DEF At, JobStep, AcceptClaim, MintStartOtp, GenerateOtpClaim, SaveTrip, ArriveFresh,
       StartJob, WrongCode, SaveCompletionRequest, SaveCompletionOtp, SaveCompletionVerified,
       CompleteClaim, SaveSelection
  <1>b. call[s].b \in Bookings /\ row[call[s].b] \in Row /\ call[s].seen \in Seen
    BY <1>a, RunningCall
  <1>1. CASE AcceptClaim(s)
    <2>0. PICK b \in Bookings : b = call[s].b
      BY <1>b
    <2> DEFINE r == [row[b] EXCEPT !.partner = call[s].who, !.status = "PARTNER_ACCEPTED"]
    <2>1. row[b].partner = NoPartner => HarmlessWrite(b, r)
      BY <1>b, <2>0 DEF HarmlessWrite
    <2>2. UNCHANGED row \/ (row[b].partner = NoPartner /\ Save(b, r))
      BY <1>1, <2>0 DEF AcceptClaim
    <2> HIDE DEF r, TypeOK, Custody, FreshRowsFree, TripsExist, Kept, Save, Exists, Row, Idle
    <2> QED BY <1>1, <1>a, <2>0, <2>1, <2>2, StepKeeps DEF AcceptClaim, Steps, Trip
  <1>2. CASE MintStartOtp(s)
    BY <1>2, <1>a, <1>b DEF MintStartOtp, At, Return, Goto
  <1>3. CASE GenerateOtpClaim(s)
    <2>0. PICK b \in Bookings : b = call[s].b
      BY <1>b
    <2> DEFINE r == [row[b] EXCEPT !.status = "OTP_GENERATED", !.otp = "sent",
                   !.notes = [call[s].seen.notes EXCEPT !.start = "live"]]
    <2>1. r.status = "OTP_GENERATED" /\ r.partner = row[b].partner
      BY <1>b, <2>0
    <2>2. HarmlessWrite(b, r)
      <3> HIDE DEF r
      <3> QED BY <2>1 DEF HarmlessWrite
    <2>3. UNCHANGED row \/ Save(b, r)
      BY <1>3, <2>0 DEF GenerateOtpClaim
    <2> HIDE DEF r, TypeOK, Custody, FreshRowsFree, TripsExist, Kept, Save, Exists, Row, Idle
    <2> QED BY <1>3, <1>a, <2>0, <2>2, <2>3, StepKeeps DEF GenerateOtpClaim, Steps, Trip
  <1>4. CASE SaveTrip(s)
    <2>0. PICK b \in Bookings : b = call[s].b
      BY <1>b
    <2> DEFINE r == [row[b] EXCEPT !.notes = call[s].seen.notes]
    <2>1. HarmlessWrite(b, r)
      <3>1. r.status = row[b].status /\ r.partner = row[b].partner
        BY <1>b, <2>0
      <3> HIDE DEF r
      <3> QED BY <3>1 DEF HarmlessWrite
    <2>2. Save(b, r)
      BY <1>4, <2>0 DEF SaveTrip
    <2>3. CASE Return(s)
      <3> HIDE DEF r, TypeOK, Custody, FreshRowsFree, TripsExist, Kept, Save, Exists, Row, Idle
      <3> QED BY <2>1, <2>2, <2>3, StepKeeps
    <2>4. CASE At(s, "arrive.save") /\ Goto(s, "arrive.fresh")
      <3>1. Exists(b)'
        BY <1>a, <1>b, <2>0, <2>2, <2>4 DEF At
      <3>2. call'[s].b = b /\ call'[s].at = "arrive.fresh"
        BY <1>a, <2>0, <2>4, RunningCall DEF Goto, Running
      <3>3. \A t \in Slots \ {s} : call'[t] = call[t]
        BY <2>4 DEF Goto
      <3>4. FreshRowsFree' /\ Kept
        BY <2>1, <2>2, RowsKept
      <3>5. TripsExist'
        BY <3>1, <3>2, <3>3, <3>4, RunningCall
      <3> QED BY <3>4, <3>5
    <2> QED BY <1>4, <2>3, <2>4 DEF SaveTrip
  <1>5. CASE ArriveFresh(s)
    BY <1>5, <1>a, <1>b DEF ArriveFresh, At, Return, Goto, GotoSeeing, SeenJob, SeenNothing
  <1>6. CASE StartJob(s)
    BY <1>6, <1>a, <1>b DEF StartJob, At, Return, Goto
  <1>7. CASE WrongCode(s)
    <2>0. PICK b \in Bookings : b = call[s].b
      BY <1>b
    <2>1. PICK notes : Save(b, [row[b] EXCEPT !.notes = notes])
      BY <1>7, <2>0 DEF WrongCode
    <2> DEFINE r == [row[b] EXCEPT !.notes = notes]
    <2>2. HarmlessWrite(b, r)
      BY <1>b, <2>0 DEF HarmlessWrite
    <2>3. Save(b, r) /\ Return(s)
      BY <1>7, <2>1 DEF WrongCode
    <2> HIDE DEF r, TypeOK, Custody, FreshRowsFree, TripsExist, Kept, Save, Exists, Row, Idle
    <2> QED BY <2>2, <2>3, StepKeeps
  <1>8. CASE SaveCompletionRequest(s)
    <2>0. PICK b \in Bookings : b = call[s].b
      BY <1>b
    <2> DEFINE r == [row[b] EXCEPT !.status = "COMPLETION_REQUESTED", !.notes = call[s].seen.notes]
    <2>1. HarmlessWrite(b, r)
      BY <1>b, <2>0 DEF HarmlessWrite
    <2>2. UNCHANGED row \/ Save(b, r)
      BY <1>8, <2>0 DEF SaveCompletionRequest
    <2> HIDE DEF r, TypeOK, Custody, FreshRowsFree, TripsExist, Kept, Save, Exists, Row, Idle
    <2> QED BY <1>8, <1>a, <2>0, <2>1, <2>2, StepKeeps DEF SaveCompletionRequest, Steps, Trip
  <1>9. CASE SaveCompletionOtp(s)
    BY <1>9, <1>a, <1>b DEF SaveCompletionOtp, At, Return, Goto
  <1>10. CASE SaveCompletionVerified(s)
    BY <1>10, <1>a, <1>b DEF SaveCompletionVerified, At, Return, Goto
  <1>11. CASE CompleteClaim(s)
    <2>0. PICK b \in Bookings : b = call[s].b
      BY <1>b
    <2> DEFINE r == [row[b] EXCEPT !.status = "COMPLETED",
                   !.notes = [call[s].seen.notes EXCEPT !.done = "verified"]]
    <2>1. HarmlessWrite(b, r)
      BY <1>b, <2>0 DEF HarmlessWrite
    <2>2. UNCHANGED row \/ Save(b, r)
      BY <1>11, <2>0 DEF CompleteClaim
    <2> HIDE DEF r, TypeOK, Custody, FreshRowsFree, TripsExist, Kept, Save, Exists, Row, Idle
    <2> QED BY <1>11, <1>a, <2>0, <2>1, <2>2, StepKeeps DEF CompleteClaim, Steps, Trip
  <1>12. CASE SaveSelection(s)
    <2>0. PICK b \in Bookings : b = call[s].b
      BY <1>b
    <2> DEFINE seen == call[s].seen
               cash == seen.notes.method = "CASH"
               r == IF seen.pay = "PAID"
                    THEN [row[b] EXCEPT !.notes = seen.notes, !.pay = "PAID"]
                    ELSE [row[b] EXCEPT !.notes = seen.notes,
                            !.pay = IF cash THEN "PENDING_CASH" ELSE "VERIFICATION_PENDING",
                            !.status = IF cash THEN "OTP_GENERATED" ELSE @]
    <2>1. r.partner = row[b].partner /\ (row[b].status # "NONE" => r.status # "NONE")
      BY <1>b, <2>0
    <2>2. HarmlessWrite(b, r)
      <3> HIDE DEF r
      <3> QED BY <2>1 DEF HarmlessWrite
    <2>3. UNCHANGED row \/ Save(b, r)
      BY <1>12, <2>0 DEF SaveSelection
    <2> HIDE DEF r, TypeOK, Custody, FreshRowsFree, TripsExist, Kept, Save, Exists, Row, Idle
    <2> QED BY <1>12, <2>2, <2>3, StepKeeps DEF SaveSelection
  <1> QED BY <1>1, <1>2, <1>3, <1>4, <1>5, <1>6, <1>7, <1>8, <1>9, <1>10, <1>11, <1>12
     DEF JobStep

LEMMA BackgroundCustody ==
  ASSUME TypeOK, Custody, NEW b \in Bookings, AdminUpi(b) \/ CodeLapses(b) \/ Tick(b)
  PROVE  Custody' /\ Kept
  <1> USE DEF TypeOK, Custody, FreshRowsFree, TripsExist, Kept, Exists, Save, Row, Idle
  <1>1. ASSUME NEW u \in Claims, RejectUpi(b, u)
        PROVE  Custody' /\ Kept
    BY <1>1 DEF RejectUpi
  <1>2. ASSUME NEW u \in Claims, RequestUpiInfo(b, u)
        PROVE  Custody' /\ Kept
    BY <1>2 DEF RequestUpiInfo
  <1>3. CASE CodeLapses(b)
    <2>1. PICK notes : Save(b, [row[b] EXCEPT !.notes = notes])
      <3>1. CASE Save(b, [row[b] EXCEPT !.notes.start = "none"])
        BY <3>1
      <3>2. CASE Save(b, [row[b] EXCEPT !.notes.done = "none"])
        BY <3>2
      <3> QED BY <1>3, <3>1, <3>2 DEF CodeLapses
    <2> QED BY <1>3, <2>1 DEF CodeLapses
  <1>4. CASE Tick(b)
    BY <1>4 DEF Tick
  <1> QED BY <1>1, <1>2, <1>3, <1>4 DEF AdminUpi

LEMMA SweepAndCrashCustody ==
  ASSUME TypeOK, Custody, LazySweep \/ Crash
  PROVE  Custody' /\ Kept
  <1> USE DEF TypeOK, Custody, FreshRowsFree, TripsExist, Kept, Exists, Save, Row, Idle
  <1>1. CASE LazySweep
    <2>1. UNCHANGED call /\ \A b \in Bookings :
            row'[b].partner = row[b].partner /\ (row'[b] = row[b] \/ row'[b].status = "EXPIRED")
      BY <1>1 DEF LazySweep
    <2>2. FreshRowsFree' /\ Kept
      BY <2>1
    <2>3. TripsExist'
      BY <2>1, <2>2, RunningCall
    <2> QED BY <2>2, <2>3
  <1>2. CASE Crash
    BY <1>2 DEF Crash
  <1> QED BY <1>1, <1>2 DEF Custody

LEMMA CustodyStep ==
  ASSUME TypeOK, Custody, [Next]_vars
  PROVE  Custody' /\ Kept
  <1>1. ASSUME NEW s \in Slots, Step(s) PROVE Custody' /\ Kept
    BY <1>1, PaymentStepCustody, DispatchCustody, JobStepCustody DEF Step
  <1>2. ASSUME NEW s \in Slots, NEW b \in Bookings,
               PaymentRequest(s, b) \/ DispatchRequest(s, b) \/ JobRequest(s, b)
        PROVE  Custody' /\ Kept
    BY <1>2, PaymentRequestCustody, DispatchRequestCustody, JobRequestCustody
  <1>3. ASSUME NEW b \in Bookings, AdminUpi(b) \/ CodeLapses(b) \/ Tick(b)
        PROVE  Custody' /\ Kept
    BY <1>3, BackgroundCustody
  <1>4. CASE LazySweep \/ Crash
    BY <1>4, SweepAndCrashCustody
  <1>5. CASE UNCHANGED vars
    BY <1>5 DEF vars, Custody, FreshRowsFree, TripsExist, Exists, Kept
  <1> QED BY <1>1, <1>2, <1>3, <1>4, <1>5 DEF Next, Time

(* No later claim, settlement, expiry, cancellation or stale write of a    *)
(* snapshot hands the row to another partner or to nobody.                 *)
THEOREM FirstPartnerKeepsBooking == Spec => PartnerNeverReplaced
  <1>1. Init => Custody
    BY DEF Init, Custody, FreshRowsFree, TripsExist, NoRow, Idle
  <1>2. TypeOK /\ Custody /\ [Next]_vars => Custody'
    BY CustodyStep
  <1>3. TypeOK /\ Custody /\ [Next]_vars
          => [\A b \in Bookings :
                row[b].partner # NoPartner => row'[b].partner = row[b].partner]_vars
    BY CustodyStep DEF Kept
  <1> QED BY <1>1, <1>2, <1>3, TypeCorrect, PTL DEF Spec, PartnerNeverReplaced
=============================================================================
