----------------------------- MODULE JobWorkflow ----------------------------
(***************************************************************************)
(* The job itself: a partner accepts, the start code, travel and arrival,  *)
(* the completion request and its code, the payment-method choice, and the *)
(* settlement that pays the partner.  Handlers of jobWorkflowService read  *)
(* the row and later write status or notes back unconditionally.           *)
(***************************************************************************)
EXTENDS Bookings

Pending == {"PARTNER_ACCEPTED", "OTP_GENERATED"}
Assigned(b) == row[b].partner # NoPartner
Alive(code) == code = "live"                  \* startOtpAlive, completionOtpAlive
Enterable(code) == code \in {"live", "verified"}

(* The two accept routes: POST /bookings/:id/accept counts a job waiting   *)
(* for its completion code as active, POST /partner/bookings/:id/accept    *)
(* does not.  The check and the claim are separate database calls.         *)
ActiveStatusNotStarted(route) ==                          \* mutant
  Pending \cup (IF route = "bookings" THEN {"COMPLETION_REQUESTED"} ELSE {})
ActiveStatus(route) ==
  Pending \cup {"IN_PROGRESS"} \cup (IF route = "bookings" THEN {"COMPLETION_REQUESTED"} ELSE {})

Busy(p, route) == \E b \in Bookings : row[b].partner = p /\ row[b].status \in ActiveStatus(route)

(* Mutant: the timer is cleared before the claim. *)
AcceptClearsTimer(s, b, p, route) ==
  /\ Exists(b)
  /\ ~Busy(p, route)
  /\ Begin(s, "accept.claim", b, p, SeenNothing)
  /\ timers' = timers \ {b}
  /\ UNCHANGED <<row, upi, money, window, clock, codes, crashes>>

Accept(s, b, p, route) ==
  /\ Exists(b)
  /\ ~Busy(p, route)
  /\ Begin(s, "accept.claim", b, p, SeenNothing)
  /\ UNCHANGED <<row, upi, money, timers, window, clock, codes, crashes>>

(* Mutants: the partner's id is swapped for the booking's; the claim does  *)
(* not ask for a row without a partner.                                    *)
AcceptClaimSwapped(s) ==
  LET b == call[s].b IN
  /\ At(s, "accept.claim")
  /\ IF Unclaimed(row[b])
     THEN Save(b, [row[b] EXCEPT !.partner = b, !.status = "PARTNER_ACCEPTED"])
     ELSE UNCHANGED row
  /\ Return(s)
  /\ UNCHANGED <<upi, money, timers, window, clock, codes, crashes>>
AcceptClaimTaken(s) ==
  LET b == call[s].b IN
  /\ At(s, "accept.claim")
  /\ IF row[b].status \in {"PARTNER_SEARCHING", "PARTNER_ASSIGNED", "PARTNER_ACCEPTED"}
     THEN Save(b, [row[b] EXCEPT !.partner = call[s].who, !.status = "PARTNER_ACCEPTED"])
     ELSE UNCHANGED row
  /\ Return(s)
  /\ UNCHANGED <<upi, money, timers, window, clock, codes, crashes>>

AcceptClaim(s) ==
  LET b == call[s].b IN
  /\ At(s, "accept.claim")
  /\ IF row[b].status \in {"PARTNER_SEARCHING", "PAYMENT_SUCCESSFUL"} /\ row[b].partner = NoPartner
     THEN /\ Save(b, [row[b] EXCEPT !.partner = call[s].who, !.status = "PARTNER_ACCEPTED"])
          /\ timers' = timers \ {b}
     ELSE UNCHANGED <<row, timers>>
  /\ Return(s)
  /\ UNCHANGED <<upi, money, window, clock, codes, crashes>>

-----------------------------------------------------------------------------
(* Start code.  issueStartOtp (user) and markArrived mint through          *)
(* mintStartOtp, which writes back the status it read, advanced from       *)
(* PARTNER_ACCEPTED; generateOTP (partner) claims on the current status.   *)
IssueStartOtp(s, b) ==
  /\ Assigned(b) /\ row[b].status \in Pending
  /\ Begin(s, "otp.mint", b, "PARTY", SeenJob(row[b]))
  /\ UNCHANGED <<row, upi, money, timers, window, clock, codes, crashes>>

(* Mutant: otpVerifiedAt is not reset when a code is minted. *)
MintStartOtpNoReset(s) ==
  LET b == call[s].b  seen == call[s].seen IN
  /\ At(s, "otp.mint")
  /\ Save(b, [row[b] EXCEPT
         !.status = IF seen.status = "PARTNER_ACCEPTED" THEN "OTP_GENERATED" ELSE seen.status,
         !.otp = IF @ = "none" THEN "sent" ELSE @,
         !.notes = [seen.notes EXCEPT !.start = "live"]])
  /\ Return(s)
  /\ UNCHANGED <<upi, money, timers, window, clock, codes, crashes>>

MintStartOtp(s) ==
  LET b == call[s].b  seen == call[s].seen IN
  /\ At(s, "otp.mint")
  /\ Save(b, [row[b] EXCEPT
         !.status = IF seen.status = "PARTNER_ACCEPTED" THEN "OTP_GENERATED" ELSE seen.status,
         !.otp = "sent",
         !.notes = [seen.notes EXCEPT !.start = "live"]])
  /\ Return(s)
  /\ UNCHANGED <<upi, money, timers, window, clock, codes, crashes>>

GenerateOtp(s, b) ==
  /\ Assigned(b)
  /\ Begin(s, "otp.generate", b, "PARTY", SeenNotes(row[b]))
  /\ UNCHANGED <<row, upi, money, timers, window, clock, codes, crashes>>

GenerateOtpClaim(s) ==
  LET b == call[s].b IN
  /\ At(s, "otp.generate")
  /\ IF row[b].status \in Pending
     THEN Save(b, [row[b] EXCEPT !.status = "OTP_GENERATED", !.otp = "sent",
                                 !.notes = [call[s].seen.notes EXCEPT !.start = "live"]])
     ELSE UNCHANGED row
  /\ Return(s)
  /\ UNCHANGED <<upi, money, timers, window, clock, codes, crashes>>

(* markTravelling and markArrived rewrite notes as read; an arrival mints  *)
(* a code from a fresh read unless the notes it read had a live one.       *)
MarkTravelling(s, b) ==
  /\ Assigned(b) /\ row[b].status \in Pending /\ CanStart(b)
  /\ Begin(s, "travel.save", b, "PARTY", SeenNotes(row[b]))
  /\ UNCHANGED <<row, upi, money, timers, window, clock, codes, crashes>>

MarkArrived(s, b) ==
  /\ Assigned(b) /\ row[b].status \in Pending
  /\ Begin(s, "arrive.save", b, "PARTY", SeenNotes(row[b]))
  /\ UNCHANGED <<row, upi, money, timers, window, clock, codes, crashes>>

SaveTrip(s) ==
  LET b == call[s].b IN
  /\ \/ At(s, "travel.save") /\ Return(s)
     \/ /\ At(s, "arrive.save")
        /\ IF Alive(call[s].seen.notes.start) THEN Return(s) ELSE Goto(s, "arrive.fresh")
  /\ Save(b, [row[b] EXCEPT !.notes = call[s].seen.notes])
  /\ UNCHANGED <<upi, money, timers, window, clock, codes, crashes>>

ArriveFresh(s) ==
  /\ At(s, "arrive.fresh")
  /\ GotoSeeing(s, "otp.mint", SeenJob(row[call[s].b]))
  /\ UNCHANGED <<row, upi, money, timers, window, clock, codes, crashes>>

(* verifyStartOtp, with the right code or a wrong one.                     *)
VerifyStartOtp(s, b) ==
  /\ Assigned(b) /\ row[b].status = "OTP_GENERATED" /\ CanStart(b)
  /\ Enterable(row[b].notes.start)
  /\ \E at \in {"start.verify", "start.wrong"} : Begin(s, at, b, "PARTY", SeenNotes(row[b]))
  /\ UNCHANGED <<row, upi, money, timers, window, clock, codes, crashes>>

StartJob(s) ==
  LET b == call[s].b IN
  /\ At(s, "start.verify")
  /\ Save(b, [row[b] EXCEPT !.status = "IN_PROGRESS", !.otp = "checked",
                            !.notes = [call[s].seen.notes EXCEPT !.start = "verified"]])
  /\ codes' = [codes EXCEPT ![b] = @ \cup {"start"}]
  /\ Return(s)
  /\ UNCHANGED <<upi, money, timers, window, clock, crashes>>

(* A wrong code counts an attempt in the notes read; the last locks it.    *)
WrongCode(s) ==
  LET b == call[s].b  notes == call[s].seen.notes IN
  /\ \E locked \in BOOLEAN :
       \/ /\ At(s, "start.wrong")
          /\ Save(b, [row[b] EXCEPT !.notes =
                        IF locked THEN [notes EXCEPT !.start = "none"] ELSE notes])
       \/ /\ At(s, "done.wrong")
          /\ Save(b, [row[b] EXCEPT !.notes =
                        IF locked THEN [notes EXCEPT !.done = "none"] ELSE notes])
  /\ Return(s)
  /\ UNCHANGED <<upi, money, timers, window, clock, codes, crashes>>

(* A code nobody entered reaches its expiresAt.                            *)
CodeLapses(b) ==
  LET notes == row[b].notes IN
  /\ \/ notes.start = "live" /\ Save(b, [row[b] EXCEPT !.notes.start = "none"])
     \/ notes.done = "live" /\ Save(b, [row[b] EXCEPT !.notes.done = "none"])
  /\ UNCHANGED <<upi, money, timers, window, clock, call, codes, crashes>>

-----------------------------------------------------------------------------
(* Completion.  requestCompletion writes the status with the notes it      *)
(* read, then, unless they hold a live code, those notes with a new code.  *)
(* Mutant: a job may be finished that was not started. *)
RequestCompletionEarly(s, b) ==
  /\ Assigned(b)
  /\ Begin(s, "done.request", b, "PARTY", SeenNotes(row[b]))
  /\ UNCHANGED <<row, upi, money, timers, window, clock, codes, crashes>>

RequestCompletion(s, b) ==
  /\ Assigned(b) /\ row[b].status = "IN_PROGRESS"
  /\ Begin(s, "done.request", b, "PARTY", SeenNotes(row[b]))
  /\ UNCHANGED <<row, upi, money, timers, window, clock, codes, crashes>>

SaveCompletionRequest(s) ==
  LET b == call[s].b  notes == call[s].seen.notes IN
  /\ At(s, "done.request")
  /\ Save(b, [row[b] EXCEPT !.status = "COMPLETION_REQUESTED", !.notes = notes])
  /\ IF Alive(notes.done) THEN Return(s) ELSE Goto(s, "done.code")
  /\ UNCHANGED <<upi, money, timers, window, clock, codes, crashes>>

IssueCompletionOtp(s, b) ==
  /\ row[b].status = "COMPLETION_REQUESTED" /\ ~Alive(row[b].notes.done)
  /\ Begin(s, "done.issue", b, "PARTY", SeenNotes(row[b]))
  /\ UNCHANGED <<row, upi, money, timers, window, clock, codes, crashes>>

SaveCompletionOtp(s) ==
  LET b == call[s].b IN
  /\ At(s, "done.code") \/ At(s, "done.issue")
  /\ Save(b, [row[b] EXCEPT !.notes = [call[s].seen.notes EXCEPT !.done = "live"]])
  /\ Return(s)
  /\ UNCHANGED <<upi, money, timers, window, clock, codes, crashes>>

VerifyCompletionOtp(s, b) ==
  /\ Assigned(b) /\ row[b].status = "COMPLETION_REQUESTED"
  /\ Enterable(row[b].notes.done)
  /\ \E at \in {"done.verify", "done.wrong"} : Begin(s, at, b, "PARTY", SeenNotes(row[b]))
  /\ UNCHANGED <<row, upi, money, timers, window, clock, codes, crashes>>

SaveCompletionVerified(s) ==
  LET b == call[s].b IN
  /\ At(s, "done.verify")
  /\ Save(b, [row[b] EXCEPT !.notes = [call[s].seen.notes EXCEPT !.done = "verified"]])
  /\ codes' = [codes EXCEPT ![b] = @ \cup {"done"}]
  /\ Return(s)
  /\ UNCHANGED <<upi, money, timers, window, clock, crashes>>

(* Mutant: a job may be completed with the code unseen. *)
CompleteUnchecked(s, b) ==
  /\ Assigned(b) /\ row[b].status = "COMPLETION_REQUESTED"
  /\ Begin(s, "complete", b, "PARTY", SeenNotes(row[b]))
  /\ UNCHANGED <<row, upi, money, timers, window, clock, codes, crashes>>

(* completeBooking: the code (verified before, or entered now) is checked  *)
(* on the row read; the transaction claims COMPLETION_REQUESTED, settles   *)
(* the price and credits the partner's wallet unless the job is paid cash. *)
Complete(s, b) ==
  /\ Assigned(b) /\ row[b].status = "COMPLETION_REQUESTED"
  /\ Enterable(row[b].notes.done)
  /\ Begin(s, "complete", b, "PARTY", SeenNotes(row[b]))
  /\ codes' = [codes EXCEPT ![b] = @ \cup {"done"}]
  /\ UNCHANGED <<row, upi, money, timers, window, clock, crashes>>

CompleteClaim(s) ==
  LET b == call[s].b  notes == call[s].seen.notes
      cash == row[b].pay = "PENDING_CASH" \/ notes.method = "CASH" IN
  /\ At(s, "complete")
  /\ IF row[b].status = "COMPLETION_REQUESTED"
     THEN /\ Save(b, [row[b] EXCEPT !.status = "COMPLETED",
                                    !.notes = [notes EXCEPT !.done = "verified"]])
          /\ IF cash THEN UNCHANGED money ELSE Post(b, "payouts")
     ELSE UNCHANGED <<row, money>>
  /\ Return(s)
  /\ UNCHANGED <<upi, timers, window, clock, codes, crashes>>

(* selectPaymentMethod: "already selected" and PAID are read before the    *)
(* update, whose condition is only the status.                             *)
SelectPayment(s, b, m) ==
  /\ row[b].status \in Pending /\ row[b].notes.method = "NONE"
  /\ Begin(s, "select", b, "PARTY",
           [SeenPay(row[b]) EXCEPT !.notes = [row[b].notes EXCEPT !.method = m]])
  /\ UNCHANGED <<row, upi, money, timers, window, clock, codes, crashes>>

SaveSelection(s) ==
  LET b == call[s].b  seen == call[s].seen  cash == seen.notes.method = "CASH" IN
  /\ At(s, "select")
  /\ IF row[b].status \in Pending
     THEN Save(b, IF seen.pay = "PAID"
                  THEN [row[b] EXCEPT !.notes = seen.notes, !.pay = "PAID"]
                  ELSE [row[b] EXCEPT !.notes = seen.notes,
                          !.pay = IF cash THEN "PENDING_CASH" ELSE "VERIFICATION_PENDING",
                          !.status = IF cash THEN "OTP_GENERATED" ELSE @])
     ELSE UNCHANGED row
  /\ Return(s)
  /\ UNCHANGED <<upi, money, timers, window, clock, codes, crashes>>

JobStep(s) ==
  \/ AcceptClaim(s) \/ MintStartOtp(s) \/ GenerateOtpClaim(s) \/ SaveTrip(s)
  \/ ArriveFresh(s) \/ StartJob(s) \/ WrongCode(s) \/ SaveCompletionRequest(s)
  \/ SaveCompletionOtp(s) \/ SaveCompletionVerified(s) \/ CompleteClaim(s) \/ SaveSelection(s)

JobRequest(s, b) ==
  \/ \E p \in Partners, route \in {"bookings", "partner"} : Accept(s, b, p, route)
  \/ IssueStartOtp(s, b) \/ GenerateOtp(s, b) \/ MarkTravelling(s, b) \/ MarkArrived(s, b)
  \/ VerifyStartOtp(s, b) \/ RequestCompletion(s, b) \/ IssueCompletionOtp(s, b)
  \/ VerifyCompletionOtp(s, b) \/ Complete(s, b)
  \/ \E m \in {"CASH", "UPI_MANUAL"} : SelectPayment(s, b, m)
=============================================================================
