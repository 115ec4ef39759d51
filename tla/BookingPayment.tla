--------------------------- MODULE BookingPayment ---------------------------
(***************************************************************************)
(* How a booking is created and paid for: wallet escrow at creation, the   *)
(* payment gateway, and the manual UPI flow with its admin verification;   *)
(* and partnerMatchingEngine.assignPartnerToBooking, which both paid paths *)
(* call once the money has arrived.                                        *)
(***************************************************************************)
EXTENDS Bookings

(* POST /bookings.  ONLINE debits the wallet (WALLET_DEBIT) in the         *)
(* transaction that creates the row; CASH and UPI_MANUAL debit nothing.    *)
(* The controller then calls dispatchBooking.                              *)
CreateOnline(s, b) ==
  /\ "ONLINE" \in Methods /\ ~Exists(b)
  /\ Save(b, [NoRow EXCEPT !.status = "PARTNER_SEARCHING", !.pay = "PAID"])
  /\ Post(b, "holds")
  /\ Begin(s, "dispatch", b, "PARTY", SeenNothing)
  /\ UNCHANGED <<upi, timers, window, clock, codes, crashes>>

(* Mutant: a booking without debit starts to search at once. *)
CreateUnpaidSearching(s, b, m) ==
  /\ m \in Methods /\ ~Exists(b)
  /\ Save(b, [NoRow EXCEPT !.status = "PARTNER_SEARCHING", !.pay = "PENDING_CASH",
                           !.notes.method = m])
  /\ Begin(s, "dispatch", b, "PARTY", SeenNothing)
  /\ UNCHANGED <<upi, money, timers, window, clock, codes, crashes>>

CreateUnpaid(s, b, m) ==
  /\ m \in Methods /\ ~Exists(b)
  /\ Save(b, [NoRow EXCEPT !.status = "PAYMENT_PENDING",
                           !.pay = IF m = "CASH" THEN "PENDING_CASH"
                                                 ELSE "VERIFICATION_PENDING",
                           !.notes.method = m])
  /\ Begin(s, "dispatch", b, "PARTY", SeenNothing)
  /\ UNCHANGED <<upi, money, timers, window, clock, codes, crashes>>

(* POST /bookings/:id/pay: reads the status, asks the gateway for an       *)
(* order, then writes PAYMENT_INITIATED whatever the status is by then.    *)
InitiatePayment(s, b) ==
  /\ "GATEWAY" \in Channels /\ row[b].status = "PAYMENT_PENDING"
  /\ Begin(s, "initiate", b, "PARTY", SeenNothing)
  /\ UNCHANGED <<row, upi, money, timers, window, clock, codes, crashes>>

InitiatePaymentSave(s) ==
  LET b == call[s].b IN
  /\ At(s, "initiate")
  /\ Save(b, [row[b] EXCEPT !.status = "PAYMENT_INITIATED"])
  /\ Return(s)
  /\ UNCHANGED <<upi, money, timers, window, clock, codes, crashes>>

(* Mutant: the capture does not set paymentStatus. *)
VerifyPaymentKeepsStatus(s, b) ==
  /\ row[b].status = "PAYMENT_INITIATED"
  /\ Save(b, [row[b] EXCEPT !.status = "PARTNER_SEARCHING"])
  /\ Post(b, "cards")
  /\ Begin(s, "assign", b, "PARTY", SeenNothing)
  /\ UNCHANGED <<upi, timers, window, clock, codes, crashes>>

(* The gateway reports the order captured; the claim on PAYMENT_INITIATED  *)
(* and the DEBIT row are one transaction.                                  *)
VerifyPayment(s, b) ==
  /\ row[b].status = "PAYMENT_INITIATED"
  /\ Save(b, [row[b] EXCEPT !.status = "PARTNER_SEARCHING", !.pay = "PAID"])
  /\ Post(b, "cards")
  /\ Begin(s, "assign", b, "PARTY", SeenNothing)
  /\ UNCHANGED <<upi, timers, window, clock, codes, crashes>>

(* The user submits a bank reference: the guard reads paymentStatus only;  *)
(* the write creates the claim and resets paymentStatus unconditionally.   *)
SubmitUpi(s, b, u) ==
  /\ "UPI" \in Channels
  /\ row[b].pay \in {"VERIFICATION_PENDING", "REJECTED", "REQUEST_INFO"}
  /\ upi[b][u] = "NONE"
  /\ \A t \in Slots : ~(At(t, "upi.submit") /\ call[t].b = b /\ call[t].who = u)
  /\ Begin(s, "upi.submit", b, u, SeenNothing)
  /\ UNCHANGED <<row, upi, money, timers, window, clock, codes, crashes>>

SubmitUpiSave(s) ==
  LET b == call[s].b  u == call[s].who IN
  /\ At(s, "upi.submit")
  /\ upi' = [upi EXCEPT ![b][u] = "VERIFICATION_PENDING"]
  /\ Save(b, [row[b] EXCEPT !.pay = "VERIFICATION_PENDING"])
  /\ Return(s)
  /\ UNCHANGED <<money, timers, window, clock, codes, crashes>>

(* settleUpiPayment, from the admin's VERIFY or from reconciliation (of a  *)
(* claim that still waits: on any other the claim below is lost).  The     *)
(* transaction reads the claim with its booking, then claims the UpiPayment*)
(* row, debits the wallet unless the booking it READ was PAID, and moves   *)
(* the booking to PARTNER_SEARCHING if its paymentStatus still waits for   *)
(* verification, whatever its status is.                                   *)
SettleUpi(s, b, u) ==
  /\ upi[b][u] = "VERIFICATION_PENDING"
  /\ Begin(s, "upi.settle", b, u, SeenPay(row[b]))
  /\ UNCHANGED <<row, upi, money, timers, window, clock, codes, crashes>>

(* Mutant: the hold is skipped for a booking cancelled or expired since. *)
SettleUpiClaimSkipsHold(s) ==
  LET b == call[s].b  u == call[s].who IN
  /\ At(s, "upi.settle")
  /\ upi[b][u] = "VERIFICATION_PENDING"
  /\ upi' = [upi EXCEPT ![b][u] = "VERIFIED"]
  /\ IF call[s].seen.pay # "PAID" /\ row[b].status = "PAYMENT_PENDING"
     THEN Post(b, "holds") ELSE UNCHANGED money
  /\ IF row[b].pay = "VERIFICATION_PENDING"
     THEN Save(b, [row[b] EXCEPT !.status = "PARTNER_SEARCHING", !.pay = "PAID"])
     ELSE UNCHANGED row
  /\ Goto(s, "assign")
  /\ UNCHANGED <<timers, window, clock, codes, crashes>>

SettleUpiClaim(s) ==
  LET b == call[s].b  u == call[s].who IN
  /\ At(s, "upi.settle")
  /\ upi[b][u] = "VERIFICATION_PENDING"
  /\ upi' = [upi EXCEPT ![b][u] = "VERIFIED"]
  /\ IF call[s].seen.pay # "PAID" THEN Post(b, "holds") ELSE UNCHANGED money
  /\ IF row[b].pay = "VERIFICATION_PENDING"
     THEN Save(b, [row[b] EXCEPT !.status = "PARTNER_SEARCHING", !.pay = "PAID"])
     ELSE UNCHANGED row
  /\ Goto(s, "assign")
  /\ UNCHANGED <<timers, window, clock, codes, crashes>>

(* The claim was lost, or the wallet cannot cover the hold: rolled back.   *)
SettleUpiAbort(s) ==
  /\ At(s, "upi.settle")
  /\ \/ upi[call[s].b][call[s].who] # "VERIFICATION_PENDING"
     \/ call[s].seen.pay # "PAID"
  /\ Return(s)
  /\ UNCHANGED <<row, upi, money, timers, window, clock, codes, crashes>>

(* The admin's REJECT has no guard on the claim's status.                  *)
RejectUpi(b, u) ==
  /\ upi[b][u] # "NONE"
  /\ upi' = [upi EXCEPT ![b][u] = "REJECTED"]
  /\ Save(b, [row[b] EXCEPT !.pay = "REJECTED"])
  /\ UNCHANGED <<money, timers, window, clock, call, codes, crashes>>

RequestUpiInfo(b, u) ==
  /\ upi[b][u] # "NONE"
  /\ upi' = [upi EXCEPT ![b][u] = "REQUEST_INFO"]
  /\ UNCHANGED <<row, money, timers, window, clock, call, codes, crashes>>

(* assignPartnerToBooking: nobody matches; or the best match scores above  *)
(* 80 and is written into a still unclaimed row; or the candidates are     *)
(* notified and the search window is (re)opened.  The upsert moves the     *)
(* deadline of an existing BookingTimeout but leaves isProcessed alone.    *)
AssignNobody(s) ==
  /\ At(s, "assign")
  /\ Return(s)
  /\ UNCHANGED <<row, upi, money, timers, window, clock, codes, crashes>>

AssignBest(s, p) ==
  LET b == call[s].b IN
  /\ At(s, "assign")
  /\ Unclaimed(row[b])
  /\ Save(b, [row[b] EXCEPT !.partner = p, !.status = "PARTNER_ASSIGNED"])
  /\ Return(s)
  /\ UNCHANGED <<upi, money, timers, window, clock, codes, crashes>>

OpenSearchWindow(s) ==
  LET b == call[s].b IN
  /\ At(s, "assign")
  /\ window' = [window EXCEPT ![b] = IF @ = "done" THEN "done" ELSE "open"]
  /\ Return(s)
  /\ UNCHANGED <<row, upi, money, timers, clock, codes, crashes>>

PaymentStep(s) ==
  \/ InitiatePaymentSave(s) \/ SubmitUpiSave(s)
  \/ SettleUpiClaim(s) \/ SettleUpiAbort(s)
  \/ AssignNobody(s) \/ OpenSearchWindow(s) \/ \E p \in Partners : AssignBest(s, p)

PaymentRequest(s, b) ==
  \/ CreateOnline(s, b) \/ \E m \in {"CASH", "UPI_MANUAL"} : CreateUnpaid(s, b, m)
  \/ InitiatePayment(s, b) \/ VerifyPayment(s, b)
  \/ \E u \in Claims : SubmitUpi(s, b, u) \/ SettleUpi(s, b, u)

AdminUpi(b) == \E u \in Claims : RejectUpi(b, u) \/ RequestUpiInfo(b, u)
=============================================================================
