--------------------------- MODULE ReferenceClaims --------------------------
(***************************************************************************)
(* Claims of a bank reference: a user says "I paid, here is the UTR", for  *)
(* a top-up or for a booking, and the claim is settled once, by an admin   *)
(* or by a line of a bank statement.  A handler is a sequence of database  *)
(* calls with other handlers between them: job[s] is the one in slot s.    *)
(*                                                                         *)
(* Abstracted: one amount for every claim; what a settlement does to       *)
(* wallet and booking (BookingPayment models the booking's side; here it   *)
(* may fail); subscription payments (Subscriptions); proofs and notices.   *)
(***************************************************************************)
EXTENDS Integers

CONSTANTS
  TopUps,      \* identities of TopupRequest rows
  UpiPayments, \* identities of UpiPayment rows
  References,  \* UTRs
  Lines,       \* lines of bank statements (BankReconciliation)
  NoLine,      \* not a line: settled by an admin
  Slots        \* requests and background passes that may be in flight at once

ASSUME ClaimAssumption == TopUps \cap UpiPayments = {} /\ NoLine \notin Lines

Claims == TopUps \cup UpiPayments
TableOf(c) == IF c \in TopUps THEN TopUps ELSE UpiPayments

VARIABLES
  claim, \* claim[c]: the row's status, and the reference it carries
  credit,\* history: the settlements made, [claim, line, by]
  job    \* job[s]: the handler running in slot s

ClaimStatus == {"VERIFICATION_PENDING", "VERIFIED", "REJECTED", "REQUEST_INFO"}
NoClaim == [status |-> "NONE"]
Claim == {NoClaim} \cup [status : ClaimStatus, ref : References]
Credit ==
  [claim : Claims, line : {NoLine}, by : {"admin"}]
  \cup [claim : Claims, line : Lines, by : {"machine", "hand"}]

Idle == [at |-> "idle"]
At(s, at) == job[s].at = at
Begin(s, j) == job[s] = Idle /\ job' = [job EXCEPT ![s] = j]
Continue(s, j) == job' = [job EXCEPT ![s] = j]
Return(s) == Continue(s, Idle)

ClaimInit ==
  /\ claim = [c \in Claims |-> NoClaim]
  /\ credit = {}
  /\ job = [s \in Slots |-> Idle]

Filed(status) == {c \in Claims : claim[c].status = status}
Citing(r) == {c \in Claims : claim[c] # NoClaim /\ claim[c].ref = r}
Pending(c) == c \in Filed("VERIFICATION_PENDING")

(* findReferenceConflict: a rejected claim is a do-over. *)
Conflict(r) == Citing(r) \ Filed("REJECTED")

-----------------------------------------------------------------------------
(* Filing: the reference is checked against every table, then stored if    *)
(* the unique index of its own table allows.                               *)

SubmitReference(s, c, r) ==
  /\ claim[c] = NoClaim /\ Conflict(r) = {}
  /\ Begin(s, [at |-> "file", claim |-> c, ref |-> r])
  /\ UNCHANGED <<claim, credit>>

FileClaim(s) ==
  LET c == job[s].claim  r == job[s].ref IN
  /\ At(s, "file")
  /\ IF claim[c] = NoClaim /\ Citing(r) \cap TableOf(c) = {}
       THEN claim' = [claim EXCEPT ![c] = [status |-> "VERIFICATION_PENDING", ref |-> r]]
       ELSE UNCHANGED claim
  /\ Return(s)
  /\ UNCHANGED credit

-----------------------------------------------------------------------------
(* Settling.                                                               *)

(* Mutant: the settlement trusts the status its caller has read. *)
SettleUnclaimed(c, line, by) ==
  /\ c \in Filed("VERIFICATION_PENDING") \cup Filed("VERIFIED")
  /\ claim' = [claim EXCEPT ![c].status = "VERIFIED"]
  /\ credit' = credit \cup {[claim |-> c, line |-> line, by |-> by]}

(* settleTopupRequest, settleUpiPayment: the conditional claim of the row  *)
(* and the money, in one transaction.                                      *)
Settle(c, line, by) ==
  /\ Pending(c)
  /\ claim' = [claim EXCEPT ![c].status = "VERIFIED"]
  /\ credit' = credit \cup {[claim |-> c, line |-> line, by |-> by]}

(* The wallet of a booking payment may be short, or missing. *)
SettlementFails(c) == Pending(c) /\ c \in UpiPayments /\ UNCHANGED <<claim, credit>>

VerifyClaim(c) == Settle(c, NoLine, "admin") /\ UNCHANGED job

(* Rejecting a top-up asks that it is pending; rejecting a booking payment *)
(* does not, and asking for information never does.                        *)
RejectClaim(c) ==
  /\ Pending(c) \/ (c \in UpiPayments /\ claim[c] # NoClaim)
  /\ claim' = [claim EXCEPT ![c].status = "REJECTED"]
  /\ UNCHANGED <<credit, job>>

RequestInfo(c) ==
  /\ claim[c] # NoClaim
  /\ claim' = [claim EXCEPT ![c].status = "REQUEST_INFO"]
  /\ UNCHANGED <<credit, job>>

ClaimNext ==
  \/ \E s \in Slots, c \in Claims, r \in References : SubmitReference(s, c, r)
  \/ \E c \in Claims : VerifyClaim(c) \/ RejectClaim(c) \/ RequestInfo(c)
=============================================================================
