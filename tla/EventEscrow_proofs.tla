------------------------- MODULE EventEscrow_proofs -------------------------
(***************************************************************************)
(* Theorems about the event escrow for every number of attendees, handlers *)
(* in flight and restarts, any fee and any wallets.                        *)
(***************************************************************************)
EXTENDS EscrowPromise, TLAPS

(***************************************************************************)
(* Type correctness.                                                       *)
(***************************************************************************)

LEMMA BeginTyped ==
  ASSUME job \in [Slots -> Job], NEW s \in Slots, NEW j \in Job, Begin(s, j)
  PROVE  job' \in [Slots -> Job]
  BY DEF Begin

LEMMA ContinueTyped ==
  ASSUME job \in [Slots -> Job], NEW s \in Slots, NEW j \in Job, Continue(s, j)
  PROVE  job' \in [Slots -> Job]
  BY DEF Continue

LEMMA ReturnTyped ==
  ASSUME job \in [Slots -> Job], NEW s \in Slots, Return(s)
  PROVE  job' \in [Slots -> Job]
  BY ContinueTyped DEF Return, Job

(* What a running handler carries. *)
LEMMA RunningJob ==
  ASSUME job \in [Slots -> Job], NEW s \in Slots
  PROVE  /\ At(s, "pay") \/ At(s, "waive") => job[s].who \in Payers
         /\ At(s, "report") => job[s].who \in Payers /\ job[s].earliest \in Payers
         /\ At(s, "update") => job[s].seen \in EventStatus /\ job[s].status \in EventStatus
         /\ At(s, "settle") => job[s] \in Loop
         /\ At(s, "settling") => job[s] \in Settling
  BY DEF Job, Idle, Loop, Settling, At

LEMMA SummaryTyped ==
  ASSUME NEW status
  PROVE  Summary(status) \in SettlementStatus
  BY DEF Summary, SettlementStatus

(* The settlement in slot s: its row, and what the loop goes on with. *)
LEMMA SettleCommitTyped ==
  ASSUME TypeOK, NEW s \in Slots, SettleCommit(s)
  PROVE  TypeOK'
  <1>1. job[s] \in Settling
    BY RunningJob DEF TypeOK, SettleCommit
  <1>2. /\ job[s].of \in Payers /\ job[s].to \in Decision
        /\ job[s].status \in SettlementStatus
        /\ [at |-> "settle", by |-> job[s].by, to |-> job[s].to, todo |-> job[s].todo] \in Loop
    BY <1>1 DEF Settling, Loop
  <1>3. job' \in [Slots -> Job]
    BY <1>2, ContinueTyped DEF TypeOK, SettleCommit, Job
  <1>4. escrow' \in [Payers -> EscrowStatus] /\ share' \in [Payers -> ShareStatus]
    BY <1>2 DEF TypeOK, SettleCommit, Decision, EscrowStatus, ShareStatus
  <1>5. heldBalance' \in [Payers -> Int] /\ balance' \in [Users -> Int]
    BY <1>2, EscrowAssumption DEF TypeOK, SettleCommit, Users
  <1> QED BY <1>2, <1>3, <1>4, <1>5 DEF TypeOK, SettleCommit

LEMMA SettleTyped ==
  ASSUME TypeOK, NEW s \in Slots, Settle(s)
  PROVE  TypeOK'
  <1>1. ASSUME NEW p \in Payers, SettleClaim(s, p)
        PROVE  TypeOK'
    <2>1. job[s] \in Loop
      BY <1>1, RunningJob DEF TypeOK, SettleClaim
    <2>2. [at |-> "settling", by |-> job[s].by, to |-> job[s].to,
           todo |-> job[s].todo \ {p}, of |-> p,
           status |-> Summary([escrow EXCEPT ![p] = job[s].to])] \in Settling
      BY <2>1, SummaryTyped DEF Loop, Settling
    <2>3. job' \in [Slots -> Job]
      BY <1>1, <2>2, ContinueTyped DEF TypeOK, SettleClaim, Job
    <2> QED BY <1>1, <2>3 DEF TypeOK, SettleClaim, rows, wallets
  <1>2. ASSUME NEW p \in Payers, SettleSkip(s, p)
        PROVE  TypeOK'
    <2>1. job[s] \in Loop
      BY <1>2, RunningJob DEF TypeOK, SettleSkip
    <2>2. [job[s] EXCEPT !.todo = @ \ {p}] \in Loop
      BY <2>1 DEF Loop
    <2>3. job' \in [Slots -> Job]
      BY <1>2, <2>2, ContinueTyped DEF TypeOK, SettleSkip, Job
    <2> QED BY <1>2, <2>3 DEF TypeOK, SettleSkip, rows, wallets
  <1>3. CASE SettleDone(s)
    <2>1. job' \in [Slots -> Job]
      BY <1>3, ContinueTyped, ReturnTyped DEF TypeOK, SettleDone, Job
    <2> QED BY <1>3, <2>1 DEF TypeOK, SettleDone, rows, wallets
  <1>4. CASE SettleCommit(s)
    BY <1>4, SettleCommitTyped
  <1> QED BY <1>1, <1>2, <1>3, <1>4 DEF Settle

LEMMA StepTyped ==
  ASSUME TypeOK, NEW s \in Slots, Step(s)
  PROVE  TypeOK'
  <1>1. CASE PayShare(s)
    <2>1. job[s].who \in Payers
      BY <1>1, RunningJob DEF TypeOK, PayShare
    <2>2. job' \in [Slots -> Job]
      BY <1>1, ReturnTyped DEF TypeOK, PayShare
    <2> QED BY <1>1, <2>1, <2>2, EscrowAssumption
         DEF TypeOK, PayShare, HoldShare, ShareStatus, EscrowStatus
  <1>2. CASE WaiveShare(s)
    <2>1. job[s].who \in Payers
      BY <1>2, RunningJob DEF TypeOK, WaiveShare
    <2>2. job' \in [Slots -> Job]
      BY <1>2, ReturnTyped DEF TypeOK, WaiveShare
    <2> QED BY <1>2, <2>1, <2>2 DEF TypeOK, WaiveShare, ShareStatus, wallets
  <1>3. CASE Settle(s)
    BY <1>3, SettleTyped
  <1>4. CASE CloseReports(s)
    <2>1. job' \in [Slots -> Job]
      BY <1>4, ReturnTyped DEF TypeOK, CloseReports
    <2> QED BY <1>4, <2>1 DEF TypeOK, CloseReports, wallets
  <1>5. CASE FileReport(s)
    <2>1. job[s].who \in Payers
      BY <1>5, RunningJob DEF TypeOK, FileReport
    <2>2. job' \in [Slots -> Job]
      BY <1>5, ReturnTyped, ContinueTyped DEF TypeOK, FileReport, Job
    <2>3. escrow' \in [Payers -> EscrowStatus] /\ settlement' \in SettlementStatus
      BY <1>5, <2>1, SummaryTyped DEF TypeOK, FileReport, FreezeForReport, EscrowStatus
    <2> QED BY <1>5, <2>1, <2>2, <2>3 DEF TypeOK, FileReport, wallets
  <1>6. CASE FreezeAll(s)
    <2>1. job' \in [Slots -> Job]
      BY <1>6, ContinueTyped DEF TypeOK, FreezeAll, Job
    <2> QED BY <1>6, <2>1 DEF TypeOK, FreezeAll, EscrowStatus, wallets
  <1>7. CASE FlagDispute(s)
    <2>1. job' \in [Slots -> Job]
      BY <1>7, ReturnTyped DEF TypeOK, FlagDispute
    <2> QED BY <1>7, <2>1 DEF TypeOK, FlagDispute, SettlementStatus, wallets
  <1>8. CASE UpdateEvent(s)
    <2>1. job[s].status \in EventStatus
      BY <1>8, RunningJob DEF TypeOK, UpdateEvent
    <2>2. job' \in [Slots -> Job]
      BY <1>8, ContinueTyped DEF TypeOK, UpdateEvent, Job
    <2> QED BY <1>8, <2>1, <2>2 DEF TypeOK, UpdateEvent, wallets
  <1>9. CASE ListRefunds(s)
    <2>1. [at |-> "settle", by |-> "cancel", to |-> "REFUNDED", todo |-> Open] \in Loop
      BY DEF Loop, Decision, Open
    <2>2. job' \in [Slots -> Job]
      BY <1>9, <2>1, ContinueTyped DEF TypeOK, ListRefunds, Job
    <2> QED BY <1>9, <2>2 DEF TypeOK, ListRefunds, rows, wallets
  <1>10. CASE DeleteEvent(s)
    <2>1. job' \in [Slots -> Job]
      BY <1>10, ReturnTyped DEF TypeOK, DeleteEvent
    <2> QED BY <1>10, <2>1 DEF TypeOK, DeleteEvent, EventStatus, wallets
  <1> QED BY <1>1, <1>2, <1>3, <1>4, <1>5, <1>6, <1>7, <1>8, <1>9, <1>10 DEF Step

(* A request only takes a slot. *)
LEMMA RequestBegins ==
  ASSUME TypeOK, NEW s \in Slots, Request(s)
  PROVE  /\ UNCHANGED <<rows, wallets, clock, crashes>>
         /\ \E j \in Job : Begin(s, j) /\ j.at # "settling"
  <1>1. ASSUME NEW p \in Payers, RequestPay(s, p) \/ RequestWaive(s, p)
        PROVE  \E j \in Job : Begin(s, j) /\ j.at # "settling"
    BY <1>1 DEF RequestPay, RequestWaive, Job
  <1>2. ASSUME NEW p \in Payers, RequestReport(s, p)
        PROVE  \E j \in Job : Begin(s, j) /\ j.at # "settling"
    <2>1. PICK e \in Open : Begin(s, [at |-> "report", who |-> p, earliest |-> e])
      BY <1>2 DEF RequestReport
    <2> QED BY <2>1 DEF Job, Open
  <1>3. ASSUME NEW d \in Decision, Decide(s, d)
        PROVE  \E j \in Job : Begin(s, j) /\ j.at # "settling"
    <2>1. [at |-> "settle", by |-> "admin", to |-> d, todo |-> Open] \in Job
      BY DEF Job, Loop, Open
    <2> QED BY <1>3, <2>1 DEF Decide
  <1>4. ASSUME NEW status \in {"PUBLISHED", "CANCELLED"}, RequestUpdate(s, status)
        PROVE  \E j \in Job : Begin(s, j) /\ j.at # "settling"
    <2>1. [at |-> "update", seen |-> event, status |-> status] \in Job
      BY DEF Job, TypeOK, EventStatus
    <2> QED BY <1>4, <2>1 DEF RequestUpdate
  <1>5. CASE RequestDelete(s)
    BY <1>5 DEF RequestDelete, Job
  <1>6. CASE Sweep(s)
    <2>1. [at |-> "settle", by |-> "sweep", to |-> "RELEASED", todo |-> Held] \in Job
      BY DEF Job, Loop, Held, Decision
    <2> QED BY <1>6, <2>1 DEF Sweep
  <1>7. \E j \in Job : Begin(s, j) /\ j.at # "settling"
    BY <1>1, <1>2, <1>3, <1>4, <1>5, <1>6 DEF Request
  <1>8. UNCHANGED <<rows, wallets, clock, crashes>>
    BY DEF Request, RequestPay, RequestWaive, RequestReport, Decide, RequestUpdate,
           RequestDelete, Sweep
  <1> QED BY <1>7, <1>8

(* The rows, wallets and handlers stay in their sets. *)
THEOREM EscrowTypeCorrect == Spec => []TypeOK
  <1>1. Init => TypeOK
    BY EscrowAssumption
       DEF Init, TypeOK, EventStatus, SettlementStatus, ShareStatus, EscrowStatus, Job
  <1>2. TypeOK /\ [Next]_vars => TypeOK'
    <2> SUFFICES ASSUME TypeOK, [Next]_vars
                 PROVE  TypeOK'
      OBVIOUS
    <2>1. ASSUME NEW s \in Slots, Step(s)
          PROVE  TypeOK'
      BY <2>1, StepTyped
    <2>2. ASSUME NEW s \in Slots, Request(s)
          PROVE  TypeOK'
      <3>1. job' \in [Slots -> Job]
        BY <2>2, RequestBegins, BeginTyped DEF TypeOK
      <3> QED BY <2>2, <3>1, RequestBegins DEF TypeOK, rows, wallets
    <2>3. CASE Tick
      BY <2>3, EscrowAssumption DEF TypeOK, Tick, rows, wallets
    <2>4. CASE Crash
      BY <2>4, EscrowAssumption DEF TypeOK, Crash, rows, wallets, Job
    <2>5. CASE UNCHANGED vars
      BY <2>5 DEF TypeOK, vars
    <2> QED BY <2>1, <2>2, <2>3, <2>4, <2>5 DEF Next
  <1> QED BY <1>1, <1>2, PTL DEF Spec

(***************************************************************************)
(* The reservation of a wallet is its open escrow.  The invariant alone is *)
(* not inductive: SettleCommit moves the money of a row it claimed in an   *)
(* earlier step, so a row under settlement must still be open and have one *)
(* settler only; and PayShare trusts the share to say that no escrow of    *)
(* that share exists yet.                                                  *)
(***************************************************************************)
Settler(s) == job[s].at = "settling"
SettlingIsOpen == \A s \in Slots : Settler(s) => Reserved(job[s].of) = Amount
OneSettler ==
  \A s, t \in Slots : Settler(s) /\ Settler(t) /\ job[s].of = job[t].of => s = t
PendingIsUnpaid == \A p \in Payers : share[p] = "PENDING" => escrow[p] = "NONE"
EscrowInv ==
  TypeOK /\ SettlingIsOpen /\ OneSettler /\ PendingIsUnpaid /\ HeldIsOpenEscrow

(* A step that starts no settlement and leaves every reservation and the   *)
(* wallets alone keeps the invariant.                                      *)
NoNewSettler ==
  \A s \in Slots : job'[s].at = "settling" => job'[s] = job[s]

LEMMA ReservationsStay ==
  ASSUME EscrowInv, TypeOK', NoNewSettler, UNCHANGED wallets,
         \A p \in Payers : Reserved(p)' = Reserved(p),
         \A p \in Payers : share'[p] = "PENDING" => share[p] = "PENDING",
         \A p \in Payers : escrow[p] = "NONE" => escrow'[p] = "NONE"
  PROVE  EscrowInv'
  <1>1. SettlingIsOpen'
    <2> SUFFICES ASSUME NEW s \in Slots, job'[s].at = "settling"
                 PROVE  Reserved(job[s].of)' = Amount
      BY DEF SettlingIsOpen, Settler, NoNewSettler
    <2>1. Settler(s) /\ job'[s] = job[s]
      BY DEF NoNewSettler, Settler
    <2>2. job[s].of \in Payers
      BY <2>1, RunningJob DEF EscrowInv, TypeOK, Settler, At, Settling
    <2> QED BY <2>1, <2>2 DEF EscrowInv, SettlingIsOpen
  <1>2. OneSettler'
    BY DEF EscrowInv, OneSettler, Settler, NoNewSettler
  <1>3. PendingIsUnpaid'
    BY DEF EscrowInv, PendingIsUnpaid
  <1>4. HeldIsOpenEscrow'
    BY DEF EscrowInv, HeldIsOpenEscrow, wallets
  <1> QED BY <1>1, <1>2, <1>3, <1>4 DEF EscrowInv

LEMMA NotSettlingNext ==
  ASSUME job \in [Slots -> Job], NEW s \in Slots, NEW j, Continue(s, j) \/ Begin(s, j),
         j.at # "settling"
  PROVE  NoNewSettler
  BY DEF Continue, Begin, NoNewSettler

(* Reserving: the share is PENDING, so nothing was reserved for it before. *)
LEMMA PayShareKeeps ==
  ASSUME EscrowInv, TypeOK', NEW s \in Slots, PayShare(s)
  PROVE  EscrowInv'
  <1>1. PICK p \in Payers : p = job[s].who
    BY RunningJob DEF EscrowInv, TypeOK, PayShare
  <1>2. NoNewSettler
    BY NotSettlingNext DEF EscrowInv, TypeOK, PayShare, Return, Idle
  <1>3. CASE ~(Exists /\ share[p] = "PENDING" /\ Spendable(p) >= Amount)
    <2>1. UNCHANGED <<share, escrow, wallets>>
      BY <1>1, <1>3 DEF PayShare, wallets
    <2> QED BY <1>2, <2>1, ReservationsStay DEF Reserved, EscrowInv, TypeOK
  <1>4. CASE Exists /\ share[p] = "PENDING" /\ Spendable(p) >= Amount
    <2>1. /\ share' = [share EXCEPT ![p] = "PAID"]
          /\ escrow' = [escrow EXCEPT ![p] = "HELD"]
          /\ heldBalance' = [heldBalance EXCEPT ![p] = @ + Amount]
          /\ balance' = balance
      BY <1>1, <1>4 DEF PayShare, HoldShare
    <2>2. escrow[p] = "NONE" /\ heldBalance[p] = 0
      BY <1>1, <1>4 DEF EscrowInv, PendingIsUnpaid, HeldIsOpenEscrow, Reserved
    <2>3. \A q \in Payers : q # p => Reserved(q)' = Reserved(q)
      BY <1>1, <2>1 DEF Reserved, EscrowInv, TypeOK
    <2>4. Reserved(p)' = Amount
      BY <1>1, <2>1 DEF Reserved, EscrowInv, TypeOK
    <2>5. HeldIsOpenEscrow'
      <3> SUFFICES ASSUME NEW q \in Payers
                   PROVE  heldBalance'[q] = Reserved(q)' /\ heldBalance'[q] <= balance'[q]
        BY DEF HeldIsOpenEscrow
      <3>1. CASE q = p
        <4>1. heldBalance'[q] = Amount /\ balance[q] >= Amount
          BY <1>1, <1>4, <2>1, <2>2, <3>1, EscrowAssumption
             DEF EscrowInv, TypeOK, Spendable, Users
        <4> QED BY <2>1, <2>4, <3>1, <4>1, EscrowAssumption
      <3>2. CASE q # p
        BY <1>1, <2>1, <2>3, <3>2 DEF EscrowInv, TypeOK, HeldIsOpenEscrow
      <3> QED BY <3>1, <3>2
    <2>6. SettlingIsOpen'
      <3> SUFFICES ASSUME NEW t \in Slots, job'[t].at = "settling"
                   PROVE  Reserved(job[t].of)' = Amount
        BY DEF SettlingIsOpen, Settler
      <3>1. PICK q \in Payers : q = job[t].of
        BY <1>2, RunningJob DEF NoNewSettler, EscrowInv, TypeOK, At, Settling
      <3>2. Settler(t) /\ job'[t] = job[t]
        BY <1>2 DEF NoNewSettler, Settler
      <3>3. Reserved(q) = Amount
        BY <3>1, <3>2 DEF EscrowInv, SettlingIsOpen
      <3>4. Reserved(q)' = Amount
        BY <2>3, <2>4, <3>3
      <3> QED BY <3>1, <3>2, <3>4
    <2>7. OneSettler'
      BY <1>2 DEF EscrowInv, OneSettler, Settler, NoNewSettler
    <2>8. PendingIsUnpaid'
      BY <1>1, <2>1 DEF EscrowInv, TypeOK, PendingIsUnpaid
    <2> QED BY <2>5, <2>6, <2>7, <2>8 DEF EscrowInv
  <1> QED BY <1>3, <1>4

(* The claim: the row is open and nobody else settles it. *)
LEMMA SettleClaimKeeps ==
  ASSUME EscrowInv, TypeOK', NEW s \in Slots, NEW p \in Payers, SettleClaim(s, p)
  PROVE  EscrowInv'
  <1>1. /\ job'[s].at = "settling" /\ job'[s].of = p
        /\ \A t \in Slots : t # s => job'[t] = job[t]
    BY DEF EscrowInv, TypeOK, SettleClaim, Continue
  <1>2. UNCHANGED <<share, escrow, heldBalance, balance>>
    BY DEF SettleClaim, rows, wallets
  <1>3. \A q : Reserved(q)' = Reserved(q)
    BY <1>2 DEF Reserved
  <1>4. Reserved(p) = Amount
    BY DEF SettleClaim, Open, Reserved
  <1>5. SettlingIsOpen'
    <2> SUFFICES ASSUME NEW t \in Slots, job'[t].at = "settling"
                 PROVE  Reserved(job'[t].of) = Amount
      BY <1>3 DEF SettlingIsOpen, Settler
    <2> QED BY <1>1, <1>4 DEF EscrowInv, SettlingIsOpen, Settler
  <1>6. OneSettler'
    <2>1. \A t \in Slots : ~(Settler(t) /\ job[t].of = p)
      BY DEF SettleClaim, Locked, Settler
    <2> QED BY <1>1, <2>1 DEF EscrowInv, OneSettler, Settler
  <1>7. PendingIsUnpaid' /\ HeldIsOpenEscrow'
    BY <1>2, <1>3 DEF EscrowInv, PendingIsUnpaid, HeldIsOpenEscrow
  <1> QED BY <1>5, <1>6, <1>7 DEF EscrowInv

(* What a settlement finds and leaves. *)
LEMMA SettleCommitMoves ==
  ASSUME EscrowInv, NEW s \in Slots, SettleCommit(s)
  PROVE  LET p == job[s].of IN
         /\ p \in Payers /\ job[s].to \in Decision
         /\ escrow[p] \in {"HELD", "DISPUTED"}
         /\ heldBalance[p] = Amount /\ balance[p] >= Amount
         /\ Organizer # p /\ balance \in [Users -> Int] /\ p \in Users /\ Organizer \in Users
  <1>1. job[s] \in Settling
    BY RunningJob DEF EscrowInv, TypeOK, SettleCommit
  <1>2. job[s].of \in Payers /\ job[s].to \in Decision
    BY <1>1 DEF Settling
  <1>3. Reserved(job[s].of) = Amount
    BY DEF SettleCommit, At, EscrowInv, SettlingIsOpen, Settler
  <1>4. escrow[job[s].of] \in {"HELD", "DISPUTED"}
    BY <1>3, EscrowAssumption DEF Reserved
  <1>5. heldBalance[job[s].of] = Amount /\ balance[job[s].of] >= Amount
    BY <1>2, <1>3, EscrowAssumption DEF EscrowInv, HeldIsOpenEscrow, TypeOK, Users
  <1> QED BY <1>2, <1>4, <1>5, EscrowAssumption DEF Users, EscrowInv, TypeOK

LEMMA SettleCommitKeeps ==
  ASSUME EscrowInv, TypeOK', NEW s \in Slots, SettleCommit(s)
  PROVE  EscrowInv'
  <1>0. PICK p \in Payers : p = job[s].of
    BY SettleCommitMoves
  <1>1. /\ p \in Payers /\ job[s].to \in Decision
        /\ heldBalance[p] = Amount /\ balance[p] >= Amount /\ Organizer # p
    BY <1>0, SettleCommitMoves
  <1>2. /\ escrow' = [escrow EXCEPT ![p] = job[s].to]
        /\ heldBalance' = [heldBalance EXCEPT ![p] = @ - Amount]
        /\ share' = [share EXCEPT ![p] = IF job[s].to = "RELEASED" THEN "PAID" ELSE "REFUNDED"]
        /\ balance' = IF job[s].to = "RELEASED"
                        THEN [balance EXCEPT ![p] = @ - Amount, ![Organizer] = @ + Amount]
                        ELSE balance
    BY <1>0 DEF SettleCommit
  <1>3. NoNewSettler /\ job'[s].at # "settling"
    <2>1. PICK j : Continue(s, j) /\ j.at # "settling"
      BY DEF SettleCommit
    <2>2. NoNewSettler
      BY <2>1, NotSettlingNext DEF EscrowInv, TypeOK
    <2>3. job'[s].at # "settling"
      BY <2>1 DEF Continue, EscrowInv, TypeOK
    <2> QED BY <2>2, <2>3
  <1>4. \A q \in Payers : q # p => Reserved(q)' = Reserved(q)
    BY <1>1, <1>2 DEF Reserved, EscrowInv, TypeOK
  <1>5. Reserved(p)' = 0
    BY <1>1, <1>2 DEF Reserved, EscrowInv, TypeOK, Decision
  <1>6. \A q \in Payers : q # p => balance'[q] = balance[q]
    BY <1>1, <1>2, EscrowAssumption DEF EscrowInv, TypeOK, Users
  <1>7. balance'[p] >= 0
    BY <1>1, <1>2, EscrowAssumption DEF EscrowInv, TypeOK, Users
  <1>8. HeldIsOpenEscrow'
    <2> SUFFICES ASSUME NEW q \in Payers
                 PROVE  heldBalance'[q] = Reserved(q)' /\ heldBalance'[q] <= balance'[q]
      BY DEF HeldIsOpenEscrow
    <2>1. CASE q = p
      <3>1. heldBalance'[q] = 0
        BY <1>1, <1>2, <2>1, EscrowAssumption DEF EscrowInv, TypeOK
      <3> QED BY <1>5, <1>7, <2>1, <3>1
    <2>2. CASE q # p
      BY <1>1, <1>2, <1>4, <1>6, <2>2 DEF EscrowInv, TypeOK, HeldIsOpenEscrow
    <2> QED BY <2>1, <2>2
  <1>9. SettlingIsOpen'
    <2> SUFFICES ASSUME NEW t \in Slots, job'[t].at = "settling"
                 PROVE  Reserved(job[t].of)' = Amount
      BY DEF SettlingIsOpen, Settler
    <2>1. Settler(t) /\ t # s /\ job'[t] = job[t]
      BY <1>3 DEF NoNewSettler, Settler
    <2>2. PICK q \in Payers : q = job[t].of
      BY <2>1, RunningJob DEF Settler, EscrowInv, TypeOK, At, Settling
    <2>3. q # p
      BY <1>0, <2>1, <2>2 DEF EscrowInv, OneSettler, Settler, SettleCommit, At
    <2>4. Reserved(q) = Amount
      BY <2>1, <2>2 DEF EscrowInv, SettlingIsOpen
    <2>5. Reserved(q)' = Amount
      BY <1>4, <2>3, <2>4
    <2> QED BY <2>1, <2>2, <2>5
  <1>10. OneSettler'
    BY <1>3 DEF EscrowInv, OneSettler, Settler, NoNewSettler
  <1>11. PendingIsUnpaid'
    BY <1>1, <1>2 DEF EscrowInv, TypeOK, PendingIsUnpaid
  <1> QED BY <1>8, <1>9, <1>10, <1>11 DEF EscrowInv

(* A freeze changes the status of held rows, never a reservation. *)
LEMMA FileReportKeeps ==
  ASSUME EscrowInv, TypeOK', NEW s \in Slots, FileReport(s)
  PROVE  EscrowInv'
  <1>1. PICK p \in Payers : p = job[s].who
    BY RunningJob DEF EscrowInv, TypeOK, FileReport
  <1>2. UNCHANGED <<share, wallets>>
    BY DEF FileReport
  <1>3. NoNewSettler
    <2>1. PICK j : Continue(s, j) /\ j.at # "settling"
      BY DEF FileReport, Return, Idle
    <2> QED BY <2>1, NotSettlingNext DEF EscrowInv, TypeOK
  <1>4. escrow' = escrow \/ (p \in Held /\ escrow' = [escrow EXCEPT ![p] = "DISPUTED"])
    BY <1>1 DEF FileReport, FreezeForReport
  <1>5. /\ \A q \in Payers : Reserved(q)' = Reserved(q)
        /\ \A q \in Payers : escrow[q] = "NONE" => escrow'[q] = "NONE"
    BY <1>4 DEF Held, Reserved, EscrowInv, TypeOK
  <1> QED BY <1>2, <1>3, <1>5, ReservationsStay

LEMMA FreezeAllKeeps ==
  ASSUME EscrowInv, TypeOK', NEW s \in Slots, FreezeAll(s)
  PROVE  EscrowInv'
  <1>1. NoNewSettler
    <2>1. PICK j : Continue(s, j) /\ j.at # "settling"
      BY DEF FreezeAll, Idle
    <2> QED BY <2>1, NotSettlingNext DEF EscrowInv, TypeOK
  <1>2. /\ \A q \in Payers : Reserved(q)' = Reserved(q)
        /\ \A q \in Payers : escrow[q] = "NONE" => escrow'[q] = "NONE"
    BY DEF FreezeAll, Held, Reserved
  <1> QED BY <1>1, <1>2, ReservationsStay DEF FreezeAll

(* The rest of the handlers: no escrow, no wallet. *)
LEMMA OtherStepsKeep ==
  ASSUME EscrowInv, TypeOK', NEW s \in Slots,
         \/ WaiveShare(s) \/ CloseReports(s) \/ FlagDispute(s)
         \/ UpdateEvent(s) \/ ListRefunds(s) \/ DeleteEvent(s)
         \/ SettleDone(s) \/ \E p \in Payers : SettleSkip(s, p)
  PROVE  EscrowInv'
  <1>1. UNCHANGED <<escrow, wallets>>
    BY DEF WaiveShare, CloseReports, FlagDispute, UpdateEvent, ListRefunds, DeleteEvent,
           SettleDone, SettleSkip, rows
  <1>2. \A q \in Payers : share'[q] = "PENDING" => share[q] = "PENDING"
    <2>1. CASE WaiveShare(s)
      BY <2>1 DEF WaiveShare, EscrowInv, TypeOK
    <2>2. CASE ~WaiveShare(s)
      BY <2>2 DEF CloseReports, FlagDispute, UpdateEvent, ListRefunds, DeleteEvent,
                  SettleDone, SettleSkip, rows
    <2> QED BY <2>1, <2>2
  <1>3. NoNewSettler
    <2>1. ASSUME NEW p \in Payers, SettleSkip(s, p)
          PROVE  NoNewSettler
      <3>1. job[s] \in Loop
        BY <2>1, RunningJob DEF EscrowInv, TypeOK, SettleSkip
      <3>2. PICK j : Continue(s, j) /\ j.at # "settling"
        BY <2>1, <3>1 DEF SettleSkip, Loop
      <3> QED BY <3>2, NotSettlingNext DEF EscrowInv, TypeOK
    <2>2. CASE WaiveShare(s) \/ CloseReports(s) \/ FlagDispute(s) \/ UpdateEvent(s)
               \/ ListRefunds(s) \/ DeleteEvent(s) \/ SettleDone(s)
      <3>1. PICK j : Continue(s, j) /\ j.at # "settling"
        BY <2>2 DEF WaiveShare, CloseReports, FlagDispute, UpdateEvent, ListRefunds,
                    DeleteEvent, SettleDone, Return, Idle
      <3> QED BY <3>1, NotSettlingNext DEF EscrowInv, TypeOK
    <2> QED BY <2>1, <2>2
  <1>4. \A q \in Payers : Reserved(q)' = Reserved(q)
    BY <1>1 DEF Reserved
  <1> QED BY <1>1, <1>2, <1>3, <1>4, ReservationsStay

LEMMA EscrowInvInit == Init => EscrowInv
  <1> SUFFICES ASSUME Init
               PROVE  EscrowInv
    OBVIOUS
  <1>1. TypeOK
    BY EscrowAssumption
       DEF Init, TypeOK, EventStatus, SettlementStatus, ShareStatus, EscrowStatus, Job
  <1>2. \A s \in Slots : ~Settler(s)
    BY DEF Init, Idle, Settler
  <1>3. HeldIsOpenEscrow
    <2> SUFFICES ASSUME NEW p \in Payers
                 PROVE  heldBalance[p] = Reserved(p) /\ heldBalance[p] <= balance[p]
      BY DEF HeldIsOpenEscrow
    <2>1. heldBalance[p] = 0 /\ escrow[p] = "NONE"
      BY DEF Init
    <2>2. balance[p] \in 0..Funds
      BY DEF Init, Users
    <2> QED BY <2>1, <2>2, EscrowAssumption DEF Reserved
  <1>4. PendingIsUnpaid
    BY DEF Init, PendingIsUnpaid
  <1> QED BY <1>1, <1>2, <1>3, <1>4 DEF EscrowInv, SettlingIsOpen, OneSettler

LEMMA EscrowInvStep == EscrowInv /\ TypeOK' /\ [Next]_vars => EscrowInv'
  <1> SUFFICES ASSUME EscrowInv, TypeOK', [Next]_vars
               PROVE  EscrowInv'
    OBVIOUS
  <1>1. ASSUME NEW s \in Slots, Step(s)
        PROVE  EscrowInv'
    <2>1. CASE PayShare(s)
      BY <2>1, PayShareKeeps
    <2>2. CASE \E p \in Payers : SettleClaim(s, p)
      BY <2>2, SettleClaimKeeps
    <2>3. CASE SettleCommit(s)
      BY <2>3, SettleCommitKeeps
    <2>4. CASE FileReport(s)
      BY <2>4, FileReportKeeps
    <2>5. CASE FreezeAll(s)
      BY <2>5, FreezeAllKeeps
    <2>6. CASE \/ WaiveShare(s) \/ CloseReports(s) \/ FlagDispute(s)
               \/ UpdateEvent(s) \/ ListRefunds(s) \/ DeleteEvent(s)
               \/ SettleDone(s) \/ \E p \in Payers : SettleSkip(s, p)
      BY <2>6, OtherStepsKeep
    <2> QED BY <1>1, <2>1, <2>2, <2>3, <2>4, <2>5, <2>6 DEF Step, Settle
  <1>2. ASSUME NEW s \in Slots, Request(s)
        PROVE  EscrowInv'
    <2>1. UNCHANGED <<share, escrow, wallets>>
      BY <1>2, RequestBegins DEF EscrowInv, rows
    <2>2. NoNewSettler
      <3>1. PICK j \in Job : Begin(s, j) /\ j.at # "settling"
        BY <1>2, RequestBegins DEF EscrowInv
      <3> QED BY <3>1, NotSettlingNext DEF EscrowInv, TypeOK
    <2> QED BY <2>1, <2>2, ReservationsStay DEF Reserved
  <1>3. CASE Tick
    <2>1. UNCHANGED <<share, escrow, wallets, job>>
      BY <1>3 DEF Tick, rows
    <2> QED BY <2>1, ReservationsStay DEF Reserved, NoNewSettler
  <1>4. CASE Crash
    <2>1. UNCHANGED <<share, escrow, wallets>> /\ NoNewSettler
      BY <1>4 DEF Crash, rows, NoNewSettler, Idle
    <2> QED BY <2>1, ReservationsStay DEF Reserved
  <1>5. CASE UNCHANGED vars
    <2>1. UNCHANGED <<share, escrow, wallets, job>>
      BY <1>5 DEF vars, wallets
    <2> QED BY <2>1, ReservationsStay DEF Reserved, NoNewSettler
  <1> QED BY <1>1, <1>2, <1>3, <1>4, <1>5 DEF Next

LEMMA EscrowInvAlways == Spec => []EscrowInv
  <1>1. EscrowInv /\ TypeOK' /\ [Next]_vars => EscrowInv'
    BY EscrowInvStep
  <1> QED BY <1>1, EscrowInvInit, EscrowTypeCorrect, PTL DEF Spec

(* Whatever settles, freezes, cancels, deletes or restarts at the same     *)
(* time, a wallet's heldBalance is the open escrow of its owner, and it is *)
(* covered by the wallet's balance.                                        *)
THEOREM HeldIsExact == Spec => []HeldIsOpenEscrow
  <1>1. EscrowInv => HeldIsOpenEscrow
    BY DEF EscrowInv
  <1> QED BY <1>1, EscrowInvAlways, PTL

(***************************************************************************)
(* The share tells what became of the fee.                                 *)
(***************************************************************************)

LEMMA FreezesHolds ==
  ASSUME EscrowInv, NEW s \in Slots, FileReport(s) \/ FreezeAll(s)
  PROVE  \A p \in Payers : escrow'[p] = escrow[p] \/ (escrow[p] = "HELD" /\ escrow'[p] = "DISPUTED")
  <1>1. CASE FileReport(s)
    <2>1. PICK p \in Payers : p = job[s].who
      BY <1>1, RunningJob DEF EscrowInv, TypeOK, FileReport
    <2>2. escrow' = escrow \/ (p \in Held /\ escrow' = [escrow EXCEPT ![p] = "DISPUTED"])
      BY <1>1, <2>1 DEF FileReport, FreezeForReport
    <2> QED BY <2>2 DEF Held, EscrowInv, TypeOK
  <1>2. CASE FreezeAll(s)
    BY <1>2 DEF FreezeAll, Held
  <1> QED BY <1>1, <1>2

(* What a step may do to the two columns of one attendee. *)
LEMMA OutcomeStep ==
  ASSUME EscrowInv, NEW p \in Payers, [Next]_vars
  PROVE  \/ share'[p] = share[p] /\ escrow'[p] = escrow[p]
         \/ share'[p] = share[p] /\ escrow[p] = "HELD" /\ escrow'[p] = "DISPUTED"
         \/ share'[p] = "WAIVED" /\ escrow'[p] = escrow[p]
         \/ share'[p] = "PAID" /\ escrow'[p] \in {"HELD", "RELEASED"}
         \/ share'[p] = "REFUNDED" /\ escrow'[p] = "REFUNDED"
  <1> DEFINE Columns == \/ share'[p] = share[p] /\ escrow'[p] = escrow[p]
                        \/ share'[p] = share[p] /\ escrow[p] = "HELD" /\ escrow'[p] = "DISPUTED"
                        \/ share'[p] = "WAIVED" /\ escrow'[p] = escrow[p]
                        \/ share'[p] = "PAID" /\ escrow'[p] \in {"HELD", "RELEASED"}
                        \/ share'[p] = "REFUNDED" /\ escrow'[p] = "REFUNDED"
  <1>1. CASE UNCHANGED <<share, escrow>>
    BY <1>1
  <1>2. ASSUME NEW s \in Slots, Step(s)
        PROVE  Columns
    <2>1. CASE PayShare(s)
      BY <2>1 DEF PayShare, HoldShare, EscrowInv, TypeOK
    <2>2. CASE WaiveShare(s)
      BY <2>2 DEF WaiveShare, EscrowInv, TypeOK
    <2>3. CASE SettleCommit(s)
      <3>1. job[s].to \in Decision
        BY <2>3, SettleCommitMoves
      <3> QED BY <2>3, <3>1 DEF SettleCommit, EscrowInv, TypeOK, Decision
    <2>4. CASE FileReport(s) \/ FreezeAll(s)
      BY <2>4, FreezesHolds DEF FileReport, FreezeAll
    <2>5. CASE \/ CloseReports(s) \/ FlagDispute(s) \/ UpdateEvent(s) \/ ListRefunds(s)
               \/ DeleteEvent(s) \/ SettleDone(s)
               \/ \E q \in Payers : SettleClaim(s, q) \/ SettleSkip(s, q)
      <3>1. UNCHANGED <<share, escrow>>
        BY <2>5 DEF CloseReports, FlagDispute, UpdateEvent, ListRefunds, DeleteEvent,
                    SettleDone, SettleClaim, SettleSkip, rows
      <3> QED BY <1>1, <3>1
    <2> QED BY <1>2, <2>1, <2>2, <2>3, <2>4, <2>5 DEF Step, Settle
  <1>3. CASE (\E s \in Slots : Request(s)) \/ Tick \/ Crash \/ UNCHANGED vars
    <2>1. UNCHANGED <<share, escrow>>
      BY <1>3, RequestBegins DEF EscrowInv, Tick, Crash, rows, vars
    <2> QED BY <1>1, <2>1
  <1> QED BY <1>2, <1>3 DEF Next

(* A PAID share has its fee held or handed over, a REFUNDED one has it     *)
(* back, a PENDING one never paid, though waivers, reports, sweeps,        *)
(* decisions and cancellations write the two rows apart.                   *)
THEOREM SharesTellOutcome == Spec => []ShareTellsOutcome
  <1>1. Init => ShareTellsOutcome
    BY DEF Init, ShareTellsOutcome
  <1>2. EscrowInv /\ ShareTellsOutcome /\ [Next]_vars => ShareTellsOutcome'
    <2> SUFFICES ASSUME EscrowInv, ShareTellsOutcome, [Next]_vars, NEW p \in Payers
                 PROVE  /\ share'[p] = "PAID" => escrow'[p] \in {"HELD", "DISPUTED", "RELEASED"}
                        /\ share'[p] = "REFUNDED" => escrow'[p] = "REFUNDED"
                        /\ share'[p] = "PENDING" => escrow'[p] = "NONE"
      BY DEF ShareTellsOutcome
    <2> QED BY OutcomeStep DEF ShareTellsOutcome
  <1> QED BY <1>1, <1>2, EscrowInvAlways, PTL DEF Spec

(***************************************************************************)
(* The escrow implements FeePromise.                                       *)
(***************************************************************************)

LEMMA PlaceValues ==
  /\ Place("NONE") = "unpaid"
  /\ Place("HELD") = "reserved"
  /\ Place("DISPUTED") = "reserved"
  /\ Place("RELEASED") = "handed over"
  /\ Place("REFUNDED") = "given back"
  BY Zenon DEF Place

LEMMA PlacesStay ==
  ASSUME balance' = balance, \A p \in Payers : Place(escrow'[p]) = Place(escrow[p])
  PROVE  UNCHANGED Fees!promise
  BY DEF Fees!promise

LEMMA PayShareReserves ==
  ASSUME EscrowInv, NEW s \in Slots, PayShare(s)
  PROVE  Fees!PromiseNext \/ UNCHANGED Fees!promise
  <1>1. PICK p \in Payers : p = job[s].who
    BY RunningJob DEF EscrowInv, TypeOK, PayShare
  <1>2. CASE ~(Exists /\ share[p] = "PENDING" /\ Spendable(p) >= Amount)
    <2>1. escrow' = escrow /\ balance' = balance
      BY <1>1, <1>2 DEF PayShare
    <2> QED BY <2>1, PlacesStay
  <1>3. CASE Exists /\ share[p] = "PENDING" /\ Spendable(p) >= Amount
    <2>1. escrow' = [escrow EXCEPT ![p] = "HELD"] /\ balance' = balance
      BY <1>1, <1>3 DEF PayShare, HoldShare
    <2>2. escrow[p] = "NONE" /\ heldBalance[p] = 0
      BY <1>1, <1>3 DEF EscrowInv, PendingIsUnpaid, HeldIsOpenEscrow, Reserved
    <2>3. balance[p] >= Amount
      BY <1>3, <2>2, EscrowAssumption DEF Spendable, EscrowInv, TypeOK, Users
    <2>4. [q \in Payers |-> Place(escrow'[q])]
            = [[q \in Payers |-> Place(escrow[q])] EXCEPT ![p] = "reserved"]
      BY <2>1, PlaceValues DEF EscrowInv, TypeOK
    <2>5. Fees!Reserve(p)
      BY <2>1, <2>2, <2>3, <2>4, PlaceValues DEF Fees!Reserve
    <2> QED BY <2>5 DEF Fees!PromiseNext
  <1> QED BY <1>2, <1>3

LEMMA SettleCommitDecides ==
  ASSUME EscrowInv, NEW s \in Slots, SettleCommit(s)
  PROVE  Fees!PromiseNext
  <1>1. PICK p \in Payers : p = job[s].of
    BY SettleCommitMoves
  <1>2. /\ job[s].to \in Decision /\ escrow[p] \in {"HELD", "DISPUTED"}
        /\ balance[p] >= Amount
    BY <1>1, SettleCommitMoves
  <1>3. /\ escrow' = [escrow EXCEPT ![p] = job[s].to]
        /\ balance' = IF job[s].to = "RELEASED"
                        THEN [balance EXCEPT ![p] = @ - Amount, ![Organizer] = @ + Amount]
                        ELSE balance
    BY <1>1 DEF SettleCommit
  <1>4. Place(escrow[p]) = "reserved"
    BY <1>2, PlaceValues
  <1>5. [q \in Payers |-> Place(escrow'[q])]
          = [[q \in Payers |-> Place(escrow[q])] EXCEPT ![p] = Place(job[s].to)]
    BY <1>3 DEF EscrowInv, TypeOK
  <1>6. CASE job[s].to = "RELEASED"
    <2>1. Fees!HandOver(p)
      BY <1>2, <1>3, <1>4, <1>5, <1>6, PlaceValues DEF Fees!HandOver
    <2> QED BY <2>1 DEF Fees!PromiseNext
  <1>7. CASE job[s].to = "REFUNDED"
    <2>1. Fees!GiveBack(p)
      BY <1>3, <1>4, <1>5, <1>7, PlaceValues DEF Fees!GiveBack
    <2> QED BY <2>1 DEF Fees!PromiseNext
  <1> QED BY <1>2, <1>6, <1>7 DEF Decision

LEMMA FreezeKeepsPlaces ==
  ASSUME EscrowInv, NEW s \in Slots, FileReport(s) \/ FreezeAll(s)
  PROVE  UNCHANGED Fees!promise
  <1>1. balance' = balance
    BY DEF FileReport, FreezeAll, wallets
  <1> QED BY <1>1, FreezesHolds, PlaceValues, PlacesStay

(* Rows and wallets move together: every step of the handlers is one of    *)
(* reserving, handing over and giving back a fee, once each, or moves      *)
(* nothing ("nothing created, nothing destroyed").                         *)
THEOREM EscrowKeepsFeePromise == Spec => KeepsFeePromise
  <1>1. Init => Fees!PromiseInit
    BY PlaceValues DEF Init, Fees!PromiseInit
  <1>2. EscrowInv /\ [Next]_vars => [Fees!PromiseNext]_(Fees!promise)
    <2> SUFFICES ASSUME EscrowInv, [Next]_vars
                 PROVE  Fees!PromiseNext \/ UNCHANGED Fees!promise
      OBVIOUS
    <2>1. ASSUME escrow' = escrow, balance' = balance
          PROVE  UNCHANGED Fees!promise
      BY <2>1, PlacesStay
    <2>2. ASSUME NEW s \in Slots, Step(s)
          PROVE  Fees!PromiseNext \/ UNCHANGED Fees!promise
      <3>1. CASE PayShare(s)
        BY <3>1, PayShareReserves
      <3>2. CASE SettleCommit(s)
        BY <3>2, SettleCommitDecides
      <3>3. CASE FileReport(s) \/ FreezeAll(s)
        BY <3>3, FreezeKeepsPlaces
      <3>4. CASE \/ WaiveShare(s) \/ CloseReports(s) \/ FlagDispute(s)
                 \/ UpdateEvent(s) \/ ListRefunds(s) \/ DeleteEvent(s) \/ SettleDone(s)
                 \/ \E p \in Payers : SettleClaim(s, p) \/ SettleSkip(s, p)
        <4>1. escrow' = escrow /\ balance' = balance
          BY <3>4 DEF WaiveShare, CloseReports, FlagDispute, UpdateEvent, ListRefunds,
                      DeleteEvent, SettleDone, SettleClaim, SettleSkip, rows, wallets
        <4> QED BY <2>1, <4>1
      <3> QED BY <2>2, <3>1, <3>2, <3>3, <3>4 DEF Step, Settle
    <2>3. ASSUME NEW s \in Slots, Request(s)
          PROVE  UNCHANGED Fees!promise
      <3>1. escrow' = escrow /\ balance' = balance
        BY <2>3, RequestBegins DEF EscrowInv, rows, wallets
      <3> QED BY <2>1, <3>1
    <2>4. CASE Tick \/ Crash \/ UNCHANGED vars
      <3>1. escrow' = escrow /\ balance' = balance
        BY <2>4 DEF Tick, Crash, rows, wallets, vars
      <3> QED BY <2>1, <3>1
    <2> QED BY <2>2, <2>3, <2>4 DEF Next
  <1> QED BY <1>1, <1>2, EscrowInvAlways, PTL DEF Spec, KeepsFeePromise, Fees!Promise
=============================================================================
