------------------------ MODULE Subscriptions_proofs ------------------------
(***************************************************************************)
(* Theorems about subscriptions for every number of subscriptions, plans,  *)
(* periods, handlers in flight and restarts, and for any money.            *)
(***************************************************************************)
EXTENDS SubscriptionPromise, NaturalsInduction, WellFoundedInduction, TLAPS

(***************************************************************************)
(* The latest and the first of a set of numbers.                           *)
(***************************************************************************)

LEMMA LeastExists ==
  ASSUME NEW S \in SUBSET Nat, S # {}
  PROVE  \E i \in S : \A k \in S : i <= k
  <1>1. PICK i \in S : \A k \in S : ~(<<k, i>> \in OpToRel(<, Nat))
    BY NatLessThanWellFounded, WFMin
  <1>2. \A k \in S : ~(k < i)
    BY <1>1 DEF OpToRel
  <1>3. \A k \in S : k \in Nat
    OBVIOUS
  <1>4. \A k \in S : i <= k
    BY <1>2, <1>3
  <1> QED BY <1>4

LEMMA MinIsIn ==
  ASSUME NEW S \in SUBSET Nat, S # {}
  PROVE  Min(S) \in S
  <1>1. \E i \in S : \A k \in S : i <= k
    BY LeastExists
  <1> QED BY <1>1 DEF Min

LEMMA MaxIsIn ==
  ASSUME NEW n \in Nat, NEW S \in SUBSET (0..n), S # {}
  PROVE  Max(S) \in S
  <1> DEFINE T == {n - i : i \in S}
  <1>1. T \in SUBSET Nat /\ T # {}
    <2>1. \A i \in S : i \in 0..n
      OBVIOUS
    <2>2. \A i \in S : n - i \in Nat
      BY <2>1
    <2> QED BY <2>2
  <1>2. PICK d \in T : \A k \in T : d <= k
    BY <1>1, LeastExists
  <1>3. PICK i \in S : d = n - i
    BY <1>2
  <1>4. \A k \in S : n - k \in T
    OBVIOUS
  <1>5. \A k \in S : n - i <= n - k
    BY <1>2, <1>3, <1>4
  <1>6. \A k \in S : k <= i
    BY <1>5
  <1> QED BY <1>6 DEF Max

(***************************************************************************)
(* Type correctness.  Besides its type, a handler is of a subscription     *)
(* that exists, and what a sweep has read was due.                         *)
(***************************************************************************)

Listed(r, rows, time) == \A m \in DOMAIN r : r[m] <= time /\ rows[m] # NoSub
OfASub == {"debit", "request", "verify", "mark", "activate", "cancel", "supersede", "change"}
OfASweep == {"debit", "request", "mark", "activate", "access", "extend", "sweep"}
GoodJob(j, rows, time) ==
  /\ j \in Job
  /\ j.at \in OfASub => rows[j.sub] # NoSub
  /\ j.at \in OfASweep => Listed(j.rest, rows, time)

Typed ==
  /\ TypeOK
  /\ \A s \in Slots : GoodJob(job[s], sub, now)
  /\ \A n \in Subs : payment[n] # NoPayment => sub[n] # NoSub

LEMMA IdleGood ==
  ASSUME NEW rows, NEW time
  PROVE  GoodJob(Idle, rows, time) /\ Idle.at = "idle"
  BY DEF GoodJob, Job, Idle, OfASub, OfASweep

LEMMA NoneListed ==
  ASSUME NEW rows, NEW time
  PROVE  None \in Batches /\ Listed(None, rows, time)
  <1>1. None \in [{} -> Ends]
    BY DEF None
  <1> QED BY <1>1 DEF None, Batches, Listed

LEMMA SweepGood ==
  ASSUME NEW rows, NEW time, NEW r \in Batches, Listed(r, rows, time)
  PROVE  /\ GoodJob([at |-> "sweep", rest |-> r], rows, time)
         /\ GoodJob(IF DOMAIN r = {} THEN Idle ELSE [at |-> "sweep", rest |-> r], rows, time)
  <1>1. GoodJob([at |-> "sweep", rest |-> r], rows, time)
    BY DEF GoodJob, Job, OfASub, OfASweep
  <1> QED BY <1>1, IdleGood

LEMMA CollectGood ==
  ASSUME NEW rows, NEW time, NEW n \in Subs, rows[n] # NoSub, NEW e \in Ends, NEW b \in BOOLEAN,
         NEW r \in Batches, Listed(r, rows, time)
  PROVE  /\ GoodJob([at |-> "debit", sub |-> n, end |-> e, renews |-> b, rest |-> r], rows, time)
         /\ GoodJob([at |-> "request", sub |-> n, end |-> e, renews |-> b, rest |-> r], rows, time)
         /\ GoodJob([at |-> "mark", sub |-> n, rest |-> r], rows, time)
         /\ GoodJob([at |-> "activate", sub |-> n, end |-> e, rest |-> r], rows, time)
  BY DEF GoodJob, Job, OfASub, OfASweep

LEMMA AccessGood ==
  ASSUME NEW rows, NEW time, NEW e \in Ends, NEW r \in Batches, Listed(r, rows, time)
  PROVE  /\ GoodJob([at |-> "access", end |-> e, rest |-> r], rows, time)
         /\ GoodJob([at |-> "extend", end |-> e, rest |-> r], rows, time)
         /\ GoodJob([at |-> "window", end |-> e], rows, time)
  BY DEF GoodJob, Job, OfASub, OfASweep

LEMMA PersonGood ==
  ASSUME NEW rows, NEW time, NEW n \in Subs, rows[n] # NoSub, NEW e \in Ends, NEW p \in Plans
  PROVE  /\ GoodJob([at |-> "create", plan |-> p], rows, time)
         /\ GoodJob([at |-> "verify", sub |-> n, end |-> e], rows, time)
         /\ GoodJob([at |-> "cancel", sub |-> n], rows, time)
         /\ GoodJob([at |-> "supersede", sub |-> n], rows, time)
         /\ GoodJob([at |-> "change", sub |-> n, plan |-> p], rows, time)
  BY DEF GoodJob, Job, OfASub, OfASweep

(* A job stays good while time passes and rows stay. *)
LEMMA GoodStays ==
  ASSUME NEW j, NEW rows, NEW later, NEW time \in Nat, NEW t \in Nat, time <= t,
         GoodJob(j, rows, time), \A n \in Subs : rows[n] # NoSub => later[n] # NoSub
  PROVE  GoodJob(j, later, t)
  <1>1. j.at \in OfASub => j.sub \in Subs
    BY DEF GoodJob, Job, OfASub, Idle
  <1>2. j.at \in OfASweep => j.rest \in Batches
    BY DEF GoodJob, Job, OfASweep, Idle
  <1>3. \A r \in Batches : DOMAIN r \subseteq Subs /\ \A m \in DOMAIN r : r[m] \in Nat
    BY SubscriptionAssumption DEF Batches, Ends
  <1> QED BY <1>1, <1>2, <1>3 DEF GoodJob, Listed

(* What a running handler carries. *)
LEMMA RunningJob ==
  ASSUME Typed, NEW s \in Slots
  PROVE  /\ At(s, "create") => job[s].plan \in Plans
         /\ At(s, "debit") \/ At(s, "request") =>
              /\ job[s] = [at |-> job[s].at, sub |-> job[s].sub, end |-> job[s].end,
                           renews |-> job[s].renews, rest |-> job[s].rest]
              /\ job[s].renews \in BOOLEAN
         /\ At(s, "debit") \/ At(s, "request") \/ At(s, "activate") \/ At(s, "verify") =>
              job[s].sub \in Subs /\ job[s].end \in Ends
         /\ At(s, "mark") \/ At(s, "cancel") \/ At(s, "supersede") => job[s].sub \in Subs
         /\ At(s, "change") => job[s].sub \in Subs /\ job[s].plan \in Plans
         /\ At(s, "access") \/ At(s, "extend") =>
              /\ job[s] = [at |-> job[s].at, end |-> job[s].end, rest |-> job[s].rest]
              /\ job[s].end \in Ends
         /\ At(s, "window") => job[s].end \in Ends
         /\ job[s].at \in OfASub => sub[job[s].sub] # NoSub
         /\ job[s].at \in OfASweep => job[s].rest \in Batches /\ Listed(job[s].rest, sub, now)
  <1>1. GoodJob(job[s], sub, now)
    BY DEF Typed
  <1>2. \/ job[s] = Idle
        \/ job[s] \in [at : {"create"}, plan : Plans]
        \/ job[s] \in [at : {"debit", "request"}, sub : Subs, end : Ends, renews : BOOLEAN, rest : Batches]
        \/ job[s] \in [at : {"verify"}, sub : Subs, end : Ends]
        \/ job[s] \in [at : {"mark"}, sub : Subs, rest : Batches]
        \/ job[s] \in [at : {"activate"}, sub : Subs, end : Ends, rest : Batches]
        \/ job[s] \in [at : {"access", "extend"}, end : Ends, rest : Batches]
        \/ job[s] \in [at : {"sweep"}, rest : Batches]
        \/ job[s] \in [at : {"cancel", "supersede"}, sub : Subs]
        \/ job[s] \in [at : {"change"}, sub : Subs, plan : Plans]
        \/ job[s] \in [at : {"window"}, end : Ends]
    BY <1>1 DEF GoodJob, Job
  <1>3. job[s].at \in OfASweep => job[s].rest \in Batches
    BY <1>2, IdleGood DEF OfASweep
  <1>4. /\ At(s, "create") => job[s].plan \in Plans
        /\ At(s, "debit") \/ At(s, "request") =>
             /\ job[s] = [at |-> job[s].at, sub |-> job[s].sub, end |-> job[s].end,
                          renews |-> job[s].renews, rest |-> job[s].rest]
             /\ job[s].renews \in BOOLEAN
    BY <1>2, IdleGood DEF At
  <1>5. /\ At(s, "debit") \/ At(s, "request") \/ At(s, "activate") \/ At(s, "verify") =>
              job[s].sub \in Subs /\ job[s].end \in Ends
        /\ At(s, "mark") \/ At(s, "cancel") \/ At(s, "supersede") => job[s].sub \in Subs
        /\ At(s, "change") => job[s].sub \in Subs /\ job[s].plan \in Plans
    BY <1>2, IdleGood DEF At
  <1>6. /\ At(s, "access") \/ At(s, "extend") =>
             /\ job[s] = [at |-> job[s].at, end |-> job[s].end, rest |-> job[s].rest]
             /\ job[s].end \in Ends
        /\ At(s, "window") => job[s].end \in Ends
    BY <1>2, IdleGood DEF At
  <1> QED BY <1>1, <1>3, <1>4, <1>5, <1>6 DEF GoodJob

LEMMA AddFundsEffect ==
  ASSUME AddFunds
  PROVE  balance' = balance + 1 /\ UNCHANGED <<sub, payment, accessUntil, now, job, paid, windows, late, restarts>>
  BY DEF AddFunds
(***************************************************************************)
(* Rows.                                                                   *)
(***************************************************************************)

LEMMA SubFields ==
  ASSUME NEW r \in Sub, r # NoSub
  PROVE  r \in [plan : Plans, status : SubStatus, autoRenew : BOOLEAN, next : {NoBilling} \cup Ends]
  BY DEF Sub

LEMMA SubRecord ==
  ASSUME NEW r \in [plan : Plans, status : SubStatus, autoRenew : BOOLEAN, next : {NoBilling} \cup Ends]
  PROVE  r \in Sub /\ r # NoSub
  BY DEF Sub, SubStatus, NoSub

LEMMA WithExists ==
  ASSUME NEW S, "NONE" \notin S, NEW n \in With(S)
  PROVE  n \in Subs /\ sub[n] # NoSub
  BY DEF With, NoSub

LEMMA NoneMissing ==
  ASSUME TypeOK, NEW n \in With({"NONE"})
  PROVE  n \in Subs /\ sub[n] = NoSub
  BY SubFields DEF With, TypeOK, SubStatus

LEMMA SubWritten ==
  ASSUME TypeOK, NEW n \in Subs, NEW r \in Sub, r # NoSub, sub' = [sub EXCEPT ![n] = r]
  PROVE  /\ sub' \in [Subs -> Sub] /\ sub'[n] = r
         /\ \A m \in Subs : sub[m] # NoSub => sub'[m] # NoSub
  BY DEF TypeOK

LEMMA PaymentFields ==
  ASSUME NEW r \in Payment, r # NoPayment
  PROVE  r \in [status : PaymentStatus, end : Ends]
  BY DEF Payment

LEMMA PaymentRecord ==
  ASSUME NEW r \in [status : PaymentStatus, end : Ends]
  PROVE  r \in Payment /\ r # NoPayment
  BY DEF Payment, PaymentStatus, NoPayment

LEMMA AwaitedExists ==
  ASSUME TypeOK, NEW n \in Subs, Awaited(n)
  PROVE  payment[n] # NoPayment /\ payment[n] \in [status : PaymentStatus, end : Ends]
  <1>1. payment[n] # NoPayment
    BY DEF Awaited, NoPayment
  <1> QED BY <1>1, PaymentFields DEF TypeOK

(* A change of a payment's status. *)
LEMMA PaymentMarked ==
  ASSUME TypeOK, NEW n \in Subs, payment[n] # NoPayment, NEW status \in PaymentStatus,
         payment' = [payment EXCEPT ![n].status = status]
  PROVE  /\ payment' \in [Subs -> Payment]
         /\ payment'[n].status = status /\ payment'[n].end = payment[n].end
         /\ \A m \in Subs : payment'[m] # NoPayment => payment[m] # NoPayment
         /\ \A m \in Subs \ {n} : payment'[m] = payment[m]
  <1>1. payment[n] \in [status : PaymentStatus, end : Ends]
    BY PaymentFields DEF TypeOK
  <1>2. payment'[n] = [payment[n] EXCEPT !.status = status]
    BY DEF TypeOK
  <1>3. payment'[n] \in Payment
    BY <1>1, <1>2, PaymentRecord
  <1> QED BY <1>1, <1>2, <1>3 DEF TypeOK

(* A purchase recorded. *)
LEMMA Paid ==
  ASSUME TypeOK, NEW n \in Subs, NEW e \in Ends, NEW by \in {"wallet", "upi"},
         paid' = Pay([sub |-> n, end |-> e, by |-> by])
  PROVE  /\ paid' \in [Purchase -> Nat]
         /\ [sub |-> n, end |-> e, by |-> by] \in Purchase
         /\ paid'[[sub |-> n, end |-> e, by |-> by]] = paid[[sub |-> n, end |-> e, by |-> by]] + 1
         /\ \A p \in Purchase : p # [sub |-> n, end |-> e, by |-> by] => paid'[p] = paid[p]
  <1> DEFINE q == [sub |-> n, end |-> e, by |-> by]
  <1>1. q \in Purchase /\ paid' = [paid EXCEPT ![q] = @ + 1]
    BY DEF Purchase, Pay
  <1>2. paid \in [Purchase -> Nat]
    BY DEF TypeOK
  <1> HIDE DEF q
  <1>3. /\ paid' \in [Purchase -> Nat] /\ paid'[q] = paid[q] + 1
        /\ \A p \in Purchase : p # q => paid'[p] = paid[p]
    <2>1. paid[q] + 1 \in Nat
      BY <1>1, <1>2
    <2> QED BY <1>1, <1>2, <2>1
  <1> QED BY <1>1, <1>3 DEF q

-----------------------------------------------------------------------------
(* The jobs after a step. *)
LEMMA JobsGood ==
  ASSUME Typed, NEW s \in Slots, NEW j, job' = [job EXCEPT ![s] = j], UNCHANGED now,
         GoodJob(j, sub', now),
         \A n \in Subs : sub[n] # NoSub => sub'[n] # NoSub
  PROVE  job' \in [Slots -> Job] /\ \A t \in Slots : GoodJob(job'[t], sub', now')
  <1>1. now \in Nat /\ job \in [Slots -> Job]
    BY SubscriptionAssumption DEF Typed, TypeOK
  <1>2. \A t \in Slots : GoodJob(job[t], sub', now)
    BY <1>1, GoodStays DEF Typed
  <1>3. \A t \in Slots : GoodJob(job'[t], sub', now')
    BY <1>1, <1>2
  <1> QED BY <1>1, <1>3 DEF GoodJob

(* A step that writes no row, or one that writes rows and payments well. *)
LEMMA QuietStep ==
  ASSUME Typed, NEW s \in Slots, NEW j, job' = [job EXCEPT ![s] = j],
         UNCHANGED <<sub, payment, accessUntil, balance, now, paid, windows, late, restarts>>,
         GoodJob(j, sub, now)
  PROVE  Typed'
  <1>1. job' \in [Slots -> Job] /\ \A t \in Slots : GoodJob(job'[t], sub', now')
    BY JobsGood
  <1> QED BY <1>1 DEF Typed, TypeOK

LEMMA RowStep ==
  ASSUME Typed, NEW s \in Slots, NEW j, job' = [job EXCEPT ![s] = j],
         NEW n \in Subs, NEW r \in Sub, r # NoSub, sub' = [sub EXCEPT ![n] = r],
         UNCHANGED <<payment, accessUntil, balance, now, paid, windows, restarts>>,
         late' \subseteq Subs, GoodJob(j, sub', now)
  PROVE  Typed'
  <1>1. /\ sub' \in [Subs -> Sub]
        /\ \A m \in Subs : sub[m] # NoSub => sub'[m] # NoSub
    BY SubWritten DEF Typed
  <1>2. job' \in [Slots -> Job] /\ \A t \in Slots : GoodJob(job'[t], sub', now')
    BY <1>1, JobsGood
  <1> QED BY <1>1, <1>2 DEF Typed, TypeOK

(* Going on with a sweep. *)
LEMMA Resumes ==
  ASSUME NEW s \in Slots, NEW rest \in Batches, Resume(s, rest), NEW rows, Listed(rest, rows, now)
  PROVE  \E j : job' = [job EXCEPT ![s] = j] /\ GoodJob(j, rows, now)
                /\ j.at \in {"idle", "sweep"}
  <1> DEFINE j == IF DOMAIN rest = {} THEN Idle ELSE [at |-> "sweep", rest |-> rest]
  <1>1. job' = [job EXCEPT ![s] = j] /\ GoodJob(j, rows, now)
    BY SweepGood DEF Resume, Continue
  <1>2. j.at \in {"idle", "sweep"}
    BY IdleGood
  <1> QED BY <1>1, <1>2


LEMMA StepTyped ==
  ASSUME Typed, NEW s \in Slots, Step(s)
  PROVE  Typed'
  <1> USE DEF Continue, Return
  <1> DEFINE j == job[s]
  <1>1. /\ TypeOK /\ now \in Nat /\ now \in 0..Horizon /\ sub \in [Subs -> Sub]
        /\ job \in [Slots -> Job] /\ None \in Batches /\ Listed(None, sub, now)
    BY NoneListed, SubscriptionAssumption DEF Typed, TypeOK
  <1>2. CASE CreateSubscription(s)
    <2>1. At(s, "create") /\ j.plan \in Plans
      BY <1>2, RunningJob DEF CreateSubscription
    <2>2. CASE With({"NONE"}) = {}
      <3>1. job' = [job EXCEPT ![s] = Idle]
        BY <1>2, <2>2 DEF CreateSubscription
      <3> QED BY <1>2, <2>2, <3>1, QuietStep, IdleGood DEF CreateSubscription
    <2>3. CASE With({"NONE"}) # {}
      <3> DEFINE n == Min(With({"NONE"}))
                 r == [plan |-> j.plan, status |-> "PENDING", autoRenew |-> TRUE, next |-> NoBilling]
                 k == [at |-> "debit", sub |-> n, end |-> now + 1, renews |-> FALSE, rest |-> None]
      <3>1. n \in Subs
        <4>1. With({"NONE"}) \in SUBSET Nat
          BY SubscriptionAssumption DEF With, Subs
        <4>2. n \in With({"NONE"})
          BY <2>3, <4>1, MinIsIn
        <4> QED BY <4>2 DEF With
      <3>2. r \in Sub /\ r # NoSub
        <4>1. r \in [plan : Plans, status : SubStatus, autoRenew : BOOLEAN, next : {NoBilling} \cup Ends]
          BY <2>1 DEF SubStatus
        <4> QED BY <4>1, SubRecord
      <3>3. sub' = [sub EXCEPT ![n] = r] /\ job' = [job EXCEPT ![s] = k]
        BY <1>2, <2>3 DEF CreateSubscription
      <3>4. now + 1 \in Ends
        BY <1>1, SubscriptionAssumption DEF Ends
      <3>5. sub'[n] # NoSub
        BY <1>1, <3>1, <3>2, <3>3
      <3>6. Listed(None, sub', now)
        BY NoneListed
      <3> HIDE DEF n, r
      <3>7. GoodJob(k, sub', now)
        BY <1>1, <3>1, <3>4, <3>5, <3>6, CollectGood
      <3> HIDE DEF k
      <3> QED BY <1>1, <1>2, <3>1, <3>2, <3>3, <3>7, RowStep DEF CreateSubscription, TypeOK
    <2> QED BY <2>2, <2>3
  <1>3. CASE Debit(s)
    <2>1. /\ At(s, "debit") /\ j.sub \in Subs /\ j.end \in Ends /\ sub[j.sub] # NoSub
          /\ j.renews \in BOOLEAN /\ j.rest \in Batches /\ Listed(j.rest, sub, now)
          /\ j = [at |-> "debit", sub |-> j.sub, end |-> j.end, renews |-> j.renews, rest |-> j.rest]
      BY <1>3, RunningJob DEF Debit, At, OfASub, OfASweep
    <2>2. CASE balance >= 1
      <3> DEFINE k == [at |-> "activate", sub |-> j.sub, end |-> j.end, rest |-> j.rest]
      <3>1. /\ balance' = balance - 1 /\ job' = [job EXCEPT ![s] = k]
            /\ paid' = Pay([sub |-> j.sub, end |-> j.end, by |-> "wallet"])
            /\ UNCHANGED <<sub, payment, accessUntil, now, windows, late, restarts>>
        BY <1>3, <2>2 DEF Debit
      <3>2. balance' \in Nat
        BY <1>1, <2>2, <3>1 DEF TypeOK
      <3>3. paid' \in [Purchase -> Nat]
        BY <1>1, <2>1, <3>1, Paid
      <3>4. GoodJob(k, sub', now)
        BY <2>1, <3>1, CollectGood
      <3> HIDE DEF k
      <3>5. job' \in [Slots -> Job] /\ \A t \in Slots : GoodJob(job'[t], sub', now')
        BY <3>1, <3>4, JobsGood
      <3> QED BY <3>1, <3>2, <3>3, <3>5 DEF Typed, TypeOK
    <2>3. CASE ~(balance >= 1)
      <3> DEFINE k == [at |-> "request", sub |-> j.sub, end |-> j.end, renews |-> j.renews, rest |-> j.rest]
      <3>1. job' = [job EXCEPT ![s] = [j EXCEPT !.at = "request"]]
        BY <1>3, <2>3 DEF Debit
      <3>2. [j EXCEPT !.at = "request"] = k
        BY <2>1
      <3>3. job' = [job EXCEPT ![s] = k]
        BY <3>1, <3>2
      <3>4. GoodJob(k, sub, now)
        BY <2>1, CollectGood
      <3> HIDE DEF k
      <3> QED BY <1>3, <2>3, <3>3, <3>4, QuietStep DEF Debit
    <2> QED BY <2>2, <2>3
  <1>4. CASE OpenRequest(s)
    <2> DEFINE r == [status |-> "VERIFICATION_PENDING", end |-> j.end]
    <2>1. /\ At(s, "request") /\ j.sub \in Subs /\ j.end \in Ends /\ sub[j.sub] # NoSub
          /\ j.rest \in Batches /\ Listed(j.rest, sub, now)
      BY <1>4, RunningJob DEF OpenRequest, At, OfASub, OfASweep
    <2>2. r \in Payment
      BY <2>1, PaymentRecord DEF PaymentStatus
    <2>3. /\ payment' = [payment EXCEPT ![j.sub] = r]
          /\ UNCHANGED <<sub, accessUntil, balance, now, paid, windows, late, restarts>>
      BY <1>4 DEF OpenRequest
    <2>4. PICK k : job' = [job EXCEPT ![s] = k] /\ GoodJob(k, sub, now)
      <3>1. CASE j.renews
        <4> DEFINE k == [at |-> "mark", sub |-> j.sub, rest |-> j.rest]
        <4>1. job' = [job EXCEPT ![s] = k]
          BY <1>4, <3>1 DEF OpenRequest
        <4>2. GoodJob(k, sub, now)
          BY <2>1, CollectGood
        <4> QED BY <4>1, <4>2
      <3>2. CASE ~j.renews
        <4>1. Resume(s, j.rest)
          BY <1>4, <3>2 DEF OpenRequest
        <4> QED BY <2>1, <4>1, Resumes
      <3> QED BY <3>1, <3>2
    <2> HIDE DEF r
    <2>5. /\ payment' \in [Subs -> Payment]
          /\ \A n \in Subs : payment'[n] # NoPayment => sub'[n] # NoSub
      BY <2>1, <2>2, <2>3 DEF Typed, TypeOK
    <2>6. job' \in [Slots -> Job] /\ \A t \in Slots : GoodJob(job'[t], sub', now')
      BY <2>3, <2>4, JobsGood
    <2> QED BY <2>3, <2>5, <2>6 DEF Typed, TypeOK
  <1>5. CASE MarkPastDue(s)
    <2> DEFINE r == [sub[j.sub] EXCEPT !.status = "PAST_DUE"]
    <2>1. /\ At(s, "mark") /\ j.sub \in Subs /\ sub[j.sub] # NoSub
          /\ j.rest \in Batches /\ Listed(j.rest, sub, now)
      BY <1>5, RunningJob DEF MarkPastDue, At, OfASub, OfASweep
    <2>2. r \in Sub /\ r # NoSub
      <3>1. r \in [plan : Plans, status : SubStatus, autoRenew : BOOLEAN, next : {NoBilling} \cup Ends]
        BY <1>1, <2>1, SubFields DEF SubStatus
      <3> QED BY <3>1, SubRecord
    <2>3. sub' = [sub EXCEPT ![j.sub] = r]
      BY <1>5 DEF MarkPastDue
    <2> HIDE DEF r
    <2>4. \A m \in Subs : sub[m] # NoSub => sub'[m] # NoSub
      BY <1>1, <2>1, <2>2, <2>3, SubWritten
    <2>5. Listed(j.rest, sub', now)
      BY <2>1, <2>4 DEF Listed, Batches
    <2>6. PICK k : job' = [job EXCEPT ![s] = k] /\ GoodJob(k, sub', now)
      BY <1>5, <2>1, <2>5, Resumes DEF MarkPastDue
    <2> QED BY <1>1, <1>5, <2>1, <2>2, <2>3, <2>6, RowStep DEF MarkPastDue, TypeOK
  <1>6. CASE ActivatePeriod(s)
    <2> DEFINE r == [sub[j.sub] EXCEPT !.status = "ACTIVE", !.autoRenew = TRUE, !.next = j.end]
    <2>1. /\ At(s, "activate") /\ j.sub \in Subs /\ j.end \in Ends /\ sub[j.sub] # NoSub
          /\ j.rest \in Batches /\ Listed(j.rest, sub, now)
      BY <1>6, RunningJob DEF ActivatePeriod, At, OfASub, OfASweep
    <2>2. CASE sub[j.sub].status = "CUSTOMER_CANCELLED"
      <3>1. Resume(s, j.rest)
            /\ UNCHANGED <<sub, payment, accessUntil, balance, now, paid, windows, late, restarts>>
        BY <1>6, <2>2 DEF ActivatePeriod
      <3>2. PICK k : job' = [job EXCEPT ![s] = k] /\ GoodJob(k, sub, now)
        BY <2>1, <3>1, Resumes
      <3> QED BY <3>1, <3>2, QuietStep
    <2>3. CASE sub[j.sub].status # "CUSTOMER_CANCELLED"
      <3> DEFINE k == [at |-> "access", end |-> j.end, rest |-> j.rest]
      <3>1. /\ sub' = [sub EXCEPT ![j.sub] = r] /\ job' = [job EXCEPT ![s] = k]
            /\ UNCHANGED <<payment, accessUntil, balance, now, paid, windows, restarts>>
            /\ late' \subseteq Subs
        BY <1>1, <1>6, <2>1, <2>3 DEF ActivatePeriod, TypeOK
      <3>2. r \in Sub /\ r # NoSub
        <4>1. sub[j.sub] \in [plan : Plans, status : SubStatus, autoRenew : BOOLEAN, next : {NoBilling} \cup Ends]
          BY <1>1, <2>1, SubFields
        <4>2. r \in [plan : Plans, status : SubStatus, autoRenew : BOOLEAN, next : {NoBilling} \cup Ends]
          BY <2>1, <4>1 DEF SubStatus
        <4> QED BY <4>2, SubRecord
      <3> HIDE DEF r
      <3>3. \A m \in Subs : sub[m] # NoSub => sub'[m] # NoSub
        BY <1>1, <2>1, <3>1, <3>2, SubWritten
      <3>4. Listed(j.rest, sub', now)
        BY <2>1, <3>3 DEF Listed, Batches
      <3>5. GoodJob(k, sub', now)
        BY <2>1, <3>4, AccessGood
      <3> HIDE DEF k
      <3> QED BY <2>1, <3>1, <3>2, <3>5, RowStep
    <2> QED BY <2>2, <2>3
  <1>7. CASE ReadAccess(s)
    <2> DEFINE k == [at |-> "extend", end |-> j.end, rest |-> j.rest]
    <2>1. /\ At(s, "access") /\ j.end \in Ends
          /\ j.rest \in Batches /\ Listed(j.rest, sub, now)
          /\ j = [at |-> "access", end |-> j.end, rest |-> j.rest]
      BY <1>7, RunningJob DEF ReadAccess, At, OfASweep
    <2>2. [j EXCEPT !.at = "extend"] = k
      BY <2>1
    <2>3. GoodJob(k, sub, now)
      BY <2>1, AccessGood
    <2>4. Resume(s, j.rest) \/ job' = [job EXCEPT ![s] = k]
      BY <1>7, <2>2 DEF ReadAccess
    <2> HIDE DEF k
    <2>5. PICK i : job' = [job EXCEPT ![s] = i] /\ GoodJob(i, sub, now)
      BY <2>1, <2>3, <2>4, Resumes
    <2> QED BY <1>7, <2>5, QuietStep DEF ReadAccess
  <1>8. CASE ExtendAccess(s)
    <2>1. /\ At(s, "extend") /\ j.end \in Ends
          /\ j.rest \in Batches /\ Listed(j.rest, sub, now)
      BY <1>8, RunningJob DEF ExtendAccess, At, OfASweep
    <2>2. PICK k : job' = [job EXCEPT ![s] = k] /\ GoodJob(k, sub, now)
      BY <1>8, <2>1, Resumes DEF ExtendAccess
    <2>3. job' \in [Slots -> Job] /\ \A t \in Slots : GoodJob(job'[t], sub', now')
      BY <1>8, <2>2, JobsGood DEF ExtendAccess
    <2> QED BY <1>8, <2>1, <2>3 DEF ExtendAccess, Typed, TypeOK
  <1>9. ASSUME NEW n \in Subs, ClaimPeriod(s, n)
        PROVE  Typed'
    <2> DEFINE rest == [m \in DOMAIN j.rest \ {n} |-> j.rest[m]]
               e == j.rest[n] + 1
               r == [sub[n] EXCEPT !.next = e]
               k == [at |-> "debit", sub |-> n, end |-> e, renews |-> TRUE, rest |-> rest]
    <2>1. /\ At(s, "sweep") /\ n \in DOMAIN j.rest
          /\ j.rest \in Batches /\ Listed(j.rest, sub, now)
      BY <1>9, RunningJob DEF ClaimPeriod, At, OfASweep
    <2>2. rest \in Batches /\ DOMAIN rest \subseteq Subs /\ \A rows : Listed(j.rest, rows, now) => Listed(rest, rows, now)
      <3>1. PICK N \in SUBSET Subs : j.rest \in [N -> Ends]
        BY <2>1 DEF Batches
      <3>2. rest \in [N \ {n} -> Ends]
        BY <3>1
      <3> QED BY <3>1, <3>2 DEF Batches, Listed
    <2>3. sub[n] # NoSub /\ e \in Ends
      <3>1. PICK N \in SUBSET Subs : j.rest \in [N -> Ends]
        BY <2>1 DEF Batches
      <3>2. j.rest[n] \in Ends /\ j.rest[n] <= now /\ sub[n] # NoSub
        BY <2>1, <3>1 DEF Listed
      <3> QED BY <1>1, <3>2, SubscriptionAssumption DEF Ends
    <2>4. CASE sub[n].next = j.rest[n]
      <3>1. /\ sub' = [sub EXCEPT ![n] = r] /\ job' = [job EXCEPT ![s] = k]
            /\ UNCHANGED <<payment, accessUntil, balance, now, paid, windows, late, restarts>>
        BY <1>9, <2>4 DEF ClaimPeriod
      <3> HIDE DEF rest, e
      <3>2. r \in Sub /\ r # NoSub
        <4>1. sub[n] \in [plan : Plans, status : SubStatus, autoRenew : BOOLEAN, next : {NoBilling} \cup Ends]
          BY <1>1, <2>3, SubFields
        <4>2. r \in [plan : Plans, status : SubStatus, autoRenew : BOOLEAN, next : {NoBilling} \cup Ends]
          BY <2>3, <4>1
        <4> QED BY <4>2, SubRecord
      <3> HIDE DEF r
      <3>3. sub'[n] # NoSub /\ \A m \in Subs : sub[m] # NoSub => sub'[m] # NoSub
        BY <1>1, <3>1, <3>2, SubWritten
      <3>4. Listed(rest, sub', now)
        BY <2>1, <2>2, <3>3 DEF Listed
      <3>5. GoodJob(k, sub', now)
        BY <2>2, <2>3, <3>3, <3>4, CollectGood
      <3> HIDE DEF k
      <3> QED BY <1>1, <3>1, <3>2, <3>5, RowStep DEF TypeOK
    <2>5. CASE sub[n].next # j.rest[n]
      <3>1. /\ Resume(s, rest)
            /\ UNCHANGED <<sub, payment, accessUntil, balance, now, paid, windows, late, restarts>>
        BY <1>9, <2>5 DEF ClaimPeriod
      <3> HIDE DEF rest
      <3>2. PICK i : job' = [job EXCEPT ![s] = i] /\ GoodJob(i, sub, now)
        BY <2>1, <2>2, <3>1, Resumes
      <3> QED BY <3>1, <3>2, QuietStep
    <2> QED BY <2>4, <2>5
  <1>10. CASE VerifyPayment(s)
    <2>1. At(s, "verify") /\ j.sub \in Subs /\ j.end \in Ends /\ sub[j.sub] # NoSub
      BY <1>10, RunningJob DEF VerifyPayment, At, OfASub
    <2>2. CASE Awaited(j.sub)
      <3> DEFINE k == [at |-> "activate", sub |-> j.sub, end |-> j.end, rest |-> None]
      <3>1. /\ payment' = [payment EXCEPT ![j.sub].status = "VERIFIED"]
            /\ paid' = Pay([sub |-> j.sub, end |-> j.end, by |-> "upi"])
            /\ late' = late \cup (IF j.end # payment[j.sub].end THEN {j.sub} ELSE {})
            /\ job' = [job EXCEPT ![s] = k]
            /\ UNCHANGED <<sub, accessUntil, balance, now, windows, restarts>>
        BY <1>10, <2>2 DEF VerifyPayment
      <3>2. GoodJob(k, sub', now)
        BY <1>1, <2>1, <3>1, CollectGood
      <3> HIDE DEF k
      <3>3. job' \in [Slots -> Job] /\ \A t \in Slots : GoodJob(job'[t], sub', now')
        BY <3>1, <3>2, JobsGood
      <3>4. /\ payment' \in [Subs -> Payment]
            /\ \A m \in Subs : payment'[m] # NoPayment => payment[m] # NoPayment
        BY <1>1, <2>1, <2>2, <3>1, AwaitedExists, PaymentMarked DEF PaymentStatus
      <3>5. paid' \in [Purchase -> Nat]
        BY <1>1, <2>1, <3>1, Paid
      <3> QED BY <2>1, <3>1, <3>3, <3>4, <3>5 DEF Typed, TypeOK
    <2>3. CASE ~Awaited(j.sub)
      <3>1. job' = [job EXCEPT ![s] = Idle]
        BY <1>10, <2>3 DEF VerifyPayment
      <3> QED BY <1>10, <2>3, <3>1, QuietStep, IdleGood DEF VerifyPayment
    <2> QED BY <2>2, <2>3
  <1>11. CASE WriteCancel(s)
    <2> DEFINE r == [sub[j.sub] EXCEPT !.status = "CUSTOMER_CANCELLED", !.autoRenew = FALSE]
    <2>1. At(s, "cancel") /\ j.sub \in Subs /\ sub[j.sub] # NoSub /\ job' = [job EXCEPT ![s] = Idle]
      BY <1>11, RunningJob DEF WriteCancel, At, OfASub
    <2>2. CASE sub[j.sub].status = "CUSTOMER_CANCELLED"
      BY <1>11, <2>1, <2>2, QuietStep, IdleGood DEF WriteCancel
    <2>3. CASE sub[j.sub].status # "CUSTOMER_CANCELLED"
      <3>1. sub[j.sub] \in [plan : Plans, status : SubStatus, autoRenew : BOOLEAN, next : {NoBilling} \cup Ends]
        BY <1>1, <2>1, SubFields
      <3>4. r \in [plan : Plans, status : SubStatus, autoRenew : BOOLEAN, next : {NoBilling} \cup Ends]
        BY <3>1 DEF SubStatus
      <3>2. r \in Sub /\ r # NoSub
        BY <3>4, SubRecord
      <3>3. sub' = [sub EXCEPT ![j.sub] = r]
        BY <1>11, <2>3 DEF WriteCancel
      <3> HIDE DEF r
      <3> QED BY <1>1, <1>11, <2>1, <3>2, <3>3, RowStep, IdleGood DEF WriteCancel, TypeOK
    <2> QED BY <2>2, <2>3
  <1>12. CASE WritePlan(s)
    <2> DEFINE r == [sub[j.sub] EXCEPT !.plan = j.plan]
               k == [at |-> "supersede", sub |-> j.sub]
    <2>1. At(s, "change") /\ j.sub \in Subs /\ j.plan \in Plans /\ sub[j.sub] # NoSub
      BY <1>12, RunningJob DEF WritePlan, At, OfASub
    <2>2. sub' = [sub EXCEPT ![j.sub] = r] /\ job' = [job EXCEPT ![s] = k]
      BY <1>12 DEF WritePlan
    <2>3. r \in Sub /\ r # NoSub
      <3>1. sub[j.sub] \in [plan : Plans, status : SubStatus, autoRenew : BOOLEAN, next : {NoBilling} \cup Ends]
        BY <1>1, <2>1, SubFields
      <3>2. r \in [plan : Plans, status : SubStatus, autoRenew : BOOLEAN, next : {NoBilling} \cup Ends]
        BY <2>1, <3>1
      <3> QED BY <3>2, SubRecord
    <2> HIDE DEF r
    <2>4. sub'[j.sub] # NoSub
      BY <1>1, <2>1, <2>2, <2>3
    <2>5. GoodJob(k, sub', now)
      BY <2>1, <2>4 DEF GoodJob, Job, OfASub, OfASweep
    <2> HIDE DEF k
    <2> QED BY <1>1, <1>12, <2>1, <2>2, <2>3, <2>5, RowStep DEF WritePlan, TypeOK
  <1>13. CASE SupersedePayment(s)
    <2>1. At(s, "supersede") /\ j.sub \in Subs /\ job' = [job EXCEPT ![s] = Idle]
      BY <1>13, RunningJob DEF SupersedePayment, At
    <2>2. CASE ~Awaited(j.sub)
      BY <1>13, <2>1, <2>2, QuietStep, IdleGood DEF SupersedePayment
    <2>3. CASE Awaited(j.sub)
      <3>1. /\ payment' = [payment EXCEPT ![j.sub].status = "SUPERSEDED"]
            /\ UNCHANGED <<sub, accessUntil, balance, now, paid, windows, late, restarts>>
        BY <1>13, <2>3 DEF SupersedePayment
      <3>2. /\ payment' \in [Subs -> Payment]
            /\ \A m \in Subs : payment'[m] # NoPayment => payment[m] # NoPayment
        BY <1>1, <2>1, <2>3, <3>1, AwaitedExists, PaymentMarked DEF PaymentStatus
      <3>3. job' \in [Slots -> Job] /\ \A t \in Slots : GoodJob(job'[t], sub', now')
        BY <2>1, <3>1, JobsGood, IdleGood
      <3> QED BY <3>1, <3>2, <3>3 DEF Typed, TypeOK
    <2> QED BY <2>2, <2>3
  <1>14. CASE GrantWindow(s)
    <2>1. At(s, "window") /\ j.end \in Ends /\ job' = [job EXCEPT ![s] = Idle]
      BY <1>14, RunningJob DEF GrantWindow
    <2>2. job' \in [Slots -> Job] /\ \A t \in Slots : GoodJob(job'[t], sub', now')
      BY <1>14, <2>1, JobsGood, IdleGood DEF GrantWindow
    <2> QED BY <1>14, <2>1, <2>2 DEF GrantWindow, Typed, TypeOK
  <1> QED BY <1>2, <1>3, <1>4, <1>5, <1>6, <1>7, <1>8, <1>9, <1>10, <1>11, <1>12, <1>13, <1>14 DEF Step


LEMMA RequestTyped ==
  ASSUME Typed, NEW s \in Slots, Request(s)
  PROVE  Typed'
  <1> USE DEF Begin
  <1>1. /\ TypeOK /\ now \in Nat /\ now \in 0..Horizon /\ sub \in [Subs -> Sub]
        /\ job \in [Slots -> Job]
    BY SubscriptionAssumption DEF Typed, TypeOK
  <1>2. \A S : "NONE" \notin S => With(S) \subseteq Subs /\ \A n \in With(S) : sub[n] # NoSub
    BY WithExists
  <1>3. ASSUME NEW S, "NONE" \notin S, With(S) # {}
        PROVE  Max(With(S)) \in Subs /\ sub[Max(With(S))] # NoSub
    <2>1. With(S) \in SUBSET (0..MaxSubs) /\ MaxSubs \in Nat
      BY SubscriptionAssumption DEF With, Subs
    <2>2. Max(With(S)) \in With(S)
      BY <1>3, <2>1, MaxIsIn
    <2> QED BY <1>2, <1>3, <2>2
  <1>4. ASSUME NEW p \in Plans, Subscribe(s, p)
        PROVE  Typed'
    <2> DEFINE j == [at |-> "create", plan |-> p]
    <2>1. GoodJob(j, sub, now)
      BY DEF GoodJob, Job, OfASub, OfASweep
    <2> HIDE DEF j
    <2> QED BY <1>4, <2>1, QuietStep DEF Subscribe, j
  <1>5. ASSUME NEW p \in Plans, ChangePlan(s, p)
        PROVE  Typed'
    <2> DEFINE n == Max(With({"ACTIVE", "PAST_DUE"}))
               j == [at |-> "change", sub |-> n, plan |-> p]
    <2>1. With({"ACTIVE", "PAST_DUE"}) # {} /\ job' = [job EXCEPT ![s] = j]
      BY <1>5 DEF ChangePlan
    <2>2. n \in Subs /\ sub[n] # NoSub
      BY <1>3, <2>1
    <2> HIDE DEF n
    <2>3. GoodJob(j, sub, now)
      BY <2>2 DEF GoodJob, Job, OfASub, OfASweep
    <2> HIDE DEF j
    <2> QED BY <1>5, <2>1, <2>3, QuietStep DEF ChangePlan
  <1>6. ASSUME NEW n \in Subs, ReadPayment(s, n)
        PROVE  Typed'
    <2> DEFINE j == [at |-> "verify", sub |-> n, end |-> payment[n].end]
    <2>1. payment[n] # NoPayment /\ job' = [job EXCEPT ![s] = j]
      BY <1>6 DEF ReadPayment
    <2>2. sub[n] # NoSub /\ payment[n].end \in Ends
      BY <1>1, <2>1, PaymentFields DEF Typed, TypeOK
    <2>3. GoodJob(j, sub, now)
      BY <2>2 DEF GoodJob, Job, OfASub, OfASweep
    <2> HIDE DEF j
    <2> QED BY <1>6, <2>1, <2>3, QuietStep DEF ReadPayment
  <1>7. CASE Sweep(s)
    <2> DEFINE r == [n \in Batch |-> sub[n].next]
               j == [at |-> "sweep", rest |-> r]
    <2>1. job' = [job EXCEPT ![s] = j]
      BY <1>7 DEF Sweep
    <2>2. ASSUME NEW n \in Batch
          PROVE  n \in Subs /\ sub[n] # NoSub /\ sub[n].next \in Ends /\ sub[n].next <= now
      <3>1. n \in Subs /\ sub[n] # NoSub /\ sub[n].next # NoBilling /\ sub[n].next <= now
        BY <1>2 DEF Batch, Due
      <3> QED BY <1>1, <3>1, SubFields
    <2>3. r \in Batches /\ Listed(r, sub, now)
      <3>1. r \in [Batch -> Ends] /\ Batch \in SUBSET Subs
        BY <2>2
      <3> QED BY <2>2, <3>1 DEF Batches, Listed
    <2> HIDE DEF r
    <2>4. GoodJob(j, sub, now)
      BY <2>3, SweepGood
    <2> HIDE DEF j
    <2> QED BY <1>7, <2>1, <2>4, QuietStep DEF Sweep
  <1>8. CASE Cancel(s)
    <2> DEFINE n == Max(With({"PENDING", "ACTIVE", "PAST_DUE"}))
               j == [at |-> "cancel", sub |-> n]
    <2>1. With({"PENDING", "ACTIVE", "PAST_DUE"}) # {} /\ job' = [job EXCEPT ![s] = j]
      BY <1>8 DEF Cancel
    <2>2. n \in Subs /\ sub[n] # NoSub
      BY <1>3, <2>1
    <2> HIDE DEF n
    <2>3. GoodJob(j, sub, now)
      BY <2>2 DEF GoodJob, Job, OfASub, OfASweep
    <2> HIDE DEF j
    <2> QED BY <1>8, <2>1, <2>3, QuietStep DEF Cancel
  <1>9. CASE BuyAccess(s)
    <2> DEFINE e == Later(accessUntil, now) + 1
               j == [at |-> "window", end |-> e]
    <2>1. job' = [job EXCEPT ![s] = j]
      BY <1>9 DEF BuyAccess
    <2>2. e \in Ends
      <3>1. accessUntil \in Nat /\ Later(accessUntil, now) <= Horizon
        BY <1>1, <1>9, SubscriptionAssumption DEF BuyAccess, TypeOK, Ends
      <3> QED BY <1>1, <3>1, SubscriptionAssumption DEF Later, Ends
    <2> HIDE DEF e
    <2>3. GoodJob(j, sub, now)
      BY <2>2 DEF GoodJob, Job, OfASub, OfASweep
    <2> HIDE DEF j
    <2> QED BY <1>9, <2>1, <2>3, QuietStep DEF BuyAccess
  <1> QED BY <1>4, <1>5, <1>6, <1>7, <1>8, <1>9 DEF Request

LEMMA NextTyped ==
  ASSUME Typed, [Next]_vars
  PROVE  Typed'
  <1>1. CASE UNCHANGED vars
    BY <1>1 DEF vars, Typed, TypeOK
  <1>2. CASE \E s \in Slots : Step(s) \/ Request(s)
    BY <1>2, StepTyped, RequestTyped
  <1>3. ASSUME NEW n \in Subs, RejectPayment(n) \/ RequestInfo(n)
        PROVE  Typed'
    <2>1. payment[n] # NoPayment /\ TypeOK
      BY <1>3, AwaitedExists DEF Typed, RejectPayment, RequestInfo
    <2>2. PICK status \in {"REJECTED", "REQUEST_INFO"} : payment' = [payment EXCEPT ![n].status = status]
      BY <1>3 DEF RejectPayment, RequestInfo
    <2>3. status \in PaymentStatus
      BY DEF PaymentStatus
    <2>4. /\ payment' \in [Subs -> Payment]
          /\ \A m \in Subs : payment'[m] # NoPayment => payment[m] # NoPayment
      BY <2>1, <2>2, <2>3, PaymentMarked
    <2> QED BY <1>3, <2>4 DEF RejectPayment, RequestInfo, Typed, TypeOK
  <1>4. CASE RevokeAccess
    BY <1>4 DEF RevokeAccess, Typed, TypeOK
  <1>5. CASE AddFunds
    BY <1>5, AddFundsEffect DEF Typed, TypeOK
  <1>6. CASE Tick
    <2>1. now \in Nat /\ now' \in Nat /\ now <= now' /\ now' \in 0..Horizon
      BY <1>6, SubscriptionAssumption DEF Tick, Typed, TypeOK
    <2>2. \A s \in Slots : GoodJob(job'[s], sub', now')
      BY <1>6, <2>1, GoodStays DEF Tick, Typed
    <2> QED BY <1>6, <2>1, <2>2 DEF Tick, Typed, TypeOK
  <1>7. ASSUME NEW P \in SUBSET Slots, NEW s \in P, Restart(P, s)
        PROVE  Typed'
    <2> DEFINE live == {sub[n].next : n \in {n \in With({"ACTIVE"}) : sub[n].next > now}}
               boot == IF live = {} THEN Idle ELSE [at |-> "access", end |-> Max(live), rest |-> None]
    <2>1. /\ job' = [t \in Slots |-> IF t = s THEN boot ELSE IF t \in P THEN Idle ELSE job[t]]
          /\ restarts < MaxRestarts /\ restarts' = restarts + 1
          /\ UNCHANGED <<sub, payment, accessUntil, balance, now, paid, windows, late>>
      BY <1>7 DEF Restart
    <2>2. live \subseteq Ends
      <3>1. ASSUME NEW n \in With({"ACTIVE"}), sub[n].next > now
            PROVE  sub[n].next \in Ends
        <4>1. n \in Subs /\ sub[n] # NoSub
          BY WithExists
        <4>2. sub[n].next \in {NoBilling} \cup Ends
          BY <4>1, SubFields DEF Typed, TypeOK
        <4> QED BY <3>1, <4>2, SubscriptionAssumption DEF NoBilling, Typed, TypeOK
      <3> QED BY <3>1
    <2> HIDE DEF live
    <2>3. GoodJob(boot, sub, now)
      <3>1. CASE live = {}
        BY <3>1, IdleGood
      <3>2. CASE live # {}
        <4>1. live \in SUBSET (0..(Horizon + 1)) /\ Horizon + 1 \in Nat
          BY <2>2, SubscriptionAssumption DEF Ends
        <4>2. Max(live) \in Ends
          BY <2>2, <3>2, <4>1, MaxIsIn
        <4> QED BY <3>2, <4>2, AccessGood, NoneListed
      <3> QED BY <3>1, <3>2
    <2> HIDE DEF boot
    <2>4. \A t \in Slots : GoodJob(job'[t], sub', now')
      BY <2>1, <2>3, IdleGood DEF Typed
    <2>5. job' \in [Slots -> Job]
      BY <2>1, <2>4 DEF GoodJob
    <2>6. restarts' \in 0..MaxRestarts
      BY <2>1, SubscriptionAssumption DEF Typed, TypeOK
    <2> QED BY <2>1, <2>4, <2>5, <2>6 DEF Typed, TypeOK
  <1> QED BY <1>1, <1>2, <1>3, <1>4, <1>5, <1>6, <1>7 DEF Next

LEMMA InitTyped == Init => Typed
  <1> SUFFICES ASSUME Init PROVE Typed
    OBVIOUS
  <1>1. TypeOK
    BY SubscriptionAssumption DEF Init, TypeOK, Job, Sub, Payment
  <1>2. \A s \in Slots : GoodJob(job[s], sub, now)
    BY IdleGood DEF Init
  <1> QED BY <1>1, <1>2 DEF Init, Typed

LEMMA AlwaysTyped == Spec => []Typed
  BY InitTyped, NextTyped, PTL DEF Spec

(* Rows, money, access and handlers in flight stay well typed; no claim of *)
(* a sweep runs past the next period, and no debit makes a balance         *)
(* negative.                                                               *)
THEOREM SubscriptionTypeCorrect == Spec => []TypeOK
  BY AlwaysTyped, PTL DEF Typed


(***************************************************************************)
(* What never comes back.                                                  *)
(***************************************************************************)

(* Handlers other than the one that moves stay. *)
LEMMA OtherJobs ==
  ASSUME Typed, NEW s \in Slots, NEW j, job' = [job EXCEPT ![s] = j]
  PROVE  job'[s] = j /\ \A t \in Slots : t # s => job'[t] = job[t]
  BY DEF Typed, TypeOK

LEMMA ResumedJob ==
  ASSUME Typed, NEW s \in Slots, NEW rest, Resume(s, rest)
  PROVE  job'[s].at \in {"idle", "sweep"} /\ \A t \in Slots : t # s => job'[t] = job[t]
  <1> DEFINE j == IF DOMAIN rest = {} THEN Idle ELSE [at |-> "sweep", rest |-> rest]
  <1>1. job' = [job EXCEPT ![s] = j] /\ j.at \in {"idle", "sweep"}
    BY IdleGood DEF Resume, Continue
  <1> HIDE DEF j
  <1> QED BY <1>1, OtherJobs

(* A purchase is never undone, a restart never forgotten, and a            *)
(* subscription in `late' stays there.                                     *)
LEMMA StepPays ==
  ASSUME Typed, NEW s \in Slots, Step(s)
  PROVE  /\ \/ UNCHANGED paid
            \/ /\ Debit(s) /\ balance >= 1
               /\ paid' = Pay([sub |-> job[s].sub, end |-> job[s].end, by |-> "wallet"])
            \/ /\ VerifyPayment(s) /\ Awaited(job[s].sub)
               /\ paid' = Pay([sub |-> job[s].sub, end |-> job[s].end, by |-> "upi"])
         /\ late \subseteq late' /\ restarts' = restarts
  <1>1. CASE Debit(s)
    BY <1>1 DEF Debit
  <1>2. CASE VerifyPayment(s)
    BY <1>2 DEF VerifyPayment
  <1>3. CASE ActivatePeriod(s)
    BY <1>3 DEF ActivatePeriod
  <1>4. CASE CreateSubscription(s) \/ OpenRequest(s) \/ MarkPastDue(s) \/ ReadAccess(s) \/ ExtendAccess(s)
    BY <1>4 DEF CreateSubscription, OpenRequest, MarkPastDue, ReadAccess, ExtendAccess
  <1>5. CASE (\E n \in Subs : ClaimPeriod(s, n)) \/ WriteCancel(s) \/ WritePlan(s)
             \/ SupersedePayment(s) \/ GrantWindow(s)
    BY <1>5 DEF ClaimPeriod, WriteCancel, WritePlan, SupersedePayment, GrantWindow
  <1> QED BY <1>1, <1>2, <1>3, <1>4, <1>5 DEF Step

(* What a request, a person or the world does not touch. *)
LEMMA RequestFrame ==
  ASSUME Typed, NEW s \in Slots, Request(s)
  PROVE  /\ UNCHANGED <<sub, payment, accessUntil, balance, now, paid, windows, late, restarts>>
         /\ job'[s].at \in {"create", "verify", "sweep", "cancel", "change", "window"}
         /\ job[s].at = "idle"
         /\ \A t \in Slots : t # s => job'[t] = job[t]
  <1>1. ASSUME NEW j, Begin(s, j)
        PROVE  job'[s] = j /\ job[s].at = "idle" /\ \A t \in Slots : t # s => job'[t] = job[t]
    BY <1>1, OtherJobs, IdleGood DEF Begin
  <1>2. ASSUME NEW p \in Plans, Subscribe(s, p)
        PROVE  /\ \E j : Begin(s, j) /\ j.at = "create"
               /\ UNCHANGED <<sub, payment, accessUntil, balance, now, paid, windows, late, restarts>>
    BY <1>2 DEF Subscribe
  <1>3. ASSUME NEW p \in Plans, ChangePlan(s, p)
        PROVE  /\ \E j : Begin(s, j) /\ j.at = "change"
               /\ UNCHANGED <<sub, payment, accessUntil, balance, now, paid, windows, late, restarts>>
    BY <1>3 DEF ChangePlan
  <1>4. ASSUME NEW n \in Subs, ReadPayment(s, n)
        PROVE  /\ \E j : Begin(s, j) /\ j.at = "verify"
               /\ UNCHANGED <<sub, payment, accessUntil, balance, now, paid, windows, late, restarts>>
    BY <1>4 DEF ReadPayment
  <1>5. CASE Sweep(s)
    <2>1. /\ \E j : Begin(s, j) /\ j.at = "sweep"
          /\ UNCHANGED <<sub, payment, accessUntil, balance, now, paid, windows, late, restarts>>
      BY <1>5 DEF Sweep
    <2> QED BY <1>1, <2>1
  <1>6. CASE Cancel(s)
    <2>1. /\ \E j : Begin(s, j) /\ j.at = "cancel"
          /\ UNCHANGED <<sub, payment, accessUntil, balance, now, paid, windows, late, restarts>>
      BY <1>6 DEF Cancel
    <2> QED BY <1>1, <2>1
  <1>7. CASE BuyAccess(s)
    <2>1. /\ \E j : Begin(s, j) /\ j.at = "window"
          /\ UNCHANGED <<sub, payment, accessUntil, balance, now, paid, windows, late, restarts>>
      BY <1>7 DEF BuyAccess
    <2> QED BY <1>1, <2>1
  <1> QED BY <1>1, <1>2, <1>3, <1>4, <1>5, <1>6, <1>7 DEF Request

LEMMA NeverUnpaid ==
  ASSUME Typed, [Next]_vars
  PROVE  /\ \A p \in Purchase : paid[p] > 0 => paid'[p] > 0
         /\ \A n, e : PaidFor(n, e) => PaidFor(n, e)'
         /\ late \subseteq late' /\ windows \subseteq windows'
         /\ restarts' = 0 => restarts = 0
  <1>1. ASSUME NEW s \in Slots, Step(s)
        PROVE  \A p \in Purchase : paid[p] > 0 => paid'[p] > 0
    <2>1. ASSUME NEW n \in Subs, NEW e \in Ends, NEW by \in {"wallet", "upi"},
                 paid' = Pay([sub |-> n, end |-> e, by |-> by])
          PROVE  \A p \in Purchase : paid[p] > 0 => paid'[p] > 0
      <3>1. paid \in [Purchase -> Nat]
        BY DEF Typed, TypeOK
      <3>2. PICK q \in Purchase : paid'[q] = paid[q] + 1 /\ \A p \in Purchase : p # q => paid'[p] = paid[p]
        BY <2>1, Paid DEF Typed
      <3> QED BY <3>1, <3>2
    <2>2. Debit(s) \/ VerifyPayment(s) => job[s].sub \in Subs /\ job[s].end \in Ends
      BY RunningJob DEF Debit, VerifyPayment
    <2> QED BY <1>1, <2>1, <2>2, StepPays
  <1>2. \/ UNCHANGED <<paid, late, windows, restarts>>
        \/ \E s \in Slots : Step(s)
        \/ UNCHANGED <<paid, late, windows>> /\ restarts' = restarts + 1
    <2>1. CASE UNCHANGED vars
      BY <2>1 DEF vars
    <2>2. CASE \E s \in Slots : Request(s)
      BY <2>2, RequestFrame
    <2>3. CASE \E n \in Subs : RejectPayment(n) \/ RequestInfo(n)
      BY <2>3 DEF RejectPayment, RequestInfo
    <2>4. CASE RevokeAccess \/ AddFunds \/ Tick
      BY <2>4, AddFundsEffect DEF RevokeAccess, Tick
    <2>5. CASE \E P \in SUBSET Slots : \E s \in P : Restart(P, s)
      BY <2>5 DEF Restart
    <2> QED BY <2>1, <2>2, <2>3, <2>4, <2>5 DEF Next
  <1>3. restarts \in Nat
    BY SubscriptionAssumption DEF Typed, TypeOK
  <1>4. ASSUME NEW s \in Slots, Step(s)
        PROVE  windows \subseteq windows'
    BY <1>4 DEF Step, CreateSubscription, Debit, OpenRequest, MarkPastDue, ActivatePeriod, ReadAccess,
                ExtendAccess, ClaimPeriod, VerifyPayment, WriteCancel, WritePlan, SupersedePayment, GrantWindow
  <1>5. \A p \in Purchase : paid[p] > 0 => paid'[p] > 0
    BY <1>1, <1>2
  <1>6. \A n, e : PaidFor(n, e) => PaidFor(n, e)'
    BY <1>5 DEF PaidFor
  <1>7. late \subseteq late' /\ windows \subseteq windows'
    BY <1>2, <1>4, StepPays
  <1>8. restarts' = 0 => restarts = 0
    <2>1. ASSUME NEW s \in Slots, Step(s)
          PROVE  restarts' = restarts
      BY <2>1, StepPays
    <2> QED BY <1>2, <1>3, <2>1
  <1> QED BY <1>5, <1>6, <1>7, <1>8

(***************************************************************************)
(* Access.                                                                 *)
(***************************************************************************)

(* Who activates a period has a purchase to show for it, and so has who    *)
(* extends the access, unless it is the work of a boot.                    *)
Backed ==
  \A s \in Slots : \A n, e :
    job[s].at = "activate" /\ job[s].sub = n /\ job[s].end = e => PaidFor(n, e)

Earned(e) == \E n \in Subs : PaidFor(n, e)
Extending == \A s \in Slots : \A e : job[s].at \in {"access", "extend"} /\ job[s].end = e => Earned(e)
Opened == \A e : accessUntil = e => e \in {0} \cup windows \/ Earned(e)

AccessInv == Backed /\ (restarts = 0 => Extending /\ Opened)

LEMMA PurchasePays ==
  ASSUME TypeOK, NEW n \in Subs, NEW e \in Ends, NEW by \in {"wallet", "upi"},
         paid' = Pay([sub |-> n, end |-> e, by |-> by])
  PROVE  PaidFor(n, e)'
  <1> DEFINE p == [sub |-> n, end |-> e, by |-> by]
  <1>1. p \in Purchase /\ paid'[p] = paid[p] + 1 /\ paid[p] \in Nat
    BY Paid DEF TypeOK
  <1>2. paid'[p] > 0 /\ p.sub = n /\ p.end = e
    BY <1>1
  <1> HIDE DEF p
  <1>3. \E q \in Purchase : q.sub = n /\ q.end = e /\ paid'[q] > 0
    BY <1>1, <1>2
  <1> QED BY <1>3 DEF PaidFor

(* What a step does to the chain from a purchase to the access it opens.   *)
LEMMA StepAccess ==
  ASSUME Typed, NEW s \in Slots, Step(s)
  PROVE  \E k :
           /\ job' = [job EXCEPT ![s] = k]
           /\ k.at = "activate" => PaidFor(k.sub, k.end)'
           /\ k.at = "access" => At(s, "activate") /\ k.end = job[s].end
           /\ k.at = "extend" => At(s, "access") /\ k.end = job[s].end
           /\ \/ accessUntil' = accessUntil
              \/ At(s, "extend") /\ accessUntil' = job[s].end
              \/ accessUntil' \in windows'
  <1> USE DEF Continue, Return
  <1> DEFINE j == job[s]
             Goal(k) == /\ k.at = "activate" => PaidFor(k.sub, k.end)'
                        /\ k.at = "access" => At(s, "activate") /\ k.end = job[s].end
                        /\ k.at = "extend" => At(s, "access") /\ k.end = job[s].end
             Kept == \/ accessUntil' = accessUntil
                     \/ At(s, "extend") /\ accessUntil' = job[s].end
                     \/ accessUntil' \in windows'
  <1>1. ASSUME NEW rest, Resume(s, rest)
        PROVE  \E k : job' = [job EXCEPT ![s] = k] /\ Goal(k)
    <2> DEFINE k == IF DOMAIN rest = {} THEN Idle ELSE [at |-> "sweep", rest |-> rest]
    <2>1. job' = [job EXCEPT ![s] = k]
      BY <1>1 DEF Resume
    <2>2. k.at \notin {"activate", "access", "extend"}
      BY IdleGood
    <2> QED BY <2>1, <2>2
  <1>2. ASSUME NEW n \in Subs, NEW e \in Ends, NEW by \in {"wallet", "upi"}, NEW rest,
               paid' = Pay([sub |-> n, end |-> e, by |-> by])
        PROVE  Goal([at |-> "activate", sub |-> n, end |-> e, rest |-> rest])
    <2>1. PaidFor(n, e)'
      BY <1>2, PurchasePays DEF Typed
    <2> QED BY <2>1 DEF PaidFor
  <1>3. Goal(Idle)
    BY IdleGood
  <1>4. CASE CreateSubscription(s)
    <2>1. accessUntil' = accessUntil
      BY <1>4 DEF CreateSubscription
    <2>2. \/ job' = [job EXCEPT ![s] = Idle]
          \/ \E n : job' = [job EXCEPT ![s] = [at |-> "debit", sub |-> n, end |-> now + 1,
                                               renews |-> FALSE, rest |-> None]]
      BY <1>4 DEF CreateSubscription
    <2> QED BY <1>3, <2>1, <2>2
  <1>5. CASE Debit(s)
    <2>1. accessUntil' = accessUntil
      BY <1>5 DEF Debit
    <2>2. j.sub \in Subs /\ j.end \in Ends /\ At(s, "debit")
      BY <1>5, RunningJob DEF Debit
    <2>3. CASE balance >= 1
      <3>1. /\ paid' = Pay([sub |-> j.sub, end |-> j.end, by |-> "wallet"])
            /\ job' = [job EXCEPT ![s] = [at |-> "activate", sub |-> j.sub, end |-> j.end, rest |-> j.rest]]
        BY <1>5, <2>3 DEF Debit
      <3> HIDE DEF Goal
      <3>2. Goal([at |-> "activate", sub |-> j.sub, end |-> j.end, rest |-> j.rest])
        BY <1>2, <2>2, <3>1
      <3>3. \E k : job' = [job EXCEPT ![s] = k] /\ Goal(k)
        BY <3>1, <3>2
      <3> QED BY <2>1, <3>3 DEF Goal
    <2>4. CASE ~(balance >= 1)
      <3>1. job' = [job EXCEPT ![s] = [j EXCEPT !.at = "request"]]
        BY <1>5, <2>4 DEF Debit
      <3>2. [j EXCEPT !.at = "request"].at = "request"
        BY <2>2, RunningJob
      <3> QED BY <2>1, <3>1, <3>2
    <2> QED BY <2>3, <2>4
  <1>6. CASE OpenRequest(s)
    <2>1. accessUntil' = accessUntil
      BY <1>6 DEF OpenRequest
    <2>2. \/ job' = [job EXCEPT ![s] = [at |-> "mark", sub |-> j.sub, rest |-> j.rest]]
          \/ Resume(s, j.rest)
      BY <1>6 DEF OpenRequest
    <2> QED BY <1>1, <2>1, <2>2
  <1>7. CASE MarkPastDue(s)
    BY <1>1, <1>7 DEF MarkPastDue
  <1>8. CASE ActivatePeriod(s)
    <2>1. accessUntil' = accessUntil /\ At(s, "activate")
      BY <1>8 DEF ActivatePeriod
    <2>2. \/ job' = [job EXCEPT ![s] = [at |-> "access", end |-> j.end, rest |-> j.rest]]
          \/ Resume(s, j.rest)
      BY <1>8 DEF ActivatePeriod
    <2> QED BY <1>1, <2>1, <2>2
  <1>9. CASE ReadAccess(s)
    <2>1. accessUntil' = accessUntil /\ At(s, "access")
      BY <1>9 DEF ReadAccess
    <2>2. Resume(s, j.rest) \/ job' = [job EXCEPT ![s] = [j EXCEPT !.at = "extend"]]
      BY <1>9 DEF ReadAccess
    <2>3. j = [at |-> j.at, end |-> j.end, rest |-> j.rest]
      BY <2>1, RunningJob
    <2>4. [j EXCEPT !.at = "extend"].at = "extend" /\ [j EXCEPT !.at = "extend"].end = j.end
      BY <2>3
    <2> QED BY <1>1, <2>1, <2>2, <2>4
  <1>10. CASE ExtendAccess(s)
    BY <1>1, <1>10 DEF ExtendAccess
  <1>11. ASSUME NEW n \in Subs, ClaimPeriod(s, n)
         PROVE  accessUntil' = accessUntil /\ \E k : job' = [job EXCEPT ![s] = k] /\ Goal(k)
    <2> DEFINE rest == [m \in DOMAIN j.rest \ {n} |-> j.rest[m]]
               k == [at |-> "debit", sub |-> n, end |-> j.rest[n] + 1, renews |-> TRUE, rest |-> rest]
    <2>1. Resume(s, rest) \/ job' = [job EXCEPT ![s] = k]
      BY <1>11 DEF ClaimPeriod
    <2>2. accessUntil' = accessUntil
      BY <1>11 DEF ClaimPeriod
    <2>3. k.at = "debit"
      OBVIOUS
    <2> HIDE DEF rest, k
    <2> QED BY <1>1, <2>1, <2>2, <2>3
  <1>12. CASE VerifyPayment(s)
    <2>1. accessUntil' = accessUntil
      BY <1>12 DEF VerifyPayment
    <2>2. j.sub \in Subs /\ j.end \in Ends
      BY <1>12, RunningJob DEF VerifyPayment
    <2>3. CASE Awaited(j.sub)
      <3>1. /\ paid' = Pay([sub |-> j.sub, end |-> j.end, by |-> "upi"])
            /\ job' = [job EXCEPT ![s] = [at |-> "activate", sub |-> j.sub, end |-> j.end, rest |-> None]]
        BY <1>12, <2>3 DEF VerifyPayment
      <3> HIDE DEF Goal
      <3>2. Goal([at |-> "activate", sub |-> j.sub, end |-> j.end, rest |-> None])
        BY <1>2, <2>2, <3>1
      <3>3. \E k : job' = [job EXCEPT ![s] = k] /\ Goal(k)
        BY <3>1, <3>2
      <3> QED BY <2>1, <3>3 DEF Goal
    <2>4. CASE ~Awaited(j.sub)
      BY <1>3, <1>12, <2>1, <2>4 DEF VerifyPayment
    <2> QED BY <2>3, <2>4
  <1>13. CASE WriteCancel(s) \/ SupersedePayment(s)
    BY <1>3, <1>13 DEF WriteCancel, SupersedePayment
  <1>14. CASE WritePlan(s)
    BY <1>14 DEF WritePlan
  <1>15. CASE GrantWindow(s)
    <2>1. accessUntil' \in windows' /\ job' = [job EXCEPT ![s] = Idle]
      BY <1>15 DEF GrantWindow
    <2> QED BY <1>3, <2>1
  <1> QED BY <1>4, <1>5, <1>6, <1>7, <1>8, <1>9, <1>10, <1>11, <1>12, <1>13, <1>14, <1>15 DEF Step

(* A boot starts an extension, and otherwise takes handlers away. *)
LEMMA RestartJobs ==
  ASSUME Typed, NEW P \in SUBSET Slots, NEW s \in P, Restart(P, s)
  PROVE  /\ UNCHANGED <<sub, payment, accessUntil, balance, now, paid, windows, late>>
         /\ restarts' > 0
         /\ \A t \in Slots : job'[t] = job[t] \/ job'[t].at \in {"idle", "access"}
  <1>1. restarts \in Nat /\ restarts' = restarts + 1
    BY SubscriptionAssumption DEF Restart, Typed, TypeOK
  <1>2. \A t \in Slots : job'[t] = job[t] \/ job'[t].at \in {"idle", "access"}
    <2> DEFINE live == {sub[n].next : n \in {n \in With({"ACTIVE"}) : sub[n].next > now}}
               boot == IF live = {} THEN Idle ELSE [at |-> "access", end |-> Max(live), rest |-> None]
    <2>1. job' = [t \in Slots |-> IF t = s THEN boot ELSE IF t \in P THEN Idle ELSE job[t]]
      BY DEF Restart
    <2>2. boot.at \in {"idle", "access"}
      BY IdleGood
    <2> HIDE DEF boot
    <2> QED BY <2>1, <2>2, IdleGood
  <1>3. UNCHANGED <<sub, payment, accessUntil, balance, now, paid, windows, late>>
    BY DEF Restart
  <1>4. restarts' > 0
    BY <1>1
  <1> QED BY <1>2, <1>3, <1>4

LEMMA AccessNext ==
  ASSUME Typed, AccessInv, [Next]_vars
  PROVE  AccessInv'
  <1>1. /\ \A n, e : PaidFor(n, e) => PaidFor(n, e)'
        /\ windows \subseteq windows' /\ (restarts' = 0 => restarts = 0)
    BY NeverUnpaid
  <1>2. \A e : Earned(e) => Earned(e)'
    BY <1>1 DEF Earned
  <1>3. CASE \E s \in Slots : Step(s)
    <2>1. PICK s \in Slots : Step(s)
      BY <1>3
    <2>2. PICK k : /\ job' = [job EXCEPT ![s] = k]
                   /\ k.at = "activate" => PaidFor(k.sub, k.end)'
                   /\ k.at = "access" => At(s, "activate") /\ k.end = job[s].end
                   /\ k.at = "extend" => At(s, "access") /\ k.end = job[s].end
                   /\ \/ accessUntil' = accessUntil
                      \/ At(s, "extend") /\ accessUntil' = job[s].end
                      \/ accessUntil' \in windows'
      BY <2>1, StepAccess
    <2>3. job'[s] = k /\ \A t \in Slots : t # s => job'[t] = job[t]
      BY <2>1, <2>2, OtherJobs
    <2>4. Backed'
      <3>1. ASSUME NEW t \in Slots, NEW n, NEW e,
                   job'[t].at = "activate" /\ job'[t].sub = n /\ job'[t].end = e
            PROVE  PaidFor(n, e)'
        <4>1. CASE t = s
          BY <2>2, <2>3, <3>1, <4>1
        <4>2. CASE t # s
          <5>1. PaidFor(n, e)
            BY <2>3, <3>1, <4>2 DEF AccessInv, Backed
          <5> QED BY <1>1, <5>1
        <4> QED BY <4>1, <4>2
      <3> QED BY <3>1 DEF Backed
    <2>5. ASSUME restarts' = 0
          PROVE  Extending' /\ Opened'
      <3>1. restarts = 0 /\ Extending /\ Opened
        BY <1>1, <2>5 DEF AccessInv
      <3>2. ASSUME At(s, "activate")
            PROVE  Earned(job[s].end)
        <4> DEFINE n == job[s].sub
                   e == job[s].end
        <4>1. n \in Subs
          BY <3>2, RunningJob
        <4>2. PaidFor(n, e)
          BY <3>2 DEF AccessInv, Backed, At
        <4> QED BY <4>1, <4>2 DEF Earned
      <3>3. ASSUME NEW t \in Slots, NEW e, job'[t].at \in {"access", "extend"} /\ job'[t].end = e
            PROVE  Earned(e)'
        <4>1. Earned(e)
          <5>1. CASE t = s
            BY <2>2, <2>3, <3>1, <3>2, <3>3, <5>1 DEF Extending, At
          <5>2. CASE t # s
            BY <2>3, <3>1, <3>3, <5>2 DEF Extending
          <5> QED BY <5>1, <5>2
        <4> QED BY <1>2, <4>1
      <3>4. ASSUME NEW e, accessUntil' = e
            PROVE  e \in {0} \cup windows' \/ Earned(e)'
        <4>1. e \in windows' \/ e \in {0} \cup windows \/ Earned(e)
          BY <2>2, <3>1, <3>4 DEF Extending, Opened, At
        <4> QED BY <1>1, <1>2, <4>1
      <3> QED BY <3>3, <3>4 DEF Extending, Opened
    <2> QED BY <2>4, <2>5 DEF AccessInv
  <1>4. ASSUME UNCHANGED <<paid, windows>>,
               \A t \in Slots : job'[t] = job[t] \/ job'[t].at \notin {"activate", "access", "extend"},
               accessUntil' \in {0, accessUntil}
        PROVE  AccessInv'
    <2>1. Backed'
      BY <1>1, <1>4 DEF AccessInv, Backed
    <2>2. restarts' = 0 => Extending'
      BY <1>1, <1>2, <1>4 DEF AccessInv, Extending
    <2>3. restarts' = 0 => Opened'
      BY <1>1, <1>2, <1>4 DEF AccessInv, Opened
    <2> QED BY <2>1, <2>2, <2>3 DEF AccessInv
  <1>5. CASE UNCHANGED vars
    BY <1>4, <1>5 DEF vars
  <1>6. CASE \E s \in Slots : Request(s)
    <2>1. PICK s \in Slots : Request(s)
      BY <1>6
    <2>2. /\ UNCHANGED <<sub, payment, accessUntil, balance, now, paid, windows, late, restarts>>
          /\ job'[s].at \in {"create", "verify", "sweep", "cancel", "change", "window"}
          /\ \A t \in Slots : t # s => job'[t] = job[t]
      BY <2>1, RequestFrame
    <2> QED BY <1>4, <2>2
  <1>7. CASE \E n \in Subs : RejectPayment(n) \/ RequestInfo(n)
    BY <1>4, <1>7 DEF RejectPayment, RequestInfo
  <1>8. CASE RevokeAccess \/ AddFunds \/ Tick
    BY <1>4, <1>8, AddFundsEffect DEF RevokeAccess, Tick
  <1>9. CASE \E P \in SUBSET Slots : \E s \in P : Restart(P, s)
    <2>1. /\ restarts' > 0
          /\ \A t \in Slots : job'[t] = job[t] \/ job'[t].at \in {"idle", "access"}
      BY <1>9, RestartJobs
    <2>2. Backed'
      BY <1>1, <2>1 DEF AccessInv, Backed
    <2> QED BY <2>1, <2>2 DEF AccessInv
  <1> QED BY <1>3, <1>5, <1>6, <1>7, <1>8, <1>9 DEF Next

LEMMA AccessInit == Init => AccessInv
  BY IdleGood DEF Init, AccessInv, Backed, Extending, Opened

LEMMA AlwaysAccess == Spec => [](Typed /\ AccessInv)
  <1>1. Init => Typed /\ AccessInv
    BY InitTyped, AccessInit
  <1>2. (Typed /\ AccessInv) /\ [Next]_vars => (Typed /\ AccessInv)'
    BY NextTyped, AccessNext
  <1> QED BY <1>1, <1>2, PTL DEF Spec

(* Access comes from a period that was paid for or from a window of a      *)
(* top-up, whatever requests, sweeps, verifications and cancellations      *)
(* overlap, until a boot reads a claimed row for a paid one.               *)
THEOREM AccessComesFromPayment == Spec => []AccessIsPaid
  <1>1. AccessInv => AccessIsPaid
    BY DEF AccessInv, Opened, Earned, AccessIsPaid
  <1> QED BY <1>1, AlwaysAccess, PTL

(***************************************************************************)
(* Rows that read ACTIVE.                                                  *)
(***************************************************************************)

(* A handler that will pay for the period e, or take n off ACTIVE. *)
Collects(j, n, e) ==
  /\ j.at \in {"debit", "request", "mark"} /\ j.sub = n
  /\ j.at = "debit" => j.end = e /\ j.renews
  /\ j.at = "request" => j.renews

ActiveInv ==
  restarts = 0 =>
    \A n \in With({"ACTIVE"}) : \A e :
      sub[n].next = e => PaidFor(n, e) \/ \E s \in Slots : Collects(job[s], n, e)

Active(n, e) == sub[n].status = "ACTIVE" /\ sub[n].next = e

(* A row becomes ACTIVE for a period that is paid for, or its handler goes *)
(* on to collect; a handler that collected does not leave it unpaid. *)
LEMMA StepActive ==
  ASSUME Typed, Backed, NEW s \in Slots, Step(s), NEW n \in Subs, NEW e, Active(n, e)'
  PROVE  \/ PaidFor(n, e)'
         \/ Collects(job'[s], n, e)
         \/ Active(n, e) /\ ~Collects(job[s], n, e)
  <1> USE DEF Continue, Return
  <1> DEFINE j == job[s]
  <1>1. TypeOK /\ sub \in [Subs -> Sub] /\ job \in [Slots -> Job]
    BY DEF Typed, TypeOK
  <1>2. ASSUME NEW m \in Subs, NEW r, sub' = [sub EXCEPT ![m] = r], ~Collects(j, n, e),
               m = n /\ r.status = "ACTIVE" /\ r.next = e => Active(n, e)
        PROVE  Active(n, e)
    BY <1>1, <1>2 DEF Active
  <1>3. ASSUME UNCHANGED sub
        PROVE  Active(n, e)
    BY <1>3 DEF Active
  <1>4. ASSUME j.at \notin {"debit", "request", "mark"}
        PROVE  ~Collects(j, n, e)
    BY <1>4 DEF Collects
  <1>5. CASE CreateSubscription(s)
    <2>1. ~Collects(j, n, e)
      BY <1>4, <1>5 DEF CreateSubscription, At
    <2>2. CASE With({"NONE"}) = {}
      BY <1>3, <1>5, <2>1, <2>2 DEF CreateSubscription
    <2>3. CASE With({"NONE"}) # {}
      <3> DEFINE m == Min(With({"NONE"}))
                 r == [plan |-> j.plan, status |-> "PENDING", autoRenew |-> TRUE, next |-> NoBilling]
      <3>1. sub' = [sub EXCEPT ![m] = r] /\ r.status = "PENDING"
        BY <1>5, <2>3 DEF CreateSubscription
      <3> HIDE DEF m, r
      <3>2. m # n
        BY <1>1, <3>1 DEF Active
      <3> QED BY <1>1, <2>1, <3>1, <3>2 DEF Active
    <2> QED BY <2>2, <2>3
  <1>6. CASE Debit(s)
    <2>1. /\ At(s, "debit") /\ j.sub \in Subs /\ j.end \in Ends
          /\ j = [at |-> "debit", sub |-> j.sub, end |-> j.end, renews |-> j.renews, rest |-> j.rest]
      BY <1>6, RunningJob DEF Debit, At
    <2>2. Active(n, e)
      BY <1>3, <1>6 DEF Debit
    <2>3. CASE balance >= 1
      <3>1. ASSUME n = j.sub, e = j.end
            PROVE  PaidFor(n, e)'
        <4>1. n \in Subs /\ e \in Ends /\ paid' = Pay([sub |-> n, end |-> e, by |-> "wallet"])
          BY <1>6, <2>1, <2>3, <3>1 DEF Debit
        <4> QED BY <1>1, <4>1, PurchasePays
      <3>2. Collects(j, n, e) => j.sub = n /\ j.end = e
        BY <2>1 DEF Collects, At
      <3> QED BY <2>2, <3>1, <3>2
    <2>4. CASE ~(balance >= 1)
      <3>1. job' = [job EXCEPT ![s] = [j EXCEPT !.at = "request"]]
        BY <1>6, <2>4 DEF Debit
      <3>2. job'[s] = [at |-> "request", sub |-> j.sub, end |-> j.end, renews |-> j.renews, rest |-> j.rest]
        BY <1>1, <2>1, <3>1
      <3>3. Collects(j, n, e) => Collects(job'[s], n, e)
        BY <2>1, <3>2 DEF Collects, At
      <3> QED BY <2>2, <3>3
    <2> QED BY <2>3, <2>4
  <1>7. CASE OpenRequest(s)
    <2>1. Active(n, e) /\ At(s, "request")
      BY <1>3, <1>7 DEF OpenRequest
    <2>2. CASE j.renews
      <3>1. job' = [job EXCEPT ![s] = [at |-> "mark", sub |-> j.sub, rest |-> j.rest]]
        BY <1>7, <2>2 DEF OpenRequest
      <3>2. job'[s] = [at |-> "mark", sub |-> j.sub, rest |-> j.rest]
        BY <1>1, <3>1
      <3> QED BY <2>1, <3>2 DEF Collects
    <2>3. CASE ~j.renews
      BY <2>1, <2>3 DEF Collects, At
    <2> QED BY <2>2, <2>3
  <1>8. CASE MarkPastDue(s)
    <2>1. At(s, "mark") /\ j.sub \in Subs /\ sub[j.sub] \in Sub /\ sub[j.sub] # NoSub
      BY <1>1, <1>8, RunningJob DEF MarkPastDue, OfASub, At
    <2>2. sub' = [sub EXCEPT ![j.sub].status = "PAST_DUE"]
      BY <1>8 DEF MarkPastDue
    <2>3. sub'[j.sub].status = "PAST_DUE"
      BY <1>1, <2>1, <2>2, SubFields
    <2>4. j.sub # n
      BY <2>3 DEF Active
    <2>5. Active(n, e)
      BY <1>1, <2>2, <2>4 DEF Active
    <2> QED BY <2>1, <2>4, <2>5 DEF Collects
  <1>9. CASE ActivatePeriod(s)
    <2>1. At(s, "activate") /\ j.sub \in Subs /\ sub[j.sub] \in Sub /\ sub[j.sub] # NoSub
      BY <1>1, <1>9, RunningJob DEF ActivatePeriod, OfASub, At
    <2>2. ~Collects(j, n, e)
      BY <1>4, <2>1 DEF At
    <2>3. CASE sub[j.sub].status = "CUSTOMER_CANCELLED"
      BY <1>3, <1>9, <2>2, <2>3 DEF ActivatePeriod
    <2>4. CASE sub[j.sub].status # "CUSTOMER_CANCELLED"
      <3>1. sub' = [sub EXCEPT ![j.sub] = [@ EXCEPT !.status = "ACTIVE", !.autoRenew = TRUE, !.next = j.end]]
        BY <1>9, <2>4 DEF ActivatePeriod
      <3>2. CASE j.sub = n
        <4>1. sub'[n].next = j.end
          BY <1>1, <2>1, <3>1, <3>2, SubFields
        <4>2. PaidFor(n, e)
          BY <2>1, <3>2, <4>1 DEF Backed, Active, At
        <4> QED BY <1>9, <4>2 DEF PaidFor, ActivatePeriod
      <3>3. CASE j.sub # n
        BY <1>1, <2>2, <3>1, <3>3 DEF Active
      <3> QED BY <3>2, <3>3
    <2> QED BY <2>3, <2>4
  <1>10. CASE ReadAccess(s) \/ ExtendAccess(s) \/ VerifyPayment(s) \/ SupersedePayment(s) \/ GrantWindow(s)
    <2>1. UNCHANGED sub
      BY <1>10 DEF ReadAccess, ExtendAccess, VerifyPayment, SupersedePayment, GrantWindow
    <2>2. j.at \in {"access", "extend", "verify", "supersede", "window"}
      BY <1>10 DEF ReadAccess, ExtendAccess, VerifyPayment, SupersedePayment, GrantWindow, At
    <2> QED BY <1>3, <1>4, <2>1, <2>2
  <1>11. ASSUME NEW m \in Subs, ClaimPeriod(s, m)
         PROVE  \/ PaidFor(n, e)' \/ Collects(job'[s], n, e)
                \/ Active(n, e) /\ ~Collects(j, n, e)
    <2> DEFINE rest == [i \in DOMAIN j.rest \ {m} |-> j.rest[i]]
               d == j.rest[m] + 1
               k == [at |-> "debit", sub |-> m, end |-> d, renews |-> TRUE, rest |-> rest]
    <2>1. At(s, "sweep") /\ ~Collects(j, n, e)
      BY <1>4, <1>11 DEF ClaimPeriod, At
    <2>2. CASE sub[m].next # j.rest[m]
      BY <1>3, <1>11, <2>1, <2>2 DEF ClaimPeriod
    <2>3. CASE sub[m].next = j.rest[m]
      <3>1. sub' = [sub EXCEPT ![m].next = d] /\ job' = [job EXCEPT ![s] = k]
        BY <1>11, <2>3 DEF ClaimPeriod
      <3> HIDE DEF rest, d
      <3>2. CASE m = n
        <4>1. sub[n] # NoSub
          <5>1. m \in DOMAIN j.rest /\ Listed(j.rest, sub, now)
            BY <1>11, <2>1, RunningJob DEF ClaimPeriod, At, OfASweep
          <5> QED BY <3>2, <5>1 DEF Listed
        <4>2. sub'[n].next = d
          BY <1>1, <3>1, <3>2, <4>1, SubFields
        <4>3. job'[s] = k
          BY <1>1, <3>1
        <4> QED BY <3>2, <4>2, <4>3 DEF Collects, Active
      <3>3. CASE m # n
        BY <1>1, <2>1, <3>1, <3>3 DEF Active
      <3> QED BY <3>2, <3>3
    <2> QED BY <2>2, <2>3
  <1>12. CASE WriteCancel(s)
    <2>1. At(s, "cancel") /\ j.sub \in Subs /\ sub[j.sub] \in Sub /\ sub[j.sub] # NoSub
      BY <1>1, <1>12, RunningJob DEF WriteCancel, OfASub, At
    <2>2. ~Collects(j, n, e)
      BY <1>4, <2>1 DEF At
    <2>3. CASE UNCHANGED sub
      BY <1>3, <2>2, <2>3
    <2>4. CASE sub' = [sub EXCEPT ![j.sub] = [@ EXCEPT !.status = "CUSTOMER_CANCELLED", !.autoRenew = FALSE]]
      <3>1. sub'[j.sub].status = "CUSTOMER_CANCELLED"
        BY <1>1, <2>1, <2>4, SubFields
      <3>2. j.sub # n
        BY <3>1 DEF Active
      <3> QED BY <1>1, <2>2, <2>4, <3>2 DEF Active
    <2> QED BY <1>12, <2>3, <2>4 DEF WriteCancel
  <1>13. CASE WritePlan(s)
    <2>1. At(s, "change") /\ j.sub \in Subs /\ sub[j.sub] \in Sub /\ sub[j.sub] # NoSub
      BY <1>1, <1>13, RunningJob DEF WritePlan, OfASub, At
    <2>2. ~Collects(j, n, e)
      BY <1>4, <2>1 DEF At
    <2>3. sub' = [sub EXCEPT ![j.sub].plan = j.plan]
      BY <1>13 DEF WritePlan
    <2>4. sub'[j.sub].status = sub[j.sub].status /\ sub'[j.sub].next = sub[j.sub].next
      BY <1>1, <2>1, <2>3, SubFields
    <2> QED BY <1>1, <2>2, <2>3, <2>4 DEF Active
  <1> QED BY <1>5, <1>6, <1>7, <1>8, <1>9, <1>10, <1>11, <1>12, <1>13 DEF Step

LEMMA ActiveNext ==
  ASSUME Typed, AccessInv, ActiveInv, [Next]_vars
  PROVE  ActiveInv'
  <1>1. (\A n, e : PaidFor(n, e) => PaidFor(n, e)') /\ (restarts' = 0 => restarts = 0)
    BY NeverUnpaid
  <1> SUFFICES ASSUME restarts' = 0, NEW n \in Subs, NEW e, Active(n, e)'
               PROVE  PaidFor(n, e)' \/ \E s \in Slots : Collects(job'[s], n, e)
    BY DEF ActiveInv, Active, With, Collects
  <1>2. Active(n, e) => PaidFor(n, e) \/ \E s \in Slots : Collects(job[s], n, e)
    BY <1>1 DEF ActiveInv, Active, With
  <1>3. CASE \E s \in Slots : Step(s)
    <2>1. PICK s \in Slots : Step(s)
      BY <1>3
    <2>2. \/ PaidFor(n, e)'
          \/ Collects(job'[s], n, e)
          \/ Active(n, e) /\ ~Collects(job[s], n, e)
      BY <2>1, StepActive DEF AccessInv
    <2>3. \A t \in Slots : t # s => job'[t] = job[t]
      <3>1. PICK k : job' = [job EXCEPT ![s] = k]
        BY <2>1, StepAccess
      <3> QED BY <2>1, <3>1, OtherJobs
    <2>4. ASSUME Active(n, e), ~Collects(job[s], n, e)
          PROVE  PaidFor(n, e)' \/ \E t \in Slots : Collects(job'[t], n, e)
      <3>1. CASE PaidFor(n, e)
        BY <1>1, <3>1
      <3>2. CASE \E t \in Slots : Collects(job[t], n, e)
        <4>1. PICK t \in Slots : Collects(job[t], n, e)
          BY <3>2
        <4>2. job'[t] = job[t]
          BY <2>3, <2>4, <4>1
        <4> QED BY <4>1, <4>2
      <3> QED BY <1>2, <2>4, <3>1, <3>2
    <2> QED BY <2>1, <2>2, <2>4
  <1>4. ASSUME UNCHANGED sub, \A t \in Slots : job'[t] = job[t] \/ job[t].at = "idle"
        PROVE  PaidFor(n, e)' \/ \E t \in Slots : Collects(job'[t], n, e)
    <2>1. Active(n, e)
      BY <1>4 DEF Active
    <2>2. CASE PaidFor(n, e)
      BY <1>1, <2>2
    <2>3. CASE \E t \in Slots : Collects(job[t], n, e)
      <3>1. PICK t \in Slots : Collects(job[t], n, e)
        BY <2>3
      <3>2. job'[t] = job[t]
        BY <1>4, <3>1 DEF Collects
      <3> QED BY <3>1, <3>2
    <2> QED BY <1>2, <2>1, <2>2, <2>3
  <1>5. CASE UNCHANGED vars
    BY <1>4, <1>5 DEF vars
  <1>6. CASE \E s \in Slots : Request(s)
    <2>1. PICK s \in Slots : Request(s)
      BY <1>6
    <2>2. /\ UNCHANGED sub /\ job[s].at = "idle"
          /\ \A t \in Slots : t # s => job'[t] = job[t]
      BY <2>1, RequestFrame
    <2> QED BY <1>4, <2>2
  <1>7. CASE \E m \in Subs : RejectPayment(m) \/ RequestInfo(m)
    BY <1>4, <1>7 DEF RejectPayment, RequestInfo
  <1>8. CASE RevokeAccess \/ AddFunds \/ Tick
    BY <1>4, <1>8, AddFundsEffect DEF RevokeAccess, Tick
  <1>9. CASE \E P \in SUBSET Slots : \E s \in P : Restart(P, s)
    <2>1. restarts' > 0
      BY <1>9, RestartJobs
    <2> QED BY <2>1
  <1> QED BY <1>3, <1>5, <1>6, <1>7, <1>8, <1>9 DEF Next

LEMMA ActiveInit == Init => ActiveInv
  BY DEF Init, ActiveInv, With, NoSub

LEMMA AlwaysActive == Spec => [](Typed /\ AccessInv /\ ActiveInv)
  <1>1. Init => Typed /\ AccessInv /\ ActiveInv
    BY InitTyped, AccessInit, ActiveInit
  <1>2. (Typed /\ AccessInv /\ ActiveInv) /\ [Next]_vars => (Typed /\ AccessInv /\ ActiveInv)'
    BY NextTyped, AccessNext, ActiveNext
  <1> QED BY <1>1, <1>2, PTL DEF Spec

(* A subscription that reads ACTIVE is paid through its next billing date, *)
(* or a handler is still at work on it, whatever claims, collections,      *)
(* cancellations, changes of plan and verifications overlap.               *)
THEOREM ActiveMeansPaid == Spec => []ActiveIsPaid
  <1>1. Typed /\ ActiveInv => ActiveIsPaid
    <2> SUFFICES ASSUME Typed, ActiveInv, restarts = 0, NEW n \in With({"ACTIVE"})
                 PROVE  AtWork(n) \/ PaidFor(n, sub[n].next)
      BY DEF ActiveIsPaid
    <2>1. ASSUME NEW s \in Slots, NEW e, Collects(job[s], n, e)
          PROVE  AtWork(n)
      <3>1. job[s] \in Job /\ job[s].at \in {"debit", "request", "mark"} /\ job[s].sub = n
        BY <2>1 DEF Typed, TypeOK, Collects
      <3>2. "sub" \in DOMAIN job[s]
        BY <3>1 DEF Job, Idle
      <3> QED BY <3>1, <3>2 DEF AtWork
    <2> QED BY <2>1 DEF ActiveInv
  <1> QED BY <1>1, AlwaysActive, PTL

(***************************************************************************)
(* Periods paid once.                                                      *)
(***************************************************************************)

(* Who is about to pay for the period e of n, or has asked for it. *)
Paying(j, n, e) == j.at \in {"debit", "request"} /\ j.sub = n /\ j.end = e
Asked(n, e) == Awaited(n) /\ payment[n].end = e
Claimed(n, e) == (\E s \in Slots : Paying(job[s], n, e)) \/ Asked(n, e) \/ PaidFor(n, e)

(* One claim of a period at a time, and none ahead of the billing date; a  *)
(* subscription without a billing date has claimed one period only. *)
Once(n) ==
  /\ \A s, t \in Slots, e \in Ends : Paying(job[s], n, e) /\ Paying(job[t], n, e) => s = t
  /\ \A s \in Slots, e \in Ends : Paying(job[s], n, e) => ~Asked(n, e) /\ ~PaidFor(n, e)
  /\ \A e \in Ends : Asked(n, e) => ~PaidFor(n, e)
  /\ ~Twice(n)
  /\ \A e \in Ends : Claimed(n, e) => sub[n] # NoSub
  /\ \A e \in Ends : Claimed(n, e) /\ sub[n].next # NoBilling => e <= sub[n].next
  /\ \A e, d \in Ends : Claimed(n, e) /\ Claimed(n, d) /\ sub[n].next = NoBilling => e = d

OnceInv == \A n \in Subs \ late : Once(n)

(* A step that makes no claim of n. *)
LEMMA OnceStays ==
  ASSUME Typed, NEW n \in Subs, Once(n),
         \A t \in Slots, e \in Ends : Paying(job'[t], n, e) => Paying(job[t], n, e),
         \A e \in Ends : Asked(n, e)' => Asked(n, e),
         \A p \in Purchase : p.sub = n => paid'[p] = paid[p],
         sub[n] # NoSub => sub'[n] # NoSub /\ sub'[n].next = sub[n].next
  PROVE  Once(n)'
  <1>1. \A e \in Ends : PaidFor(n, e)' <=> PaidFor(n, e)
    BY DEF PaidFor
  <1>2. \A e \in Ends : Claimed(n, e)' => Claimed(n, e)
    BY <1>1 DEF Claimed
  <1>3. ~Twice(n)'
    BY DEF Once, Twice
  <1>4. \A s, t \in Slots, e \in Ends : Paying(job'[s], n, e) /\ Paying(job'[t], n, e) => s = t
    BY DEF Once
  <1>5. \A s \in Slots, e \in Ends : Paying(job'[s], n, e) => ~Asked(n, e)' /\ ~PaidFor(n, e)'
    BY <1>1 DEF Once
  <1>6. \A e \in Ends : Asked(n, e)' => ~PaidFor(n, e)'
    BY <1>1 DEF Once
  <1>7. \A e \in Ends : Claimed(n, e)' => sub'[n] # NoSub
    BY <1>2 DEF Once
  <1>8. \A e \in Ends : Claimed(n, e)' /\ sub'[n].next # NoBilling => e <= sub'[n].next
    BY <1>2 DEF Once
  <1>9. \A e, d \in Ends : Claimed(n, e)' /\ Claimed(n, d)' /\ sub'[n].next = NoBilling => e = d
    BY <1>2 DEF Once
  <1> QED BY <1>3, <1>4, <1>5, <1>6, <1>7, <1>8, <1>9 DEF Once, Paying

(* The one claim of a period becomes its purchase. *)
LEMMA ClaimBought ==
  ASSUME Typed, NEW n \in Subs, NEW e \in Ends, NEW by \in {"wallet", "upi"}, Once(n),
         paid' = Pay([sub |-> n, end |-> e, by |-> by]), UNCHANGED sub,
         Claimed(n, e), ~PaidFor(n, e),
         \A t \in Slots, d \in Ends : Paying(job'[t], n, d) => Paying(job[t], n, d) /\ d # e,
         \A d \in Ends : Asked(n, d)' => Asked(n, d) /\ d # e
  PROVE  Once(n)'
  <1> DEFINE q == [sub |-> n, end |-> e, by |-> by]
  <1>1. /\ q \in Purchase /\ q.sub = n /\ q.end = e /\ paid'[q] = paid[q] + 1
        /\ \A p \in Purchase : p # q => paid'[p] = paid[p]
        /\ \A p \in Purchase : paid[p] \in Nat
    BY Paid DEF Typed, TypeOK
  <1> HIDE DEF q
  <1>2. \A p \in Purchase : p.sub = n /\ p.end = e => paid[p] = 0
    BY <1>1 DEF PaidFor
  <1>3. \A d \in Ends : d # e => (PaidFor(n, d)' <=> PaidFor(n, d))
    BY <1>1 DEF PaidFor
  <1>4. \A d \in Ends : Claimed(n, d)' => Claimed(n, d)
    BY <1>3 DEF Claimed
  <1>5. ~Twice(n)'
    <2> SUFFICES ASSUME NEW p \in Purchase, NEW r \in Purchase, p.sub = n, r.sub = n, p.end = r.end,
                        paid'[p] > 0, paid'[r] > 0, p # r \/ paid'[p] > 1
                 PROVE  FALSE
      BY DEF Twice
    <2>1. CASE p.end = e
      <3>1. ASSUME NEW o \in Purchase, o.sub = n, o.end = e, paid'[o] > 0
            PROVE  o = q
        <4>1. paid[o] = 0
          BY <1>2, <3>1
        <4> QED BY <1>1, <3>1, <4>1
      <3>2. p = q /\ r = q
        BY <2>1, <3>1
      <3>3. paid'[q] = 1
        BY <1>1, <1>2
      <3> QED BY <3>2, <3>3
    <2>2. CASE p.end # e
      <3>1. paid'[p] = paid[p] /\ paid'[r] = paid[r]
        BY <1>1, <2>2
      <3> QED BY <3>1 DEF Once, Twice
    <2> QED BY <2>1, <2>2
  <1>6. \A s, t \in Slots, d \in Ends : Paying(job'[s], n, d) /\ Paying(job'[t], n, d) => s = t
    BY DEF Once
  <1>7. \A s \in Slots, d \in Ends : Paying(job'[s], n, d) => ~Asked(n, d)' /\ ~PaidFor(n, d)'
    BY <1>3 DEF Once
  <1>8. \A d \in Ends : Asked(n, d)' => ~PaidFor(n, d)'
    BY <1>3 DEF Once
  <1>9. \A d \in Ends : Claimed(n, d)' => sub'[n] # NoSub
    BY <1>4 DEF Once
  <1>10. \A d \in Ends : Claimed(n, d)' /\ sub'[n].next # NoBilling => d <= sub'[n].next
    BY <1>4 DEF Once
  <1>11. \A c, d \in Ends : Claimed(n, c)' /\ Claimed(n, d)' /\ sub'[n].next = NoBilling => c = d
    BY <1>4 DEF Once
  <1> QED BY <1>5, <1>6, <1>7, <1>8, <1>9, <1>10, <1>11 DEF Once, Paying

(* A handler claims a period that nobody has claimed. *)
LEMMA ClaimMade ==
  ASSUME Typed, NEW n \in Subs, NEW e \in Ends, Once(n), NEW s \in Slots,
         UNCHANGED <<payment, paid>>, ~Claimed(n, e),
         \A t \in Slots, d \in Ends : Paying(job'[t], n, d) => IF t = s THEN d = e ELSE Paying(job[t], n, d),
         sub'[n] # NoSub,
         sub'[n].next # NoBilling => e <= sub'[n].next /\ \A d \in Ends : Claimed(n, d) => d <= sub'[n].next,
         sub'[n].next = NoBilling => \A d \in Ends : ~Claimed(n, d)
  PROVE  Once(n)'
  <1>1. /\ \A d \in Ends : PaidFor(n, d)' <=> PaidFor(n, d)
        /\ \A d \in Ends : Asked(n, d)' <=> Asked(n, d)
        /\ ~Twice(n)'
    BY DEF PaidFor, Asked, Awaited, Twice, Once
  <1>2. \A d \in Ends : Claimed(n, d)' => Claimed(n, d) \/ d = e
    BY <1>1 DEF Claimed
  <1>3. ~Asked(n, e) /\ ~PaidFor(n, e) /\ \A t \in Slots : ~Paying(job[t], n, e)
    BY DEF Claimed
  <1>4. \A r, t \in Slots, d \in Ends : Paying(job'[r], n, d) /\ Paying(job'[t], n, d) => r = t
    BY <1>3 DEF Once
  <1>5. \A t \in Slots, d \in Ends : Paying(job'[t], n, d) => ~Asked(n, d)' /\ ~PaidFor(n, d)'
    BY <1>1, <1>3 DEF Once
  <1>6. \A d \in Ends : Asked(n, d)' => ~PaidFor(n, d)'
    BY <1>1 DEF Once
  <1>7. \A d \in Ends : Claimed(n, d)' /\ sub'[n].next # NoBilling => d <= sub'[n].next
    BY <1>2
  <1>8. \A c, d \in Ends : Claimed(n, c)' /\ Claimed(n, d)' /\ sub'[n].next = NoBilling => c = d
    BY <1>2
  <1> QED BY <1>1, <1>4, <1>5, <1>6, <1>7, <1>8 DEF Once, Paying

(* The one claim of a period becomes a request for it. *)
LEMMA ClaimAsked ==
  ASSUME Typed, NEW n \in Subs, NEW e \in Ends, Once(n), NEW s \in Slots, Paying(job[s], n, e),
         UNCHANGED <<sub, paid>>,
         \A t \in Slots, d \in Ends : Paying(job'[t], n, d) => t # s /\ Paying(job[t], n, d),
         \A d \in Ends : Asked(n, d)' => d = e
  PROVE  Once(n)'
  <1>1. /\ \A d \in Ends : PaidFor(n, d)' <=> PaidFor(n, d)
        /\ ~Twice(n)'
    BY DEF PaidFor, Twice, Once
  <1>2. \A d \in Ends : Claimed(n, d)' => Claimed(n, d)
    BY <1>1 DEF Claimed
  <1>3. ~PaidFor(n, e) /\ \A t \in Slots : t # s => ~Paying(job[t], n, e)
    BY DEF Once
  <1>4. \A r, t \in Slots, d \in Ends : Paying(job'[r], n, d) /\ Paying(job'[t], n, d) => r = t
    BY DEF Once
  <1>5. \A t \in Slots, d \in Ends : Paying(job'[t], n, d) => ~Asked(n, d)' /\ ~PaidFor(n, d)'
    BY <1>1, <1>3 DEF Once
  <1>6. \A d \in Ends : Asked(n, d)' => ~PaidFor(n, d)'
    BY <1>1, <1>3
  <1>7. \A d \in Ends : Claimed(n, d)' => sub'[n] # NoSub
    BY <1>2 DEF Once
  <1>8. \A d \in Ends : Claimed(n, d)' /\ sub'[n].next # NoBilling => d <= sub'[n].next
    BY <1>2 DEF Once
  <1>9. \A c, d \in Ends : Claimed(n, c)' /\ Claimed(n, d)' /\ sub'[n].next = NoBilling => c = d
    BY <1>2 DEF Once
  <1> QED BY <1>1, <1>4, <1>5, <1>6, <1>7, <1>8, <1>9 DEF Once, Paying

(* A paid period becomes the one billed through, unless the row is ahead. *)
LEMMA ClaimActivated ==
  ASSUME Typed, NEW n \in Subs, NEW e \in Ends, Once(n), PaidFor(n, e),
         UNCHANGED <<payment, paid>>,
         \A t \in Slots, d \in Ends : Paying(job'[t], n, d) => Paying(job[t], n, d),
         sub[n] # NoSub, sub'[n] # NoSub, sub'[n].next = e, ~(e < sub[n].next)
  PROVE  Once(n)'
  <1>1. /\ \A d \in Ends : PaidFor(n, d)' <=> PaidFor(n, d)
        /\ \A d \in Ends : Asked(n, d)' <=> Asked(n, d)
        /\ ~Twice(n)'
    BY DEF PaidFor, Asked, Awaited, Twice, Once
  <1>2. \A d \in Ends : Claimed(n, d)' => Claimed(n, d)
    BY <1>1 DEF Claimed
  <1>3. Claimed(n, e)
    BY DEF Claimed
  <1>4. e \in Nat /\ e # NoBilling /\ sub[n].next \in Nat /\ \A d \in Ends : d \in Nat
    BY SubFields, SubscriptionAssumption DEF Ends, NoBilling, Typed, TypeOK
  <1>5. \A d \in Ends : Claimed(n, d) => d <= e
    <2>1. CASE sub[n].next = NoBilling
      BY <1>3, <1>4, <2>1 DEF Once
    <2>2. CASE sub[n].next # NoBilling
      BY <1>4, <2>2 DEF Once
    <2> QED BY <2>1, <2>2
  <1>6. \A r, t \in Slots, d \in Ends : Paying(job'[r], n, d) /\ Paying(job'[t], n, d) => r = t
    BY DEF Once
  <1>7. \A t \in Slots, d \in Ends : Paying(job'[t], n, d) => ~Asked(n, d)' /\ ~PaidFor(n, d)'
    BY <1>1 DEF Once
  <1>8. \A d \in Ends : Asked(n, d)' => ~PaidFor(n, d)'
    BY <1>1 DEF Once
  <1>9. \A d \in Ends : Claimed(n, d)' /\ sub'[n].next # NoBilling => d <= sub'[n].next
    BY <1>2, <1>5
  <1>10. \A c, d \in Ends : Claimed(n, c)' /\ Claimed(n, d)' /\ sub'[n].next = NoBilling => c = d
    BY <1>4
  <1> QED BY <1>1, <1>6, <1>7, <1>8, <1>9, <1>10 DEF Once, Paying

LEMMA OthersPurchases ==
  ASSUME TypeOK, NEW n \in Subs, NEW m \in Subs, m # n, NEW e \in Ends, NEW by \in {"wallet", "upi"},
         paid' = Pay([sub |-> m, end |-> e, by |-> by])
  PROVE  \A p \in Purchase : p.sub = n => paid'[p] = paid[p]
  <1> DEFINE q == [sub |-> m, end |-> e, by |-> by]
  <1>1. q.sub = m /\ \A p \in Purchase : p # q => paid'[p] = paid[p]
    BY Paid
  <1> HIDE DEF q
  <1> QED BY <1>1

(* A handler's step, seen from a subscription that no older period came    *)
(* back to. *)
LEMMA OnceStep ==
  ASSUME Typed, Backed, NEW s \in Slots, Step(s), NEW n \in Subs, n \notin late', Once(n)
  PROVE  Once(n)'
  <1> USE DEF Continue, Return
  <1> DEFINE j == job[s]
  <1>1. /\ TypeOK /\ sub \in [Subs -> Sub] /\ job \in [Slots -> Job] /\ payment \in [Subs -> Payment]
        /\ now \in 0..Horizon
    BY DEF Typed, TypeOK
  <1>2. \A t \in Slots : t # s => job'[t] = job[t]
    <2>1. PICK k : job' = [job EXCEPT ![s] = k]
      BY StepAccess
    <2> QED BY <2>1, OtherJobs
  <1>3. ASSUME job'[s].at \notin {"debit", "request"}
        PROVE  \A t \in Slots, e \in Ends : Paying(job'[t], n, e) => t # s /\ Paying(job[t], n, e)
    BY <1>2, <1>3 DEF Paying
  <1>4. ASSUME payment'[n] = payment[n]
        PROVE  \A e \in Ends : Asked(n, e)' <=> Asked(n, e)
    BY <1>4 DEF Asked, Awaited
  <1>5. ASSUME job'[s].at \notin {"debit", "request"}, UNCHANGED paid, payment'[n] = payment[n],
               sub[n] # NoSub => sub'[n] # NoSub /\ sub'[n].next = sub[n].next
        PROVE  Once(n)'
    BY <1>3, <1>4, <1>5, OnceStays
  <1>6. CASE CreateSubscription(s)
    <2>1. At(s, "create") /\ UNCHANGED <<payment, paid>>
      BY <1>6 DEF CreateSubscription
    <2>2. CASE With({"NONE"}) = {}
      <3>1. UNCHANGED sub /\ job'[s].at = "idle"
        BY <1>1, <1>6, <2>2, IdleGood DEF CreateSubscription
      <3> QED BY <1>5, <2>1, <3>1
    <2>3. CASE With({"NONE"}) # {}
      <3> DEFINE m == Min(With({"NONE"}))
                 r == [plan |-> j.plan, status |-> "PENDING", autoRenew |-> TRUE, next |-> NoBilling]
                 e == now + 1
                 k == [at |-> "debit", sub |-> m, end |-> e, renews |-> FALSE, rest |-> None]
      <3>1. sub' = [sub EXCEPT ![m] = r] /\ job' = [job EXCEPT ![s] = k]
        BY <1>6, <2>3 DEF CreateSubscription
      <3>2. m \in Subs /\ sub[m] = NoSub
        <4>1. With({"NONE"}) \in SUBSET Nat
          BY SubscriptionAssumption DEF With, Subs
        <4>2. m \in With({"NONE"})
          BY <2>3, <4>1, MinIsIn
        <4> QED BY <1>1, <4>2, NoneMissing
      <3>3. e \in Ends
        BY <1>1, SubscriptionAssumption DEF Ends
      <3>4. r # NoSub /\ r.next = NoBilling
        BY DEF NoSub
      <3>5. k.at = "debit" /\ k.sub = m /\ k.end = e
        OBVIOUS
      <3> HIDE DEF m, r, e, k
      <3>6. job'[s] = k
        BY <1>1, <3>1
      <3>7. CASE m = n
        <4>1. sub[n] = NoSub /\ sub'[n] = r
          BY <1>1, <3>1, <3>2, <3>7
        <4>2. \A d \in Ends : ~Claimed(n, d)
          BY <4>1 DEF Once
        <4>3. \A t \in Slots, d \in Ends :
                Paying(job'[t], n, d) => IF t = s THEN d = e ELSE Paying(job[t], n, d)
          BY <1>2, <3>5, <3>6 DEF Paying
        <4> QED BY <2>1, <3>3, <3>4, <4>1, <4>2, <4>3, ClaimMade
      <3>8. CASE m # n
        <4>1. sub'[n] = sub[n]
          BY <1>1, <3>1, <3>8
        <4>2. \A t \in Slots, d \in Ends : Paying(job'[t], n, d) => Paying(job[t], n, d)
          BY <1>2, <3>5, <3>6, <3>8 DEF Paying
        <4> QED BY <1>4, <2>1, <4>1, <4>2, OnceStays
      <3> QED BY <3>7, <3>8
    <2> QED BY <2>2, <2>3
  <1>7. CASE Debit(s)
    <2>1. /\ At(s, "debit") /\ UNCHANGED <<sub, payment>> /\ j.sub \in Subs /\ j.end \in Ends
          /\ j = [at |-> "debit", sub |-> j.sub, end |-> j.end, renews |-> j.renews, rest |-> j.rest]
      BY <1>7, RunningJob DEF Debit, At
    <2>2. CASE balance >= 1
      <3>1. /\ paid' = Pay([sub |-> j.sub, end |-> j.end, by |-> "wallet"])
            /\ job' = [job EXCEPT ![s] = [at |-> "activate", sub |-> j.sub, end |-> j.end, rest |-> j.rest]]
        BY <1>7, <2>2 DEF Debit
      <3>2. job'[s].at = "activate"
        BY <1>1, <3>1
      <3>3. CASE j.sub = n
        <4>1. Paying(j, n, j.end)
          BY <2>1, <3>3 DEF Paying, At
        <4>2. Claimed(n, j.end) /\ ~PaidFor(n, j.end) /\ ~Asked(n, j.end)
              /\ \A t \in Slots : t # s => ~Paying(job[t], n, j.end)
          BY <2>1, <4>1 DEF Claimed, Once
        <4>3. \A t \in Slots, d \in Ends : Paying(job'[t], n, d) => Paying(job[t], n, d) /\ d # j.end
          BY <1>3, <3>2, <4>2
        <4>4. \A d \in Ends : Asked(n, d)' => Asked(n, d) /\ d # j.end
          BY <1>4, <2>1, <4>2
        <4>5. paid' = Pay([sub |-> n, end |-> j.end, by |-> "wallet"])
          BY <3>1, <3>3
        <4>6. \A e \in Ends : e = j.end => Once(n)'
          <5> HIDE DEF j
          <5> QED BY <2>1, <4>2, <4>3, <4>4, <4>5, ClaimBought
        <4> QED BY <2>1, <4>6
      <3>4. CASE j.sub # n
        <4>1. \A p \in Purchase : p.sub = n => paid'[p] = paid[p]
          BY <1>1, <2>1, <3>1, <3>4, OthersPurchases
        <4> QED BY <1>3, <1>4, <2>1, <3>2, <4>1, OnceStays
      <3> QED BY <3>3, <3>4
    <2>3. CASE ~(balance >= 1)
      <3>1. job' = [job EXCEPT ![s] = [j EXCEPT !.at = "request"]] /\ UNCHANGED paid
        BY <1>7, <2>3 DEF Debit
      <3>2. job'[s] = [at |-> "request", sub |-> j.sub, end |-> j.end, renews |-> j.renews, rest |-> j.rest]
        BY <1>1, <2>1, <3>1
      <3>3. \A e \in Ends : Paying(job'[s], n, e) => Paying(j, n, e)
        BY <2>1, <3>2 DEF Paying, At
      <3>4. \A t \in Slots, e \in Ends : Paying(job'[t], n, e) => Paying(job[t], n, e)
        BY <1>2, <3>3
      <3> QED BY <1>4, <2>1, <3>1, <3>4, OnceStays
    <2> QED BY <2>2, <2>3
  <1>8. CASE OpenRequest(s)
    <2>1. /\ At(s, "request") /\ UNCHANGED <<sub, paid>> /\ j.sub \in Subs /\ j.end \in Ends
          /\ payment' = [payment EXCEPT ![j.sub] = [status |-> "VERIFICATION_PENDING", end |-> j.end]]
      BY <1>8, RunningJob DEF OpenRequest
    <2>2. job'[s].at \in {"mark", "idle", "sweep"}
      <3>1. CASE j.renews
        <4>1. job' = [job EXCEPT ![s] = [at |-> "mark", sub |-> j.sub, rest |-> j.rest]]
          BY <1>8, <3>1 DEF OpenRequest
        <4> QED BY <1>1, <4>1
      <3>2. CASE ~j.renews
        <4>1. Resume(s, j.rest)
          BY <1>8, <3>2 DEF OpenRequest
        <4> QED BY <4>1, ResumedJob
      <3> QED BY <3>1, <3>2
    <2>3. CASE j.sub = n
      <3>1. Paying(j, n, j.end)
        BY <2>1, <2>3 DEF Paying, At
      <3>2. payment'[n].end = j.end
        BY <1>1, <2>1, <2>3
      <3>3. \A d \in Ends : Asked(n, d)' => d = j.end
        BY <3>2 DEF Asked
      <3>4. \A t \in Slots, d \in Ends : Paying(job'[t], n, d) => t # s /\ Paying(job[t], n, d)
        BY <1>3, <2>2
      <3> QED BY <2>1, <3>1, <3>3, <3>4, ClaimAsked
    <2>4. CASE j.sub # n
      <3>1. payment'[n] = payment[n]
        BY <1>1, <2>1, <2>4
      <3> QED BY <1>5, <2>1, <2>2, <3>1
    <2> QED BY <2>3, <2>4
  <1>9. CASE MarkPastDue(s)
    <2>1. At(s, "mark") /\ UNCHANGED <<payment, paid>> /\ j.sub \in Subs /\ sub[j.sub] \in Sub /\ sub[j.sub] # NoSub
      BY <1>1, <1>9, RunningJob DEF MarkPastDue, OfASub, At
    <2>2. sub' = [sub EXCEPT ![j.sub].status = "PAST_DUE"] /\ Resume(s, j.rest)
      BY <1>9 DEF MarkPastDue
    <2>3. sub'[j.sub].status = "PAST_DUE" /\ sub'[j.sub].next = sub[j.sub].next
      BY <1>1, <2>1, <2>2, SubFields
    <2>4. sub'[j.sub] # NoSub
      BY <2>3 DEF NoSub
    <2>5. sub[n] # NoSub => sub'[n] # NoSub /\ sub'[n].next = sub[n].next
      BY <1>1, <2>2, <2>3, <2>4
    <2>6. job'[s].at \notin {"debit", "request"}
      BY <2>2, ResumedJob
    <2> QED BY <1>5, <2>1, <2>5, <2>6
  <1>10. CASE ActivatePeriod(s)
    <2>1. /\ At(s, "activate") /\ UNCHANGED <<payment, paid>> /\ j.sub \in Subs /\ j.end \in Ends
          /\ sub[j.sub] \in Sub /\ sub[j.sub] # NoSub
      BY <1>1, <1>10, RunningJob DEF ActivatePeriod, OfASub, At
    <2>2. CASE sub[j.sub].status = "CUSTOMER_CANCELLED"
      <3>1. Resume(s, j.rest) /\ UNCHANGED sub
        BY <1>10, <2>2 DEF ActivatePeriod
      <3>2. job'[s].at \notin {"debit", "request"}
        BY <3>1, ResumedJob
      <3> QED BY <1>5, <2>1, <3>1, <3>2
    <2>3. CASE sub[j.sub].status # "CUSTOMER_CANCELLED"
      <3>1. /\ sub' = [sub EXCEPT ![j.sub] = [@ EXCEPT !.status = "ACTIVE", !.autoRenew = TRUE, !.next = j.end]]
            /\ late' = late \cup (IF j.end < sub[j.sub].next THEN {j.sub} ELSE {})
            /\ job' = [job EXCEPT ![s] = [at |-> "access", end |-> j.end, rest |-> j.rest]]
        BY <1>10, <2>3 DEF ActivatePeriod
      <3>2. job'[s].at = "access"
        BY <1>1, <3>1
      <3>3. CASE j.sub = n
        <4>1. sub'[n].status = "ACTIVE" /\ sub'[n].next = j.end
          BY <1>1, <2>1, <3>1, <3>3, SubFields
        <4>2. sub'[n] # NoSub
          BY <4>1 DEF NoSub
        <4>3. ~(j.end < sub[n].next)
          BY <3>1, <3>3
        <4>4. PaidFor(n, j.end)
          BY <2>1, <3>3 DEF Backed, At
        <4>5. \A t \in Slots, d \in Ends : Paying(job'[t], n, d) => Paying(job[t], n, d)
          BY <1>3, <3>2
        <4> QED BY <2>1, <3>3, <4>1, <4>2, <4>3, <4>4, <4>5, ClaimActivated
      <3>4. CASE j.sub # n
        <4>1. sub'[n] = sub[n]
          BY <1>1, <3>1, <3>4
        <4> QED BY <1>5, <2>1, <3>2, <4>1
      <3> QED BY <3>3, <3>4
    <2> QED BY <2>2, <2>3
  <1>11. CASE ReadAccess(s) \/ ExtendAccess(s)
    <2>1. UNCHANGED <<sub, payment, paid>> /\ (At(s, "access") \/ At(s, "extend"))
      BY <1>11 DEF ReadAccess, ExtendAccess
    <2>2. Resume(s, j.rest) \/ job' = [job EXCEPT ![s] = [j EXCEPT !.at = "extend"]]
      BY <1>11 DEF ReadAccess, ExtendAccess
    <2>3. [j EXCEPT !.at = "extend"].at = "extend"
      BY <2>1, RunningJob
    <2>4. job'[s].at \notin {"debit", "request"}
      BY <1>1, <2>2, <2>3, ResumedJob
    <2> QED BY <1>5, <2>1, <2>4
  <1>12. ASSUME NEW m \in Subs, ClaimPeriod(s, m)
         PROVE  Once(n)'
    <2> DEFINE rest == [i \in DOMAIN j.rest \ {m} |-> j.rest[i]]
               e == j.rest[m] + 1
               k == [at |-> "debit", sub |-> m, end |-> e, renews |-> TRUE, rest |-> rest]
    <2>1. At(s, "sweep") /\ UNCHANGED <<payment, paid>> /\ m \in DOMAIN j.rest
      BY <1>12 DEF ClaimPeriod
    <2>2. CASE sub[m].next # j.rest[m]
      <3>1. Resume(s, rest) /\ UNCHANGED sub
        BY <1>12, <2>2 DEF ClaimPeriod
      <3> HIDE DEF rest
      <3>2. job'[s].at \notin {"debit", "request"}
        BY <3>1, ResumedJob
      <3> QED BY <1>5, <2>1, <3>1, <3>2
    <2>3. CASE sub[m].next = j.rest[m]
      <3>1. sub' = [sub EXCEPT ![m].next = e] /\ job' = [job EXCEPT ![s] = k]
        BY <1>12, <2>3 DEF ClaimPeriod
      <3>2. j.rest \in Batches /\ Listed(j.rest, sub, now)
        BY <2>1, RunningJob DEF At, OfASweep
      <3>3. j.rest[m] \in Ends /\ j.rest[m] <= now /\ sub[m] # NoSub
        BY <2>1, <3>2 DEF Batches, Listed
      <3>4. e \in Ends /\ e = j.rest[m] + 1 /\ j.rest[m] # NoBilling /\ e # NoBilling
        BY <1>1, <3>3, SubscriptionAssumption DEF Ends, NoBilling
      <3>5. k.at = "debit" /\ k.sub = m /\ k.end = e
        OBVIOUS
      <3> HIDE DEF rest, k, e
      <3>6. job'[s] = k
        BY <1>1, <3>1
      <3>7. CASE m = n
        <4>1. sub'[n].next = e /\ sub'[n].status = sub[n].status
          BY <1>1, <3>1, <3>3, <3>7, SubFields
        <4>2. sub[n].status \in SubStatus
          BY <1>1, <3>3, <3>7, SubFields
        <4>3. sub'[n] # NoSub
          BY <4>1, <4>2 DEF NoSub, SubStatus
        <4>4. \A d \in Ends : Claimed(n, d) => d <= j.rest[m]
          BY <2>3, <3>4, <3>7 DEF Once
        <4>5. ~Claimed(n, e) /\ \A d \in Ends : Claimed(n, d) => d <= e
          <5>1. j.rest[m] \in Nat /\ \A d \in Ends : d \in Nat
            BY <3>3, SubscriptionAssumption DEF Ends
          <5> QED BY <3>4, <4>4, <5>1
        <4>6. \A t \in Slots, d \in Ends :
                Paying(job'[t], n, d) => IF t = s THEN d = e ELSE Paying(job[t], n, d)
          BY <1>2, <3>5, <3>6 DEF Paying
        <4>7. e <= e
          BY <3>4, SubscriptionAssumption DEF Ends
        <4> QED BY <2>1, <3>4, <4>1, <4>3, <4>5, <4>6, <4>7, ClaimMade
      <3>8. CASE m # n
        <4>1. sub'[n] = sub[n]
          BY <1>1, <3>1, <3>8
        <4>2. \A t \in Slots, d \in Ends : Paying(job'[t], n, d) => Paying(job[t], n, d)
          BY <1>2, <3>5, <3>6, <3>8 DEF Paying
        <4> QED BY <1>4, <2>1, <4>1, <4>2, OnceStays
      <3> QED BY <3>7, <3>8
    <2> QED BY <2>2, <2>3
  <1>13. CASE VerifyPayment(s)
    <2>1. At(s, "verify") /\ UNCHANGED sub /\ j.sub \in Subs /\ j.end \in Ends
      BY <1>13, RunningJob DEF VerifyPayment
    <2>2. CASE Awaited(j.sub)
      <3>1. /\ payment' = [payment EXCEPT ![j.sub].status = "VERIFIED"]
            /\ paid' = Pay([sub |-> j.sub, end |-> j.end, by |-> "upi"])
            /\ late' = late \cup (IF j.end # payment[j.sub].end THEN {j.sub} ELSE {})
            /\ job' = [job EXCEPT ![s] = [at |-> "activate", sub |-> j.sub, end |-> j.end, rest |-> None]]
        BY <1>13, <2>2 DEF VerifyPayment
      <3>2. job'[s].at = "activate"
        BY <1>1, <3>1
      <3>3. payment[j.sub] # NoPayment
        BY <1>1, <2>1, <2>2, AwaitedExists
      <3>4. payment'[j.sub].status = "VERIFIED" /\ \A m \in Subs \ {j.sub} : payment'[m] = payment[m]
        BY <1>1, <2>1, <3>1, <3>3, PaymentMarked DEF PaymentStatus
      <3>5. CASE j.sub = n
        <4>1. Asked(n, j.end)
          BY <2>2, <3>1, <3>5 DEF Asked
        <4>2. Claimed(n, j.end) /\ ~PaidFor(n, j.end) /\ \A t \in Slots : ~Paying(job[t], n, j.end)
          BY <2>1, <4>1 DEF Claimed, Once
        <4>3. \A t \in Slots, d \in Ends : Paying(job'[t], n, d) => Paying(job[t], n, d) /\ d # j.end
          BY <1>3, <3>2, <4>2
        <4>4. \A d \in Ends : ~Asked(n, d)'
          BY <3>4, <3>5 DEF Asked, Awaited
        <4>5. paid' = Pay([sub |-> n, end |-> j.end, by |-> "upi"])
          BY <3>1, <3>5
        <4>6. \A e \in Ends : e = j.end => Once(n)'
          <5> HIDE DEF j
          <5> QED BY <2>1, <4>2, <4>3, <4>4, <4>5, ClaimBought
        <4> QED BY <2>1, <4>6
      <3>6. CASE j.sub # n
        <4>1. \A p \in Purchase : p.sub = n => paid'[p] = paid[p]
          BY <1>1, <2>1, <3>1, <3>6, OthersPurchases
        <4>2. payment'[n] = payment[n]
          BY <3>4, <3>6
        <4> QED BY <1>3, <1>4, <2>1, <3>2, <4>1, <4>2, OnceStays
      <3> QED BY <3>5, <3>6
    <2>3. CASE ~Awaited(j.sub)
      <3>1. UNCHANGED <<payment, paid>> /\ job'[s].at = "idle"
        BY <1>1, <1>13, <2>3, IdleGood DEF VerifyPayment
      <3> QED BY <1>5, <2>1, <3>1
    <2> QED BY <2>2, <2>3
  <1>14. CASE WriteCancel(s)
    <2>1. /\ At(s, "cancel") /\ UNCHANGED <<payment, paid>> /\ j.sub \in Subs
          /\ sub[j.sub] \in Sub /\ sub[j.sub] # NoSub /\ job' = [job EXCEPT ![s] = Idle]
      BY <1>1, <1>14, RunningJob DEF WriteCancel, OfASub, At
    <2>2. job'[s].at = "idle"
      BY <1>1, <2>1, IdleGood
    <2>3. CASE UNCHANGED sub
      BY <1>5, <2>1, <2>2, <2>3
    <2>4. CASE sub' = [sub EXCEPT ![j.sub] = [@ EXCEPT !.status = "CUSTOMER_CANCELLED", !.autoRenew = FALSE]]
      <3>1. sub'[j.sub].status = "CUSTOMER_CANCELLED" /\ sub'[j.sub].next = sub[j.sub].next
        BY <1>1, <2>1, <2>4, SubFields
      <3>2. sub'[j.sub] # NoSub
        BY <3>1 DEF NoSub
      <3>3. sub[n] # NoSub => sub'[n] # NoSub /\ sub'[n].next = sub[n].next
        BY <1>1, <2>4, <3>1, <3>2
      <3> QED BY <1>5, <2>1, <2>2, <3>3
    <2> QED BY <1>14, <2>3, <2>4 DEF WriteCancel
  <1>15. CASE WritePlan(s)
    <2>1. /\ At(s, "change") /\ UNCHANGED <<payment, paid>> /\ j.sub \in Subs
          /\ sub[j.sub] \in Sub /\ sub[j.sub] # NoSub
          /\ job' = [job EXCEPT ![s] = [at |-> "supersede", sub |-> j.sub]]
      BY <1>1, <1>15, RunningJob DEF WritePlan, OfASub, At
    <2>2. job'[s].at = "supersede"
      BY <1>1, <2>1
    <2>3. sub' = [sub EXCEPT ![j.sub].plan = j.plan]
      BY <1>15 DEF WritePlan
    <2>4. sub'[j.sub].status = sub[j.sub].status /\ sub'[j.sub].next = sub[j.sub].next
          /\ sub[j.sub].status \in SubStatus
      BY <1>1, <2>1, <2>3, SubFields
    <2>5. sub'[j.sub] # NoSub
      BY <2>4 DEF NoSub, SubStatus
    <2>6. sub[n] # NoSub => sub'[n] # NoSub /\ sub'[n].next = sub[n].next
      BY <1>1, <2>3, <2>4, <2>5
    <2> QED BY <1>5, <2>1, <2>2, <2>6
  <1>16. CASE SupersedePayment(s)
    <2>1. At(s, "supersede") /\ UNCHANGED <<sub, paid>> /\ j.sub \in Subs /\ job'[s].at = "idle"
      BY <1>1, <1>16, RunningJob, IdleGood DEF SupersedePayment
    <2>2. CASE Awaited(j.sub)
      <3>1. payment' = [payment EXCEPT ![j.sub].status = "SUPERSEDED"]
        BY <1>16, <2>2 DEF SupersedePayment
      <3>2. payment[j.sub] # NoPayment
        BY <1>1, <2>1, <2>2, AwaitedExists
      <3>3. payment'[j.sub].status = "SUPERSEDED" /\ \A m \in Subs \ {j.sub} : payment'[m] = payment[m]
        BY <1>1, <2>1, <3>1, <3>2, PaymentMarked DEF PaymentStatus
      <3>4. \A e \in Ends : Asked(n, e)' => Asked(n, e)
        BY <3>3 DEF Asked, Awaited
      <3> QED BY <1>3, <2>1, <3>4, OnceStays
    <2>3. CASE ~Awaited(j.sub)
      <3>1. UNCHANGED payment
        BY <1>16, <2>3 DEF SupersedePayment
      <3> QED BY <1>5, <2>1, <3>1
    <2> QED BY <2>2, <2>3
  <1>17. CASE GrantWindow(s)
    <2>1. UNCHANGED <<sub, payment, paid>> /\ job' = [job EXCEPT ![s] = Idle]
      BY <1>17 DEF GrantWindow
    <2>2. job'[s].at = "idle"
      BY <1>1, <2>1, IdleGood
    <2> QED BY <1>5, <2>1, <2>2
  <1> QED BY <1>6, <1>7, <1>8, <1>9, <1>10, <1>11, <1>12, <1>13, <1>14, <1>15, <1>16, <1>17 DEF Step

LEMMA OnceNext ==
  ASSUME Typed, AccessInv, OnceInv, [Next]_vars
  PROVE  OnceInv'
  <1> SUFFICES ASSUME NEW n \in Subs, n \notin late'
               PROVE  Once(n)'
    BY DEF OnceInv
  <1>1. Once(n)
    <2>1. n \notin late
      BY NeverUnpaid
    <2> QED BY <2>1 DEF OnceInv
  <1>2. CASE \E s \in Slots : Step(s)
    BY <1>1, <1>2, OnceStep DEF AccessInv
  <1>3. ASSUME UNCHANGED <<sub, paid>>, \A e \in Ends : Asked(n, e)' => Asked(n, e),
               \A t \in Slots : job'[t] = job[t] \/ job'[t].at \notin {"debit", "request"}
        PROVE  Once(n)'
    <2>1. \A t \in Slots, e \in Ends : Paying(job'[t], n, e) => Paying(job[t], n, e)
      BY <1>3 DEF Paying
    <2> QED BY <1>1, <1>3, <2>1, OnceStays
  <1>4. ASSUME UNCHANGED payment
        PROVE  \A e \in Ends : Asked(n, e)' => Asked(n, e)
    BY <1>4 DEF Asked, Awaited
  <1>5. CASE UNCHANGED vars
    BY <1>3, <1>4, <1>5 DEF vars
  <1>6. CASE \E s \in Slots : Request(s)
    <2>1. PICK s \in Slots : Request(s)
      BY <1>6
    <2>2. /\ UNCHANGED <<sub, payment, paid>>
          /\ job'[s].at \in {"create", "verify", "sweep", "cancel", "change", "window"}
          /\ \A t \in Slots : t # s => job'[t] = job[t]
      BY <2>1, RequestFrame
    <2>3. \A t \in Slots : job'[t] = job[t] \/ job'[t].at \notin {"debit", "request"}
      BY <2>2
    <2> QED BY <1>3, <1>4, <2>2, <2>3
  <1>7. CASE \E m \in Subs : RejectPayment(m) \/ RequestInfo(m)
    <2>1. PICK m \in Subs, status \in {"REJECTED", "REQUEST_INFO"} :
            payment[m] # NoPayment /\ payment' = [payment EXCEPT ![m].status = status]
      <3>1. PICK m \in Subs : RejectPayment(m) \/ RequestInfo(m)
        BY <1>7
      <3>2. CASE RejectPayment(m)
        BY <3>2, AwaitedExists DEF RejectPayment, Typed
      <3>3. CASE RequestInfo(m)
        BY <3>3 DEF RequestInfo
      <3> QED BY <3>1, <3>2, <3>3
    <2>2. payment'[m].status = status /\ \A i \in Subs \ {m} : payment'[i] = payment[i]
      BY <2>1, PaymentMarked DEF PaymentStatus, Typed
    <2>3. \A e \in Ends : Asked(n, e)' => Asked(n, e)
      BY <2>2 DEF Asked, Awaited
    <2>4. UNCHANGED <<sub, paid, job>>
      BY <1>7 DEF RejectPayment, RequestInfo
    <2> QED BY <1>3, <2>3, <2>4
  <1>8. CASE RevokeAccess \/ AddFunds \/ Tick
    <2>1. UNCHANGED <<sub, payment, paid, job>>
      BY <1>8, AddFundsEffect DEF RevokeAccess, Tick
    <2> QED BY <1>3, <1>4, <2>1
  <1>9. CASE \E P \in SUBSET Slots : \E s \in P : Restart(P, s)
    <2>1. /\ UNCHANGED <<sub, payment, paid>>
          /\ \A t \in Slots : job'[t] = job[t] \/ job'[t].at \in {"idle", "access"}
      BY <1>9, RestartJobs
    <2>2. \A t \in Slots : job'[t] = job[t] \/ job'[t].at \notin {"debit", "request"}
      BY <2>1
    <2> QED BY <1>3, <1>4, <2>1, <2>2
  <1> QED BY <1>2, <1>5, <1>6, <1>7, <1>8, <1>9 DEF Next

LEMMA OnceInit == Init => OnceInv
  <1> SUFFICES ASSUME Init, NEW n \in Subs
               PROVE  Once(n)
    BY DEF OnceInv
  <1>1. \A p \in Purchase : ~(paid[p] > 0)
    BY DEF Init
  <1>2. \A e \in Ends : ~PaidFor(n, e) /\ ~Asked(n, e) /\ \A s \in Slots : ~Paying(job[s], n, e)
    BY <1>1, IdleGood DEF Init, PaidFor, Asked, Awaited, Paying, NoPayment
  <1>3. ~Twice(n)
    BY <1>1 DEF Twice
  <1>4. \A e \in Ends : ~Claimed(n, e)
    BY <1>2 DEF Claimed
  <1> QED BY <1>2, <1>3, <1>4 DEF Once

(* Nobody pays twice for a period, by the wallet or by a payment request,  *)
(* whatever sweeps, requests, verifications and restarts overlap, unless a *)
(* late verification or activation brought an older period back.           *)
THEOREM PeriodsPaidOnce == Spec => []PeriodPaidOnce
  <1>1. Init => Typed /\ AccessInv /\ OnceInv
    BY InitTyped, AccessInit, OnceInit
  <1>2. (Typed /\ AccessInv /\ OnceInv) /\ [Next]_vars => (Typed /\ AccessInv /\ OnceInv)'
    BY NextTyped, AccessNext, OnceNext
  <1>3. OnceInv => PeriodPaidOnce
    BY DEF OnceInv, Once, PeriodPaidOnce
  <1> QED BY <1>1, <1>2, <1>3, PTL DEF Spec

=============================================================================
