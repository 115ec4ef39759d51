------------------------ MODULE BookingStages_proofs -------------------------
(***************************************************************************)
(* Payouts follow both codes, a job starts by its code only, and cash      *)
(* never reaches a partner.                                                *)
(*                                                                         *)
(* None of the three is inductive: a stage is left and entered on columns  *)
(* a handler remembers, and whether a payment method can still be chosen   *)
(* is decided on remembered notes.  What is remembered must tell as much   *)
(* as the row did, in every handler still in flight.                       *)
(***************************************************************************)
EXTENDS BookingSystem_proofs

Started == {"IN_PROGRESS", "COMPLETION_REQUESTED", "COMPLETED"}
Searching == {"PARTNER_SEARCHING", "PAYMENT_SUCCESSFUL"}      \* what a partner may claim

(* Handlers that write the notes they remember. *)
Writers == {"otp.mint", "otp.generate", "travel.save", "arrive.save", "start.verify", "start.wrong",
            "done.request", "done.code", "done.issue", "done.verify", "done.wrong", "complete",
            "select"}

(* A booking paid from the wallet at its creation: no UPI claim of it, and *)
(* none on its way, can take its PAID back.                                *)
Submits(t, b) == At(t, "upi.submit") /\ call[t].b = b
Settled(b) ==
  /\ row[b].pay = "PAID"
  /\ \A u \in Claims : upi[b][u] = "NONE"
  /\ \A t \in Slots : ~Submits(t, b)

RowTells(b) ==
  LET r == row[b] IN
  /\ ~Exists(b) => r = NoRow /\ \A u \in Claims : upi[b][u] = "NONE"
  /\ Exists(b) /\ r.notes.method = "NONE" => Settled(b)
  /\ r.status \in Started => "start" \in codes[b]
  /\ money[b].payouts > 0 => codes[b] = {"start", "done"}
  /\ r.status = "OTP_GENERATED" => r.otp = "sent"
  /\ r.pay = "PENDING_CASH" => r.partner = NoPartner /\ r.status \notin Searching

CallTells(s) ==
  LET j == call[s] IN
  j.at # "idle" =>
    /\ j.at # "sweep.mark" => Exists(j.b)
    /\ j.at \in Trip => row[j.b].partner # NoPartner
    /\ j.at \in Writers /\ j.seen.notes.method = "NONE" => Settled(j.b)
    /\ j.at = "select" => j.seen.pay = "PAID"
    /\ j.at = "done.request" => "start" \in codes[j.b]
    /\ j.at = "otp.mint" /\ j.seen.status \in Started => "start" \in codes[j.b]
    /\ j.at = "complete" => "done" \in codes[j.b]

Stages == (\A b \in Bookings : RowTells(b)) /\ (\A s \in Slots : CallTells(s))

(***************************************************************************)
(* Frames.                                                                 *)
(***************************************************************************)

Same(b) ==
  row'[b] = row[b] /\ upi'[b] = upi[b] /\ codes'[b] = codes[b] /\ money'[b].payouts = money[b].payouts

(* What a step does not touch tells what it told. *)
LEMMA StagesOn ==
  ASSUME TypeOK, Stages, Kept,
         \A b \in Bookings : Same(b) \/ RowTells(b)',
         \A b \in Bookings : codes[b] \subseteq codes'[b],
         \A b \in Bookings : Settled(b) => Settled(b)',
         \A t \in Slots : call'[t] = call[t] \/ CallTells(t)'
  PROVE  Stages'
  <1>1. ASSUME NEW b \in Bookings, Same(b)
        PROVE  RowTells(b)'
    <2>1. RowTells(b) /\ (Settled(b) => Settled(b)')
      BY DEF Stages
    <2> HIDE DEF Settled
    <2> QED BY <1>1, <2>1 DEF RowTells, Same, Exists
  <1>2. ASSUME NEW t \in Slots, call'[t] = call[t]
        PROVE  CallTells(t)'
    <2>1. CallTells(t) /\ (call[t].at # "idle" => call[t].b \in Bookings)
      BY RunningCall DEF Stages, TypeOK
    <2> SUFFICES ASSUME call[t].at # "idle", NEW b \in Bookings, b = call[t].b
                 PROVE  CallTells(t)'
      BY <1>2, <2>1 DEF CallTells
    <2>2. /\ Settled(b) => Settled(b)'
          /\ Exists(b) => Exists(b)'
          /\ row[b].partner # NoPartner => row'[b].partner # NoPartner
          /\ codes[b] \subseteq codes'[b]
      BY DEF Kept
    <2> HIDE DEF Settled, Exists
    <2> QED BY <1>2, <2>1, <2>2 DEF CallTells
  <1> QED BY <1>1, <1>2 DEF Stages

LEMMA Begun ==
  ASSUME TypeOK, NEW s \in Slots, NEW at, NEW b, NEW who, NEW seen, Begin(s, at, b, who, seen)
  PROVE  /\ call[s].at = "idle"
         /\ call'[s].at = at /\ call'[s].b = b /\ call'[s].who = who /\ call'[s].seen = seen
         /\ \A t \in Slots \ {s} : call'[t] = call[t]
  BY DEF TypeOK, Begin, Idle

LEMMA Gone ==
  ASSUME TypeOK, NEW s \in Slots, call[s].at # "idle", NEW at, Goto(s, at)
  PROVE  /\ call'[s].at = at /\ call'[s].b = call[s].b /\ call'[s].seen = call[s].seen
         /\ \A t \in Slots \ {s} : call'[t] = call[t]
  BY RunningCall DEF TypeOK, Goto, Running

LEMMA GoneSeeing ==
  ASSUME TypeOK, NEW s \in Slots, NEW at, NEW seen, GotoSeeing(s, at, seen)
  PROVE  /\ call'[s].at = at /\ call'[s].b = call[s].b /\ call'[s].seen = seen
         /\ \A t \in Slots \ {s} : call'[t] = call[t]
  BY DEF TypeOK, GotoSeeing

LEMMA Ended ==
  ASSUME TypeOK, NEW s \in Slots, Return(s)
  PROVE  call'[s].at = "idle" /\ \A t \in Slots \ {s} : call'[t] = call[t]
  BY DEF TypeOK, Return, Idle

(* A handler between two calls that remembers nothing of consequence. *)
Quiet(s, b) ==
  /\ call'[s].at \notin Trip \cup Writers \cup {"upi.submit"}
  /\ call'[s].at \in {"idle", "sweep.mark"} \/ call'[s].b = b
  /\ \A t \in Slots \ {s} : call'[t] = call[t]

LEMMA QuietCall ==
  ASSUME NEW s \in Slots, NEW b \in Bookings, Quiet(s, b), Exists(b)' \/ call'[s].at \in {"idle", "sweep.mark"}
  PROVE  CallTells(s)' /\ \A t \in Slots : ~Submits(t, b) => ~Submits(t, b)'
  <1>1. call'[s].at \notin {"select", "done.request", "otp.mint", "complete"}
    BY DEF Quiet, Writers
  <1>2. CallTells(s)'
    BY <1>1 DEF Quiet, CallTells
  <1> QED BY <1>2 DEF Quiet, Submits, At

LEMMA QuietReturn ==
  ASSUME TypeOK, NEW s \in Slots, NEW b \in Bookings, Return(s)
  PROVE  Quiet(s, b)
  BY Ended DEF Quiet, Trip, Writers

LEMMA QuietGoto ==
  ASSUME TypeOK, NEW s \in Slots, call[s].at # "idle", NEW at \in Steps,
         at \notin Trip \cup Writers \cup {"upi.submit"}, Goto(s, at)
  PROVE  Quiet(s, call[s].b)
  BY Gone DEF Quiet

LEMMA QuietEnd ==
  ASSUME TypeOK, NEW s \in Slots, call[s].at # "idle", EndCancel(s)
  PROVE  Quiet(s, call[s].b)
  <1>1. call[s].b \in Bookings
    BY RunningCall DEF TypeOK
  <1>2. "sweep.mark" \in Steps /\ "sweep.mark" \notin Trip \cup Writers \cup {"upi.submit"}
    BY DEF Steps, Trip, Writers
  <1> QED BY <1>1, <1>2, QuietReturn, QuietGoto DEF EndCancel

LEMMA QuietBegin ==
  ASSUME TypeOK, NEW s \in Slots, NEW at, NEW b \in Bookings, NEW who, NEW seen,
         at \notin Trip \cup Writers \cup {"upi.submit"}, Begin(s, at, b, who, seen)
  PROVE  Quiet(s, b) /\ call'[s].at = at
  BY Begun DEF Quiet

(* A step that writes no row. *)
LEMMA NoWrite ==
  ASSUME TypeOK, Stages, Kept, NEW s \in Slots, NEW b \in Bookings,
         UNCHANGED <<row, upi, codes>>, \A c \in Bookings : money'[c].payouts = money[c].payouts,
         Quiet(s, b), Exists(b) \/ call'[s].at \in {"idle", "sweep.mark"}
  PROVE  Stages'
  <1>1. Exists(b)' \/ call'[s].at \in {"idle", "sweep.mark"}
    BY DEF Exists
  <1>2. CallTells(s)'
    BY <1>1, QuietCall
  <1>3. \A c \in Bookings : Settled(c) => Settled(c)'
    BY DEF Settled, Submits, At, Quiet
  <1>4. \A c \in Bookings : Same(c) /\ codes[c] \subseteq codes'[c]
    BY DEF Same
  <1>5. \A t \in Slots : call'[t] = call[t] \/ CallTells(t)'
    BY <1>2 DEF Quiet
  <1> QED BY <1>3, <1>4, <1>5, StagesOn

(* A step of something these facts do not speak of. *)
LEMMA Unmoved ==
  ASSUME TypeOK, Stages, UNCHANGED <<row, upi, codes, call>>,
         \A c \in Bookings : money'[c].payouts = money[c].payouts
  PROVE  Stages'
  <1>1. Kept
    BY DEF Kept, Exists
  <1>2. \A c \in Bookings : Same(c) /\ codes[c] \subseteq codes'[c]
    BY DEF Same
  <1>3. \A c \in Bookings : Settled(c) => Settled(c)'
    BY DEF Settled, Submits, At
  <1> QED BY <1>1, <1>2, <1>3, StagesOn

(* A step that writes the row of b. *)
GoodRow(b, r) ==
  /\ r.status # "NONE"
  /\ r.pay \in {row[b].pay, "PAID"}
  /\ r.notes.method = "NONE" => Settled(b)
  /\ r.status = "OTP_GENERATED" => r.otp = "sent"
  /\ r.pay = "PENDING_CASH" => r.partner = NoPartner /\ r.status \notin Searching

LEMMA RowWritten ==
  ASSUME TypeOK, Stages, Kept, NEW s \in Slots, NEW b \in Bookings, NEW r, Save(b, r), GoodRow(b, r),
         UNCHANGED upi,
         \A c \in Bookings \ {b} : codes'[c] = codes[c] /\ money'[c].payouts = money[c].payouts,
         codes[b] \subseteq codes'[b],
         r.status \in Started => "start" \in codes'[b],
         money'[b].payouts > 0 => codes'[b] = {"start", "done"},
         \A t \in Slots \ {s} : call'[t] = call[t],
         call'[s].at # "upi.submit", CallTells(s)'
  PROVE  Stages'
  <1>1. row'[b] = r /\ \A c \in Bookings \ {b} : row'[c] = row[c]
    BY DEF TypeOK, Save
  <1>2. \A c \in Bookings, t \in Slots : ~Submits(t, c) => ~Submits(t, c)'
    BY DEF Submits, At
  <1>3. \A c \in Bookings : Settled(c) => Settled(c)'
    BY <1>1, <1>2 DEF Settled, GoodRow
  <1>4. \A c \in Bookings \ {b} : Same(c) /\ codes[c] \subseteq codes'[c]
    BY <1>1 DEF Same
  <1>5. RowTells(b)'
    <2>1. r.notes.method = "NONE" => Settled(b)'
      BY <1>3 DEF GoodRow
    <2> HIDE DEF Settled
    <2> QED BY <1>1, <2>1 DEF RowTells, GoodRow, Exists
  <1>6. \A t \in Slots : call'[t] = call[t] \/ CallTells(t)'
    OBVIOUS
  <1> HIDE DEF Same, Settled, RowTells, CallTells
  <1>7. \A c \in Bookings : Same(c) \/ RowTells(c)'
    BY <1>4, <1>5
  <1>8. \A c \in Bookings : codes[c] \subseteq codes'[c]
    BY <1>4
  <1> QED BY <1>3, <1>6, <1>7, <1>8, StagesOn

(* The same when codes and payouts stay and the handler falls quiet. *)
LEMMA QuietWrite ==
  ASSUME TypeOK, Stages, Kept, NEW s \in Slots, NEW b \in Bookings, NEW r, Save(b, r), GoodRow(b, r),
         UNCHANGED <<upi, codes>>, \A c \in Bookings : money'[c].payouts = money[c].payouts,
         r.status \in Started => "start" \in codes[b],
         Quiet(s, b)
  PROVE  Stages'
  <1>1. row'[b] = r
    BY DEF TypeOK, Save
  <1>2. Exists(b)'
    BY <1>1 DEF Exists, GoodRow
  <1>3. CallTells(s)'
    BY <1>2, QuietCall
  <1>4. money'[b].payouts > 0 => codes'[b] = {"start", "done"}
    BY DEF Stages, RowTells
  <1>5. call'[s].at # "upi.submit" /\ \A t \in Slots \ {s} : call'[t] = call[t]
    BY DEF Quiet
  <1> QED BY <1>3, <1>4, <1>5, RowWritten

(* A handler that has just read the notes of a row. *)
LEMMA NotesRead ==
  ASSUME TypeOK, Stages, Kept, NEW s \in Slots, NEW b \in Bookings, NEW at, NEW seen,
         Exists(b), seen.notes.method = row[b].notes.method \/ seen.notes.method # "NONE",
         call'[s].at = at, call'[s].b = b, call'[s].seen = seen, at # "upi.submit",
         \A t \in Slots \ {s} : call'[t] = call[t],
         UNCHANGED <<row, upi>>, \A c \in Bookings : money'[c].payouts = money[c].payouts,
         \A c \in Bookings \ {b} : codes'[c] = codes[c],
         codes'[b] = codes[b] \/ codes'[b] = codes[b] \cup {"done"},
         at \in Trip => row[b].partner # NoPartner,
         at = "select" => seen.pay = "PAID",
         at = "done.request" => "start" \in codes[b],
         at = "otp.mint" /\ seen.status \in Started => "start" \in codes[b],
         at = "complete" => "done" \in codes'[b]
  PROVE  Stages'
  <1>1. \A c \in Bookings, t \in Slots : ~Submits(t, c) => ~Submits(t, c)'
    BY DEF Submits, At
  <1>2. \A c \in Bookings : Settled(c) => Settled(c)'
    BY <1>1 DEF Settled
  <1>3. seen.notes.method = "NONE" => Settled(b)'
    <2>1. row[b].notes.method = "NONE" => Settled(b)
      BY DEF Stages, RowTells
    <2> QED BY <1>2, <2>1
  <1>4. Exists(b)'
    BY DEF Exists
  <1>5. CallTells(s)'
    <2> HIDE DEF Settled, Exists
    <2> QED BY <1>3, <1>4 DEF CallTells
  <1>6. \A c \in Bookings \ {b} : Same(c) /\ codes[c] \subseteq codes'[c]
    BY DEF Same
  <1>7. RowTells(b)'
    <2>1. RowTells(b) /\ codes[b] \subseteq {"start", "done"} /\ (Settled(b) => Settled(b)')
      BY <1>2 DEF Stages, TypeOK
    <2> HIDE DEF Settled
    <2> QED BY <2>1 DEF RowTells, Exists
  <1> HIDE DEF Same, Settled, RowTells, CallTells
  <1>8. \A c \in Bookings : Same(c) \/ RowTells(c)'
    BY <1>6, <1>7
  <1>9. \A c \in Bookings : codes[c] \subseteq codes'[c]
    BY <1>6
  <1>10. \A t \in Slots : call'[t] = call[t] \/ CallTells(t)'
    BY <1>5
  <1> QED BY <1>2, <1>8, <1>9, <1>10, StagesOn

(* A step that writes the claims of b, and of its row neither the notes.   *)
LEMMA UpiWritten ==
  ASSUME TypeOK, Stages, Kept, NEW b \in Bookings, Exists(b),
         \A c \in Bookings \ {b} : row'[c] = row[c] /\ upi'[c] = upi[c],
         row'[b].status \in {row[b].status, "PARTNER_SEARCHING"},
         row'[b].notes = row[b].notes,
         row'[b].pay # "PENDING_CASH" \/ row'[b] = row[b],
         row'[b].status = "OTP_GENERATED" => row'[b].otp = row[b].otp,
         UNCHANGED codes, \A c \in Bookings : money'[c].payouts = money[c].payouts,
         Settled(b) => Settled(b)',
         \A t \in Slots, c \in Bookings : ~Submits(t, c) => ~Submits(t, c)',
         \A t \in Slots : call'[t] = call[t] \/ CallTells(t)'
  PROVE  Stages'
  <1>1. \A c \in Bookings : Settled(c) => Settled(c)'
    BY DEF Settled
  <1>2. \A c \in Bookings \ {b} : Same(c)
    BY DEF Same
  <1>3. RowTells(b)'
    <2>1. RowTells(b)
      BY DEF Stages
    <2> HIDE DEF Settled
    <2> QED BY <2>1 DEF RowTells, Exists, Started
  <1> HIDE DEF Same, Settled, RowTells, CallTells
  <1>4. \A c \in Bookings : Same(c) \/ RowTells(c)'
    BY <1>2, <1>3
  <1>5. \A c \in Bookings : codes[c] \subseteq codes'[c]
    OBVIOUS
  <1> QED BY <1>1, <1>4, <1>5, StagesOn

(***************************************************************************)
(* One lemma per group of actions.                                         *)
(***************************************************************************)

LEMMA FreshRow ==
  ASSUME TypeOK, Stages, NEW b \in Bookings
  PROVE  /\ row[b] \in Row
         /\ ~Exists(b) => row[b] = NoRow /\ \A u \in Claims : upi[b][u] = "NONE"
         /\ row[b].partner # NoPartner => Exists(b) /\ row[b].pay # "PENDING_CASH"
         /\ row[b].notes.method = "NONE" /\ Exists(b) => Settled(b)
  <1>1. RowTells(b) /\ row[b] \in Row
    BY DEF Stages, TypeOK
  <1>2. NoRow.partner = NoPartner
    BY DEF NoRow
  <1> HIDE DEF Settled
  <1> QED BY <1>1, <1>2 DEF RowTells

LEMMA RunningBooking ==
  ASSUME TypeOK, Stages, NEW s \in Slots, call[s].at # "idle"
  PROVE  /\ call[s].b \in Bookings /\ row[call[s].b] \in Row /\ call[s].seen \in Seen
         /\ call[s].at # "sweep.mark" => Exists(call[s].b)
  <1>1. CallTells(s)
    BY DEF Stages
  <1>2. call[s].b \in Bookings /\ call[s].seen \in Seen
    BY RunningCall DEF TypeOK
  <1> QED BY <1>1, <1>2 DEF CallTells, TypeOK

LEMMA PostedOther ==
  ASSUME TypeOK, NEW b \in Bookings, NEW kind \in {"holds", "cards", "refunds"}, Post(b, kind)
  PROVE  \A c \in Bookings : money'[c].payouts = money[c].payouts
  BY DEF TypeOK, Ledger, Post

LEMMA PaymentRequestStages ==
  ASSUME TypeOK, Stages, Kept, NEW s \in Slots, NEW b \in Bookings, PaymentRequest(s, b)
  PROVE  Stages'
  <1>1. {"dispatch", "initiate", "assign", "upi.settle"} \cap (Trip \cup Writers \cup {"upi.submit"}) = {}
    BY DEF Trip, Writers
  <1>2. CASE CreateOnline(s, b)
    <2> DEFINE r == [NoRow EXCEPT !.status = "PARTNER_SEARCHING", !.pay = "PAID"]
    <2>1. ~Exists(b) /\ Save(b, r) /\ Post(b, "holds") /\ Begin(s, "dispatch", b, "PARTY", SeenNothing)
      BY <1>2 DEF CreateOnline
    <2>2. Quiet(s, b)
      BY <1>1, <2>1, QuietBegin
    <2>3. r.status = "PARTNER_SEARCHING" /\ r.pay = "PAID"
      BY DEF NoRow
    <2> HIDE DEF r
    <2>4. row'[b] = r /\ \A c \in Bookings \ {b} : row'[c] = row[c]
      BY <2>1 DEF TypeOK, Save
    <2>5. \A c \in Bookings, t \in Slots : ~Submits(t, c) => ~Submits(t, c)'
      BY <2>2 DEF Submits, At, Quiet
    <2>6. \A c \in Bookings : Settled(c) => Settled(c)'
      BY <1>2, <2>3, <2>4, <2>5 DEF Settled, CreateOnline
    <2>7. \A t \in Slots : ~Submits(t, b)'
      <3>1. \A t \in Slots : ~Submits(t, b)
        <4>1. \A t \in Slots : call[t].at = "upi.submit" /\ call[t].b = b => Exists(b)
          BY DEF Stages, CallTells
        <4> QED BY <2>1, <4>1 DEF Submits, At
      <3> QED BY <2>5, <3>1
    <2>8. Settled(b)'
      BY <1>2, <2>1, <2>3, <2>4, <2>7, FreshRow DEF Settled, CreateOnline
    <2>9. \A c \in Bookings : money'[c].payouts = money[c].payouts
      BY <2>1, PostedOther
    <2>10. RowTells(b)'
      <3>1. RowTells(b)
        BY DEF Stages
      <3> HIDE DEF Settled
      <3> QED BY <1>2, <2>3, <2>4, <2>8, <2>9, <3>1 DEF RowTells, Exists, Searching, Started, CreateOnline
    <2>11. Exists(b)'
      BY <2>3, <2>4 DEF Exists
    <2>12. CallTells(s)'
      BY <2>2, <2>11, QuietCall
    <2>13. \A t \in Slots : call'[t] = call[t] \/ CallTells(t)'
      BY <2>2, <2>12 DEF Quiet
    <2>14. \A c \in Bookings : Same(c) \/ RowTells(c)'
      <3>1. \A c \in Bookings \ {b} : Same(c)
        BY <1>2, <2>4, <2>9 DEF Same, CreateOnline
      <3> HIDE DEF Same, RowTells
      <3> QED BY <2>10, <3>1
    <2>15. \A c \in Bookings : codes[c] \subseteq codes'[c]
      BY <1>2 DEF CreateOnline
    <2> QED BY <2>6, <2>13, <2>14, <2>15, StagesOn
  <1>3. ASSUME NEW m \in {"CASH", "UPI_MANUAL"}, CreateUnpaid(s, b, m)
        PROVE  Stages'
    <2> DEFINE r == [NoRow EXCEPT !.status = "PAYMENT_PENDING",
                                  !.pay = IF m = "CASH" THEN "PENDING_CASH" ELSE "VERIFICATION_PENDING",
                                  !.notes.method = m]
    <2>1. ~Exists(b) /\ Save(b, r) /\ Begin(s, "dispatch", b, "PARTY", SeenNothing)
      BY <1>3 DEF CreateUnpaid
    <2>2. Quiet(s, b)
      BY <1>1, <2>1, QuietBegin
    <2>3. r.status = "PAYMENT_PENDING" /\ r.notes.method # "NONE" /\ r.partner = NoPartner
      BY DEF NoRow, NoNotes
    <2> HIDE DEF r
    <2>4. row'[b] = r /\ \A c \in Bookings \ {b} : row'[c] = row[c]
      BY <2>1 DEF TypeOK, Save
    <2>5. \A c \in Bookings, t \in Slots : ~Submits(t, c) => ~Submits(t, c)'
      BY <2>2 DEF Submits, At, Quiet
    <2>6. ~Settled(b)
      <3>1. row[b].pay = "PENDING"
        BY <2>1, FreshRow DEF NoRow
      <3> QED BY <3>1 DEF Settled
    <2>7. \A c \in Bookings : Settled(c) => Settled(c)'
      BY <1>3, <2>4, <2>5, <2>6 DEF Settled, CreateUnpaid
    <2>8. RowTells(b)'
      <3>1. RowTells(b)
        BY DEF Stages
      <3> HIDE DEF Settled
      <3> QED BY <1>3, <2>3, <2>4, <3>1 DEF RowTells, Exists, Searching, Started, CreateUnpaid
    <2>9. CallTells(s)'
      <3>1. Exists(b)'
        BY <2>3, <2>4 DEF Exists
      <3> QED BY <2>2, <3>1, QuietCall
    <2>10. \A t \in Slots : call'[t] = call[t] \/ CallTells(t)'
      BY <2>2, <2>9 DEF Quiet
    <2>11. \A c \in Bookings : Same(c) \/ RowTells(c)'
      <3>1. \A c \in Bookings \ {b} : Same(c)
        BY <1>3, <2>4 DEF Same, CreateUnpaid
      <3> HIDE DEF Same, RowTells
      <3> QED BY <2>8, <3>1
    <2>12. \A c \in Bookings : codes[c] \subseteq codes'[c]
      BY <1>3 DEF CreateUnpaid
    <2> QED BY <2>7, <2>10, <2>11, <2>12, StagesOn
  <1>4. CASE InitiatePayment(s, b)
    <2>1. Quiet(s, b) /\ Exists(b)
      BY <1>1, <1>4, QuietBegin DEF InitiatePayment, Exists
    <2> QED BY <1>4, <2>1, NoWrite DEF InitiatePayment
  <1>5. CASE VerifyPayment(s, b)
    <2> DEFINE r == [row[b] EXCEPT !.status = "PARTNER_SEARCHING", !.pay = "PAID"]
    <2>1. /\ row[b].status = "PAYMENT_INITIATED" /\ Save(b, r) /\ Post(b, "cards")
          /\ Begin(s, "assign", b, "PARTY", SeenNothing) /\ UNCHANGED <<upi, codes>>
      BY <1>5 DEF VerifyPayment
    <2>2. Quiet(s, b) /\ Exists(b) /\ \A c \in Bookings : money'[c].payouts = money[c].payouts
      BY <1>1, <2>1, QuietBegin, PostedOther DEF Exists
    <2>3. r.status = "PARTNER_SEARCHING" /\ r.pay = "PAID" /\ r.notes = row[b].notes
      BY FreshRow DEF Row
    <2> HIDE DEF r
    <2>4. GoodRow(b, r) /\ r.status \notin Started
      <3> HIDE DEF Settled
      <3> QED BY <2>2, <2>3, FreshRow DEF GoodRow, Started
    <2> QED BY <2>1, <2>2, <2>4, QuietWrite
  <1>6. ASSUME NEW u \in Claims, SubmitUpi(s, b, u)
        PROVE  Stages'
    <2>1. /\ row[b].pay \in {"VERIFICATION_PENDING", "REJECTED", "REQUEST_INFO"}
          /\ Begin(s, "upi.submit", b, u, SeenNothing) /\ UNCHANGED <<row, upi, codes, money>>
      BY <1>6 DEF SubmitUpi
    <2>2. Exists(b) /\ ~Settled(b)
      <3>1. NoRow.pay = "PENDING"
        BY DEF NoRow
      <3> QED BY <2>1, <3>1, FreshRow DEF Settled
    <2>3. /\ call'[s].at = "upi.submit" /\ call'[s].b = b
          /\ \A t \in Slots \ {s} : call'[t] = call[t]
      BY <2>1, Begun
    <2>4. \A c \in Bookings : Settled(c) => Settled(c)'
      BY <2>1, <2>2, <2>3 DEF Settled, Submits, At
    <2>5. CallTells(s)'
      BY <2>1, <2>2, <2>3 DEF CallTells, Exists, Trip, Writers
    <2>6. \A c \in Bookings : Same(c) /\ codes[c] \subseteq codes'[c]
      BY <2>1 DEF Same
    <2>7. \A t \in Slots : call'[t] = call[t] \/ CallTells(t)'
      BY <2>3, <2>5
    <2> QED BY <2>4, <2>6, <2>7, StagesOn
  <1>7. ASSUME NEW u \in Claims, SettleUpi(s, b, u)
        PROVE  Stages'
    <2>1. Quiet(s, b)
      BY <1>1, <1>7, QuietBegin DEF SettleUpi
    <2>2. Exists(b)
      BY <1>7, FreshRow DEF SettleUpi
    <2> QED BY <1>7, <2>1, <2>2, NoWrite DEF SettleUpi
  <1> QED BY <1>2, <1>3, <1>4, <1>5, <1>6, <1>7 DEF PaymentRequest

LEMMA PaymentStepStages ==
  ASSUME TypeOK, Stages, Kept, NEW s \in Slots, PaymentStep(s)
  PROVE  Stages'
  <1>1. call[s].at \in {"initiate", "upi.submit", "upi.settle", "assign"}
    BY DEF At, PaymentStep, InitiatePaymentSave, SubmitUpiSave, SettleUpiClaim, SettleUpiAbort,
       AssignNobody, OpenSearchWindow, AssignBest
  <1>2. PICK b \in Bookings : b = call[s].b /\ row[b] \in Row /\ Exists(b)
    BY <1>1, RunningBooking
  <1>3. CASE InitiatePaymentSave(s)
    <2> DEFINE r == [row[b] EXCEPT !.status = "PAYMENT_INITIATED"]
    <2>1. Save(b, r) /\ Return(s) /\ UNCHANGED <<upi, money, codes>>
      BY <1>2, <1>3 DEF InitiatePaymentSave
    <2>2. /\ r.status = "PAYMENT_INITIATED" /\ r.pay = row[b].pay /\ r.notes = row[b].notes
          /\ r.partner = row[b].partner
      BY <1>2 DEF Row
    <2> HIDE DEF r
    <2>3. GoodRow(b, r) /\ r.status \notin Started
      <3> HIDE DEF Settled
      <3> QED BY <1>2, <2>2, FreshRow DEF GoodRow, Started, Searching
    <2> QED BY <2>1, <2>3, QuietReturn, QuietWrite
  <1>4. CASE SubmitUpiSave(s)
    <2> DEFINE r == [row[b] EXCEPT !.pay = "VERIFICATION_PENDING"]
    <2>1. /\ At(s, "upi.submit") /\ Save(b, r) /\ Return(s) /\ UNCHANGED <<money, codes>>
          /\ upi' = [upi EXCEPT ![b][call[s].who] = "VERIFICATION_PENDING"]
      BY <1>2, <1>4 DEF SubmitUpiSave
    <2>2. ~Settled(b) /\ row[b].notes.method # "NONE"
      <3>1. ~Settled(b)
        BY <1>2, <2>1 DEF Settled, Submits
      <3> QED BY <1>2, <3>1, FreshRow
    <2>3. /\ r.status = row[b].status /\ r.pay = "VERIFICATION_PENDING" /\ r.notes = row[b].notes
          /\ r.partner = row[b].partner /\ r.otp = row[b].otp
      BY <1>2 DEF Row
    <2> HIDE DEF r
    <2>4. /\ row'[b] = r /\ \A c \in Bookings \ {b} : row'[c] = row[c] /\ upi'[c] = upi[c]
      BY <2>1 DEF TypeOK, Save
    <2>5. call'[s].at = "idle" /\ \A t \in Slots \ {s} : call'[t] = call[t]
      BY <2>1, Ended
    <2>6. \A c \in Bookings : Settled(c) => Settled(c)'
      BY <2>2, <2>4, <2>5 DEF Settled, Submits, At
    <2>7. RowTells(b)'
      <3>1. RowTells(b)
        BY DEF Stages
      <3> HIDE DEF Settled
      <3> QED BY <1>2, <2>1, <2>2, <2>3, <2>4, <3>1 DEF RowTells, Exists
    <2>8. \A t \in Slots : call'[t] = call[t] \/ CallTells(t)'
      BY <2>5 DEF CallTells
    <2>9. \A c \in Bookings : Same(c) \/ RowTells(c)'
      <3>1. \A c \in Bookings \ {b} : Same(c)
        BY <2>1, <2>4 DEF Same
      <3> HIDE DEF Same, RowTells
      <3> QED BY <2>7, <3>1
    <2>10. \A c \in Bookings : codes[c] \subseteq codes'[c]
      BY <2>1
    <2> QED BY <2>6, <2>8, <2>9, <2>10, StagesOn
  <1>5. CASE SettleUpiClaim(s)
    <2> DEFINE r == [row[b] EXCEPT !.status = "PARTNER_SEARCHING", !.pay = "PAID"]
               u == call[s].who
    <2>1. /\ upi[b][u] = "VERIFICATION_PENDING" /\ upi' = [upi EXCEPT ![b][u] = "VERIFIED"]
          /\ Goto(s, "assign") /\ UNCHANGED codes /\ (UNCHANGED money \/ Post(b, "holds"))
          /\ UNCHANGED row \/ (row[b].pay = "VERIFICATION_PENDING" /\ Save(b, r))
      BY <1>2, <1>5 DEF SettleUpiClaim
    <2>2. Quiet(s, b)
      <3>1. "assign" \in Steps \ (Trip \cup Writers \cup {"upi.submit"})
        BY DEF Steps, Trip, Writers
      <3> QED BY <1>1, <1>2, <2>1, <3>1, QuietGoto
    <2>3. CallTells(s)' /\ \A t \in Slots, c \in Bookings : ~Submits(t, c) => ~Submits(t, c)'
      <3>1. Exists(b)'
        BY <1>2 DEF Kept
      <3>2. \A t \in Slots, c \in Bookings : ~Submits(t, c) => ~Submits(t, c)'
        BY <2>2 DEF Quiet, Submits, At
      <3> QED BY <2>2, <3>1, <3>2, QuietCall
    <2>4. r.status = "PARTNER_SEARCHING" /\ r.pay = "PAID" /\ r.notes = row[b].notes
      BY <1>2 DEF Row
    <2> HIDE DEF r
    <2>5. \A c \in Bookings \ {b} : row'[c] = row[c] /\ upi'[c] = upi[c]
      BY <2>1 DEF TypeOK, Save
    <2>6. row'[b] = row[b] \/ (row[b].pay = "VERIFICATION_PENDING" /\ row'[b] = r)
      BY <2>1 DEF TypeOK, Save
    <2>7. Settled(b) => Settled(b)'
      <3>1. ASSUME Settled(b) PROVE \A v \in Claims : upi'[b][v] = "NONE"
        BY <2>1, <3>1 DEF TypeOK, Settled
      <3> QED BY <2>3, <2>6, <3>1 DEF Settled
    <2>8. \A c \in Bookings : money'[c].payouts = money[c].payouts
      BY <2>1, PostedOther
    <2>9. \A t \in Slots : call'[t] = call[t] \/ CallTells(t)'
      BY <2>2, <2>3 DEF Quiet
    <2>10. /\ row'[b].status \in {row[b].status, "PARTNER_SEARCHING"} /\ row'[b].notes = row[b].notes
           /\ row'[b].pay = "PAID" \/ row'[b] = row[b]
           /\ row'[b].status = "OTP_GENERATED" => row'[b].otp = row[b].otp
      BY <2>4, <2>6
    <2> HIDE DEF u
    <2> QED BY <1>2, <2>1, <2>3, <2>5, <2>7, <2>8, <2>9, <2>10, UpiWritten
  <1>6. CASE SettleUpiAbort(s) \/ AssignNobody(s) \/ OpenSearchWindow(s)
    BY <1>2, <1>6, QuietReturn, NoWrite DEF SettleUpiAbort, AssignNobody, OpenSearchWindow
  <1>7. ASSUME NEW p \in Partners, AssignBest(s, p)
        PROVE  Stages'
    <2> DEFINE r == [row[b] EXCEPT !.partner = p, !.status = "PARTNER_ASSIGNED"]
    <2>1. Save(b, r) /\ Return(s) /\ UNCHANGED <<upi, money, codes>> /\ row[b].status \in Searching
      BY <1>2, <1>7 DEF AssignBest, Unclaimed, Searching
    <2>2. r.status = "PARTNER_ASSIGNED" /\ r.pay = row[b].pay /\ r.notes = row[b].notes
      BY <1>2 DEF Row
    <2> HIDE DEF r
    <2>3. GoodRow(b, r) /\ r.status \notin Started
      <3>1. RowTells(b)
        BY DEF Stages
      <3> HIDE DEF Settled
      <3> QED BY <1>2, <2>1, <2>2, <3>1 DEF RowTells, GoodRow, Started
    <2> QED BY <2>1, <2>3, QuietReturn, QuietWrite
  <1> QED BY <1>3, <1>4, <1>5, <1>6, <1>7 DEF PaymentStep

(* A step that writes a column of the row that tells nothing, or a status  *)
(* no stage begins with.                                                   *)
LEMMA StatusWrite ==
  ASSUME TypeOK, Stages, Kept, NEW s \in Slots, NEW b \in Bookings, Exists(b),
         NEW r, r.status \in {row[b].status, "CANCELLED", "EXPIRED"},
         r.pay = row[b].pay, r.notes = row[b].notes, r.partner = row[b].partner, r.otp = row[b].otp,
         UNCHANGED row \/ Save(b, r),
         UNCHANGED <<upi, codes>>, \A c \in Bookings : money'[c].payouts = money[c].payouts,
         Quiet(s, b)
  PROVE  Stages'
  <1>1. CASE UNCHANGED row
    BY <1>1, NoWrite
  <1>2. CASE Save(b, r)
    <2>1. RowTells(b)
      BY DEF Stages
    <2>2. GoodRow(b, r) /\ (r.status \in Started => "start" \in codes[b])
      <3> HIDE DEF Settled
      <3> QED BY <2>1 DEF RowTells, GoodRow, Started, Searching, Exists
    <2> QED BY <1>2, <2>2, QuietWrite
  <1> QED BY <1>1, <1>2

LEMMA DispatchStages ==
  ASSUME TypeOK, Stages, Kept, NEW s \in Slots, DispatchStep(s)
  PROVE  Stages'
  <1>1. call[s].at \in {"dispatch", "expire.check", "expire.refund", "sweep.mark", "cancel.read",
                       "cancel.claim", "cancel.refund"}
    BY DEF At, DispatchStep, Dispatch, ExpireCheck, ExpireRefund, SweepMark, CancelRead,
       CancelClaim, CancelRefund
  <1>2. PICK b \in Bookings : b = call[s].b /\ row[b] \in Row /\ (call[s].at # "sweep.mark" => Exists(b))
    BY <1>1, RunningBooking
  <1>3. {"expire.refund", "cancel.refund", "cancel.claim"} \subseteq Steps \ (Trip \cup Writers \cup {"upi.submit"})
    BY DEF Steps, Trip, Writers
  <1> DEFINE r == [row[b] EXCEPT !.status = "CANCELLED"]
             q == [row[b] EXCEPT !.refunded = TRUE]
  <1>4. /\ r.status = "CANCELLED" /\ r.pay = row[b].pay /\ r.notes = row[b].notes
        /\ r.partner = row[b].partner /\ r.otp = row[b].otp
    BY <1>2 DEF Row
  <1>5. /\ q.status = row[b].status /\ q.pay = row[b].pay /\ q.notes = row[b].notes
        /\ q.partner = row[b].partner /\ q.otp = row[b].otp
    BY <1>2 DEF Row
  <1>6. Refund(b) => Save(b, q) /\ \A c \in Bookings : money'[c].payouts = money[c].payouts
    BY PostedOther DEF Refund
  <1>7. CASE Dispatch(s)
    BY <1>2, <1>7, QuietReturn, NoWrite DEF Dispatch, At
  <1>8. CASE ExpireCheck(s)
    <2>1. Quiet(s, b)
      BY <1>1, <1>2, <1>3, <1>8, QuietReturn, QuietGoto DEF ExpireCheck
    <2> QED BY <1>2, <1>8, <2>1, NoWrite DEF ExpireCheck, At
  <1> HIDE DEF r, q
  <1>9. CASE ExpireRefund(s)
    <2>1. Save(b, q) /\ \A c \in Bookings : money'[c].payouts = money[c].payouts
      BY <1>2, <1>6, <1>9 DEF ExpireRefund
    <2>2. Return(s) /\ UNCHANGED <<upi, codes>> /\ Exists(b)
      BY <1>2, <1>9 DEF ExpireRefund, At
    <2> QED BY <1>5, <2>1, <2>2, QuietReturn, StatusWrite
  <1>10. CASE SweepMark(s)
    <2>1. Quiet(s, b) /\ call'[s].at = "idle"
      BY <1>10, QuietReturn, Ended DEF SweepMark
    <2> QED BY <1>10, <2>1, NoWrite DEF SweepMark
  <1>11. CASE CancelRead(s)
    <2>1. Exists(b) /\ UNCHANGED <<row, upi, money, codes>>
      BY <1>2, <1>11 DEF CancelRead, At
    <2>2. CASE EndCancel(s)
      BY <1>1, <1>2, <2>1, <2>2, QuietEnd, NoWrite
    <2>3. ASSUME NEW seen, GotoSeeing(s, "cancel.claim", seen)
          PROVE  Stages'
      <3>1. Quiet(s, b)
        BY <1>2, <1>3, <2>3, GoneSeeing DEF Quiet
      <3> QED BY <2>1, <3>1, NoWrite
    <2> QED BY <1>11, <2>2, <2>3 DEF CancelRead
  <1>12. CASE CancelClaim(s)
    <2>1. UNCHANGED row \/ Save(b, r)
      BY <1>2, <1>12 DEF CancelClaim, r
    <2>2. Exists(b) /\ UNCHANGED <<upi, money, codes>>
      BY <1>2, <1>12 DEF CancelClaim, At
    <2>3. EndCancel(s) \/ Goto(s, "cancel.refund")
      BY <1>12 DEF CancelClaim
    <2>4. Quiet(s, b)
      BY <1>1, <1>2, <1>3, <2>3, QuietEnd, QuietGoto
    <2> QED BY <1>4, <2>1, <2>2, <2>4, StatusWrite
  <1>13. CASE CancelRefund(s)
    <2>1. Save(b, q) /\ \A c \in Bookings : money'[c].payouts = money[c].payouts
      BY <1>2, <1>6, <1>13 DEF CancelRefund
    <2>2. EndCancel(s) /\ UNCHANGED <<upi, codes>> /\ Exists(b)
      BY <1>2, <1>13 DEF CancelRefund, At
    <2>3. Quiet(s, b)
      BY <1>1, <1>2, <2>2, QuietEnd
    <2> QED BY <1>5, <2>1, <2>2, <2>3, StatusWrite
  <1> QED BY <1>7, <1>8, <1>9, <1>10, <1>11, <1>12, <1>13 DEF DispatchStep

LEMMA DispatchRequestStages ==
  ASSUME TypeOK, Stages, Kept, NEW s \in Slots, NEW b \in Bookings, DispatchRequest(s, b)
  PROVE  Stages'
  <1>1. {"expire.check", "cancel.read", "sweep.mark"} \cap (Trip \cup Writers \cup {"upi.submit"}) = {}
    BY DEF Trip, Writers
  <1>2. CASE TimerFires(s, b)
    <2> DEFINE r == [row[b] EXCEPT !.status = "EXPIRED"]
    <2>1. /\ r.status = "EXPIRED" /\ r.pay = row[b].pay /\ r.notes = row[b].notes
          /\ r.partner = row[b].partner /\ r.otp = row[b].otp
      BY FreshRow DEF Row
    <2>2. CASE Unclaimed(row[b])
      <3>1. Save(b, r) /\ Begin(s, "expire.check", b, "SYSTEM", SeenNothing) /\ UNCHANGED <<upi, money, codes>>
        BY <1>2, <2>2 DEF TimerFires
      <3>2. Quiet(s, b) /\ Exists(b)
        BY <1>1, <2>2, <3>1, QuietBegin DEF Unclaimed, Exists
      <3> HIDE DEF r
      <3> QED BY <2>1, <3>1, <3>2, StatusWrite
    <2>3. CASE UNCHANGED <<row, call, upi, money, codes>>
      BY <2>3, Unmoved
    <2> QED BY <1>2, <2>2, <2>3 DEF TimerFires
  <1>3. CASE Sweep(s, b)
    <2>1. UNCHANGED <<row, upi, money, codes>>
      BY <1>3 DEF Sweep
    <2>2. CASE Begin(s, "sweep.mark", b, "SYSTEM", SeenNothing)
      BY <1>1, <2>1, <2>2, QuietBegin, NoWrite
    <2>3. CASE Begin(s, "cancel.read", b, "SYSTEM", SeenNothing)
                /\ row[b].status \in {"PARTNER_SEARCHING", "PAYMENT_SUCCESSFUL", "PAYMENT_PENDING"}
      <3>1. Exists(b)
        BY <2>3 DEF Exists
      <3> QED BY <1>1, <2>1, <2>3, <3>1, QuietBegin, NoWrite
    <2> QED BY <1>3, <2>2, <2>3 DEF Sweep
  <1>4. CASE RequestCancel(s, b)
    BY <1>1, <1>4, QuietBegin, NoWrite DEF RequestCancel
  <1>5. CASE RejectAccepted(s, b)
    <2>1. Exists(b)
      BY <1>5 DEF RejectAccepted, Exists
    <2> QED BY <1>1, <1>5, <2>1, QuietBegin, NoWrite DEF RejectAccepted
  <1> QED BY <1>2, <1>3, <1>4, <1>5 DEF DispatchRequest

LEMMA JobRequestStages ==
  ASSUME TypeOK, Stages, Kept, NEW s \in Slots, NEW b \in Bookings, JobRequest(s, b)
  PROVE  Stages'
  <1>1. /\ RowTells(b) /\ row[b] \in Row /\ NoRow.partner = NoPartner
        /\ Assigned(b) => Exists(b) /\ row[b].partner # NoPartner
        /\ row[b].status \in Pending => Exists(b)
    BY FreshRow DEF Stages, NoRow, Assigned, Exists, Pending
  <1>2. SeenNotes(row[b]).notes = row[b].notes
    BY DEF SeenNotes, SeenNothing
  <1>3. ASSUME NEW at \in Writers \ {"select", "otp.mint", "done.request", "complete"},
               Begin(s, at, b, "PARTY", SeenNotes(row[b])), Exists(b), row[b].partner # NoPartner,
               UNCHANGED <<row, upi, money, codes>>
        PROVE  Stages'
    <2>1. at # "upi.submit"
      BY DEF Writers
    <2> QED BY <1>2, <1>3, <2>1, Begun, NotesRead
  <1>4. ASSUME NEW p \in Partners, NEW route \in {"bookings", "partner"}, Accept(s, b, p, route)
        PROVE  Stages'
    <2>1. "accept.claim" \notin Trip \cup Writers \cup {"upi.submit"}
      BY DEF Trip, Writers
    <2> QED BY <1>4, <2>1, QuietBegin, NoWrite DEF Accept
  <1>5. CASE IssueStartOtp(s, b)
    <2>1. /\ SeenJob(row[b]).notes = row[b].notes /\ SeenJob(row[b]).status = row[b].status
          /\ row[b].status \notin Started
      BY <1>5 DEF SeenJob, SeenNothing, IssueStartOtp, Pending, Started
    <2>2. Begin(s, "otp.mint", b, "PARTY", SeenJob(row[b])) /\ UNCHANGED <<row, upi, money, codes>>
      BY <1>5 DEF IssueStartOtp
    <2> QED BY <1>1, <1>5, <2>1, <2>2, Begun, NotesRead DEF IssueStartOtp
  <1>6. CASE GenerateOtp(s, b) \/ MarkTravelling(s, b) \/ MarkArrived(s, b)
    <2>1. {"otp.generate", "travel.save", "arrive.save"}
             \subseteq Writers \ {"select", "otp.mint", "done.request", "complete"}
      BY DEF Writers
    <2> QED BY <1>1, <1>3, <1>6, <2>1 DEF GenerateOtp, MarkTravelling, MarkArrived
  <1>7. CASE VerifyStartOtp(s, b) \/ VerifyCompletionOtp(s, b)
    <2>1. {"start.verify", "start.wrong", "done.verify", "done.wrong"}
             \subseteq Writers \ {"select", "otp.mint", "done.request", "complete"}
      BY DEF Writers
    <2> QED BY <1>1, <1>3, <1>7, <2>1 DEF VerifyStartOtp, VerifyCompletionOtp
  <1>8. CASE IssueCompletionOtp(s, b)
    <2>1. Begin(s, "done.issue", b, "PARTY", SeenNotes(row[b])) /\ UNCHANGED <<row, upi, money, codes>>
      BY <1>8 DEF IssueCompletionOtp
    <2>2. Exists(b)
      BY <1>8 DEF IssueCompletionOtp, Exists
    <2>3. "done.issue" \notin Trip
      BY DEF Trip
    <2> QED BY <1>2, <2>1, <2>2, <2>3, Begun, NotesRead
  <1>9. CASE RequestCompletion(s, b)
    <2>1. Begin(s, "done.request", b, "PARTY", SeenNotes(row[b])) /\ UNCHANGED <<row, upi, money, codes>>
      BY <1>9 DEF RequestCompletion
    <2>2. "start" \in codes[b] /\ Exists(b)
      BY <1>1, <1>9 DEF RequestCompletion, RowTells, Started
    <2> QED BY <1>2, <2>1, <2>2, Begun, NotesRead DEF Trip
  <1>10. CASE Complete(s, b)
    <2>1. /\ Begin(s, "complete", b, "PARTY", SeenNotes(row[b])) /\ UNCHANGED <<row, upi, money>>
          /\ codes' = [codes EXCEPT ![b] = @ \cup {"done"}] /\ Exists(b)
      BY <1>1, <1>10 DEF Complete
    <2>2. codes'[b] = codes[b] \cup {"done"} /\ \A c \in Bookings \ {b} : codes'[c] = codes[c]
      BY <2>1 DEF TypeOK
    <2> QED BY <1>2, <2>1, <2>2, Begun, NotesRead DEF Trip
  <1>11. ASSUME NEW m \in {"CASH", "UPI_MANUAL"}, SelectPayment(s, b, m)
         PROVE  Stages'
    <2> DEFINE seen == [SeenPay(row[b]) EXCEPT !.notes = [row[b].notes EXCEPT !.method = m]]
    <2>1. Begin(s, "select", b, "PARTY", seen) /\ UNCHANGED <<row, upi, money, codes>>
      BY <1>11 DEF SelectPayment
    <2>2. Exists(b) /\ row[b].pay = "PAID"
      BY <1>1, <1>11, FreshRow DEF SelectPayment, Settled
    <2>3. seen.pay = row[b].pay /\ seen.notes.method = m
      BY <1>1 DEF SeenPay, SeenNothing, Row, Notes
    <2>4. m # "NONE"
      OBVIOUS
    <2> HIDE DEF seen
    <2> QED BY <2>1, <2>2, <2>3, <2>4, Begun, NotesRead DEF Trip
  <1> QED BY <1>4, <1>5, <1>6, <1>7, <1>8, <1>9, <1>10, <1>11 DEF JobRequest

(* A handler writes back the notes it remembers. *)
LEMMA NotesWritten ==
  ASSUME TypeOK, Stages, Kept, NEW s \in Slots, NEW b \in Bookings, b = call[s].b,
         call[s].at \in Writers, NEW r, Save(b, r),
         r.notes.method = call[s].seen.notes.method, r.partner = row[b].partner,
         r.pay \in {row[b].pay, "PAID"},
         r.status \in Searching => r.status = row[b].status,
         r.status = "OTP_GENERATED" => r.otp = "sent",
         UNCHANGED upi,
         \A c \in Bookings \ {b} : codes'[c] = codes[c] /\ money'[c].payouts = money[c].payouts,
         codes[b] \subseteq codes'[b],
         r.status \in Started => "start" \in codes'[b],
         money'[b].payouts > 0 => codes'[b] = {"start", "done"},
         \/ Return(s)
         \/ Goto(s, "done.code")
         \/ Goto(s, "arrive.fresh") /\ row[b].partner # NoPartner
  PROVE  Stages'
  <1>1. /\ RowTells(b) /\ Exists(b) /\ call[s].at # "idle"
        /\ call[s].seen.notes.method = "NONE" => Settled(b)
    BY DEF Stages, CallTells, Writers
  <1>2. row'[b] = r
    BY DEF TypeOK, Save
  <1>3. r.status # "NONE"
    BY <1>1, <1>2 DEF Kept, Exists
  <1>4. GoodRow(b, r)
    <2> HIDE DEF Settled
    <2> QED BY <1>1, <1>3 DEF GoodRow, RowTells
  <1>5. /\ \A t \in Slots \ {s} : call'[t] = call[t]
        /\ call'[s].at # "idle" => call'[s].b = b /\ call'[s].seen = call[s].seen
        /\ call'[s].at \in {"idle", "done.code", "arrive.fresh"}
        /\ call'[s].at = "arrive.fresh" => row[b].partner # NoPartner
    BY <1>1, Ended, Gone
  <1>6. Settled(b) => Settled(b)'
    BY <1>2, <1>5 DEF Settled, Submits, At
  <1>7. Exists(b)' /\ row'[b].partner = row[b].partner
    BY <1>2, <1>3 DEF Exists
  <1>8. CallTells(s)'
    <2> HIDE DEF Settled, Exists
    <2> QED BY <1>1, <1>5, <1>6, <1>7 DEF CallTells, Trip
  <1> QED BY <1>4, <1>5, <1>8, RowWritten

LEMMA JobStepStages ==
  ASSUME TypeOK, Stages, Kept, NEW s \in Slots, JobStep(s)
  PROVE  Stages'
  <1>1. call[s].at \notin {"idle", "sweep.mark"}
    BY DEF At, JobStep, AcceptClaim, MintStartOtp, GenerateOtpClaim, SaveTrip, ArriveFresh,
       StartJob, WrongCode, SaveCompletionRequest, SaveCompletionOtp, SaveCompletionVerified,
       CompleteClaim, SaveSelection
  <1>2. PICK b \in Bookings :
          /\ b = call[s].b /\ row[b] \in Row /\ call[s].seen \in Seen /\ Exists(b)
          /\ RowTells(b) /\ CallTells(s) /\ codes[b] \subseteq {"start", "done"}
    BY <1>1, RunningBooking DEF Stages, TypeOK
  <1>3. row[b] \in Row /\ call[s].seen.notes \in Notes
    BY <1>2 DEF Seen
  <1>4. CASE AcceptClaim(s)
    <2> DEFINE r == [row[b] EXCEPT !.partner = call[s].who, !.status = "PARTNER_ACCEPTED"]
    <2>1. CASE row[b].status \in Searching /\ row[b].partner = NoPartner
      <3>1. Save(b, r) /\ Return(s) /\ UNCHANGED <<upi, money, codes>>
        BY <1>2, <1>4, <2>1 DEF AcceptClaim, Searching
      <3>2. r.status = "PARTNER_ACCEPTED" /\ r.pay = row[b].pay /\ r.notes = row[b].notes
        BY <1>2 DEF Row
      <3> HIDE DEF r
      <3>3. GoodRow(b, r) /\ r.status \notin Started
        <4> HIDE DEF Settled
        <4> QED BY <1>2, <2>1, <3>2 DEF RowTells, GoodRow, Started
      <3> QED BY <3>1, <3>3, QuietReturn, QuietWrite
    <2>2. CASE UNCHANGED row
      BY <1>2, <1>4, <2>2, QuietReturn, NoWrite DEF AcceptClaim
    <2> QED BY <1>2, <1>4, <2>1, <2>2 DEF AcceptClaim, Searching
  <1>5. CASE MintStartOtp(s)
    <2> DEFINE seen == call[s].seen
               r == [row[b] EXCEPT
                       !.status = IF seen.status = "PARTNER_ACCEPTED" THEN "OTP_GENERATED" ELSE seen.status,
                       !.otp = "sent",
                       !.notes = [seen.notes EXCEPT !.start = "live"]]
    <2>1. At(s, "otp.mint") /\ Save(b, r) /\ Return(s) /\ UNCHANGED <<upi, money, codes>>
      BY <1>2, <1>5 DEF MintStartOtp
    <2>2. /\ r.otp = "sent" /\ r.pay = row[b].pay /\ r.partner = row[b].partner
          /\ r.notes.method = seen.notes.method
          /\ r.status = IF seen.status = "PARTNER_ACCEPTED" THEN "OTP_GENERATED" ELSE seen.status
      BY <1>3 DEF Row, Notes
    <2>3. row[b].partner # NoPartner /\ (seen.status \in Started => "start" \in codes[b])
      BY <1>2, <2>1 DEF CallTells, At, Trip
    <2> HIDE DEF r, seen
    <2>4. r.status \in Started => "start" \in codes[b]
      BY <2>2, <2>3 DEF Started
    <2>5. call[s].at \in Writers
      BY <2>1 DEF At, Writers
    <2>6. money[b].payouts > 0 => codes[b] = {"start", "done"}
      BY <1>2 DEF RowTells
    <2>7. GoodRow(b, r)
      <3>1. r.status # "NONE"
        BY <1>2, <2>1 DEF TypeOK, Save, Kept, Exists
      <3>2. row[b].pay # "PENDING_CASH"
        BY <1>2, <2>3 DEF RowTells
      <3>3. r.notes.method = "NONE" => Settled(b)
        BY <1>1, <1>2, <2>2, <2>5 DEF CallTells, seen
      <3> HIDE DEF Settled
      <3> QED BY <2>2, <3>1, <3>2, <3>3 DEF GoodRow
    <2> QED BY <2>1, <2>4, <2>7, QuietReturn, QuietWrite
  <1>6. CASE GenerateOtpClaim(s)
    <2> DEFINE r == [row[b] EXCEPT !.status = "OTP_GENERATED", !.otp = "sent",
                                   !.notes = [call[s].seen.notes EXCEPT !.start = "live"]]
    <2>1. CASE row[b].status \in Pending
      <3>1. At(s, "otp.generate") /\ Save(b, r) /\ Return(s) /\ UNCHANGED <<upi, money, codes>>
        BY <1>2, <1>6, <2>1 DEF GenerateOtpClaim
      <3>2. /\ r.otp = "sent" /\ r.pay = row[b].pay /\ r.partner = row[b].partner
            /\ r.notes.method = call[s].seen.notes.method /\ r.status = "OTP_GENERATED"
        BY <1>3 DEF Row, Notes
      <3> HIDE DEF r
      <3>3. /\ call[s].at \in Writers /\ r.status \notin Started \cup Searching
            /\ money[b].payouts > 0 => codes[b] = {"start", "done"}
        BY <1>2, <3>1, <3>2 DEF At, Writers, Started, Searching, RowTells
      <3> QED BY <1>2, <3>1, <3>2, <3>3, NotesWritten
    <2>2. CASE UNCHANGED row
      BY <1>2, <1>6, <2>2, QuietReturn, NoWrite DEF GenerateOtpClaim
    <2> QED BY <1>2, <1>6, <2>1, <2>2 DEF GenerateOtpClaim
  (* The handlers that write notes and leave the status.                   *)
  <1>7. ASSUME NEW notes \in Notes, Save(b, [row[b] EXCEPT !.notes = notes]),
               notes.method = call[s].seen.notes.method, call[s].at \in Writers,
               UNCHANGED <<upi, money>>,
               codes[b] \subseteq codes'[b], \A c \in Bookings \ {b} : codes'[c] = codes[c],
               money[b].payouts > 0 => codes'[b] = {"start", "done"},
               \/ Return(s)
               \/ Goto(s, "arrive.fresh") /\ row[b].partner # NoPartner
        PROVE  Stages'
    <2> DEFINE r == [row[b] EXCEPT !.notes = notes]
    <2>1. /\ r.otp = row[b].otp /\ r.pay = row[b].pay /\ r.partner = row[b].partner
          /\ r.notes = notes /\ r.status = row[b].status
      BY <1>3 DEF Row
    <2>2. Save(b, r)
      BY <1>7
    <2> HIDE DEF r
    <2>3. /\ r.status = "OTP_GENERATED" => r.otp = "sent"
          /\ r.status \in Started => "start" \in codes'[b]
      BY <1>2, <1>7, <2>1 DEF RowTells
    <2> QED BY <1>2, <1>7, <2>1, <2>2, <2>3, NotesWritten
  <1>8. CASE SaveTrip(s)
    <2>1. /\ Save(b, [row[b] EXCEPT !.notes = call[s].seen.notes]) /\ UNCHANGED <<upi, money, codes>>
          /\ call[s].at \in {"travel.save", "arrive.save"}
          /\ \/ Return(s)
             \/ call[s].at = "arrive.save" /\ Goto(s, "arrive.fresh")
      BY <1>2, <1>8 DEF SaveTrip, At
    <2>2. /\ call[s].at \in Writers
          /\ call[s].at = "arrive.save" => row[b].partner # NoPartner
          /\ money[b].payouts > 0 => codes[b] = {"start", "done"}
      BY <1>2, <2>1 DEF CallTells, RowTells, Trip, Writers
    <2> QED BY <1>3, <1>7, <2>1, <2>2
  <1>9. CASE ArriveFresh(s)
    <2> DEFINE seen == SeenJob(row[b])
    <2>1. /\ At(s, "arrive.fresh") /\ GotoSeeing(s, "otp.mint", seen)
          /\ UNCHANGED <<row, upi, money, codes>>
      BY <1>2, <1>9 DEF ArriveFresh
    <2>2. seen.notes = row[b].notes /\ seen.status = row[b].status
      BY DEF SeenJob, SeenNothing
    <2>3. /\ row[b].partner # NoPartner
          /\ row[b].status \in Started => "start" \in codes[b]
      BY <1>2, <2>1 DEF CallTells, RowTells, Trip, At
    <2> HIDE DEF seen
    <2> QED BY <1>2, <2>1, <2>2, <2>3, GoneSeeing, NotesRead
  <1>10. CASE StartJob(s)
    <2> DEFINE r == [row[b] EXCEPT !.status = "IN_PROGRESS", !.otp = "checked",
                                   !.notes = [call[s].seen.notes EXCEPT !.start = "verified"]]
    <2>1. /\ At(s, "start.verify") /\ Save(b, r) /\ Return(s) /\ UNCHANGED <<upi, money>>
          /\ codes' = [codes EXCEPT ![b] = @ \cup {"start"}]
      BY <1>2, <1>10 DEF StartJob
    <2>2. /\ r.pay = row[b].pay /\ r.partner = row[b].partner
          /\ r.notes.method = call[s].seen.notes.method /\ r.status = "IN_PROGRESS"
      BY <1>3 DEF Row, Notes
    <2> HIDE DEF r
    <2>3. codes'[b] = codes[b] \cup {"start"} /\ \A c \in Bookings \ {b} : codes'[c] = codes[c]
      BY <2>1 DEF TypeOK
    <2>4. /\ call[s].at \in Writers /\ r.status \notin Searching
          /\ money[b].payouts > 0 => codes'[b] = {"start", "done"}
      BY <1>2, <2>1, <2>2, <2>3 DEF At, Writers, Searching, RowTells
    <2> QED BY <1>2, <2>1, <2>2, <2>3, <2>4, NotesWritten
  <1>11. CASE WrongCode(s)
    <2>1. /\ call[s].at \in {"start.wrong", "done.wrong"} /\ Return(s) /\ UNCHANGED <<upi, money, codes>>
          /\ \E notes \in {call[s].seen.notes, [call[s].seen.notes EXCEPT !.start = "none"],
                            [call[s].seen.notes EXCEPT !.done = "none"]} :
                Save(b, [row[b] EXCEPT !.notes = notes])
      BY <1>2, <1>11 DEF WrongCode, At
    <2>2. PICK notes \in Notes : /\ Save(b, [row[b] EXCEPT !.notes = notes])
                                /\ notes.method = call[s].seen.notes.method
      BY <1>3, <2>1 DEF Notes, Code
    <2>3. call[s].at \in Writers /\ (money[b].payouts > 0 => codes[b] = {"start", "done"})
      BY <1>2, <2>1 DEF RowTells, Writers
    <2> QED BY <1>7, <2>1, <2>2, <2>3
  <1>12. CASE SaveCompletionRequest(s)
    <2> DEFINE r == [row[b] EXCEPT !.status = "COMPLETION_REQUESTED", !.notes = call[s].seen.notes]
    <2>1. /\ At(s, "done.request") /\ Save(b, r) /\ (Return(s) \/ Goto(s, "done.code"))
          /\ UNCHANGED <<upi, money, codes>>
      BY <1>2, <1>12 DEF SaveCompletionRequest
    <2>2. /\ r.pay = row[b].pay /\ r.partner = row[b].partner
          /\ r.notes = call[s].seen.notes /\ r.status = "COMPLETION_REQUESTED"
      BY <1>3 DEF Row
    <2> HIDE DEF r
    <2>3. /\ call[s].at \in Writers /\ r.status \notin Searching /\ "start" \in codes[b]
          /\ money[b].payouts > 0 => codes[b] = {"start", "done"}
      BY <1>2, <2>1, <2>2 DEF At, Writers, Searching, RowTells, CallTells
    <2> QED BY <1>2, <2>1, <2>2, <2>3, NotesWritten
  <1>13. CASE SaveCompletionOtp(s)
    <2> DEFINE notes == [call[s].seen.notes EXCEPT !.done = "live"]
    <2>1. /\ call[s].at \in {"done.code", "done.issue"} /\ Return(s) /\ UNCHANGED <<upi, money, codes>>
          /\ Save(b, [row[b] EXCEPT !.notes = notes])
      BY <1>2, <1>13 DEF SaveCompletionOtp, At
    <2>2. notes \in Notes /\ notes.method = call[s].seen.notes.method
      BY <1>3 DEF Notes, Code
    <2>3. call[s].at \in Writers /\ (money[b].payouts > 0 => codes[b] = {"start", "done"})
      BY <1>2, <2>1 DEF RowTells, Writers
    <2> HIDE DEF notes
    <2> QED BY <1>7, <2>1, <2>2, <2>3
  <1>14. CASE SaveCompletionVerified(s)
    <2> DEFINE notes == [call[s].seen.notes EXCEPT !.done = "verified"]
    <2>1. /\ call[s].at = "done.verify" /\ Return(s) /\ UNCHANGED <<upi, money>>
          /\ Save(b, [row[b] EXCEPT !.notes = notes])
          /\ codes' = [codes EXCEPT ![b] = @ \cup {"done"}]
      BY <1>2, <1>14 DEF SaveCompletionVerified, At
    <2>2. notes \in Notes /\ notes.method = call[s].seen.notes.method
      BY <1>3 DEF Notes, Code
    <2>3. codes'[b] = codes[b] \cup {"done"} /\ \A c \in Bookings \ {b} : codes'[c] = codes[c]
      BY <2>1 DEF TypeOK
    <2>4. call[s].at \in Writers /\ (money[b].payouts > 0 => codes'[b] = {"start", "done"})
      BY <1>2, <2>1, <2>3 DEF RowTells, Writers
    <2> HIDE DEF notes
    <2> QED BY <1>7, <2>1, <2>2, <2>3, <2>4
  <1>15. CASE CompleteClaim(s)
    <2> DEFINE r == [row[b] EXCEPT !.status = "COMPLETED",
                                   !.notes = [call[s].seen.notes EXCEPT !.done = "verified"]]
    <2>1. CASE row[b].status = "COMPLETION_REQUESTED"
      <3>1. /\ At(s, "complete") /\ Save(b, r) /\ Return(s) /\ UNCHANGED <<upi, codes>>
            /\ UNCHANGED money \/ Post(b, "payouts")
        BY <1>2, <1>15, <2>1 DEF CompleteClaim
      <3>2. /\ r.pay = row[b].pay /\ r.partner = row[b].partner
            /\ r.notes.method = call[s].seen.notes.method /\ r.status = "COMPLETED"
        BY <1>3 DEF Row, Notes
      <3> HIDE DEF r
      <3>3. call[s].at \in Writers /\ r.status \notin Searching /\ codes[b] = {"start", "done"}
        BY <1>2, <2>1, <3>1, <3>2 DEF At, Writers, Searching, Started, RowTells, CallTells
      <3>4. \A c \in Bookings \ {b} : money'[c].payouts = money[c].payouts
        BY <3>1 DEF TypeOK, Post
      <3> QED BY <1>2, <3>1, <3>2, <3>3, <3>4, NotesWritten
    <2>2. CASE UNCHANGED <<row, money>>
      BY <1>2, <1>15, <2>2, QuietReturn, NoWrite DEF CompleteClaim
    <2> QED BY <1>2, <1>15, <2>1, <2>2 DEF CompleteClaim
  <1>16. CASE SaveSelection(s)
    <2> DEFINE seen == call[s].seen
               r == [row[b] EXCEPT !.notes = seen.notes, !.pay = "PAID"]
    <2>1. At(s, "select") /\ Return(s) /\ UNCHANGED <<upi, money, codes>> /\ seen.pay = "PAID"
      BY <1>2, <1>16 DEF SaveSelection, CallTells, At
    <2>2. CASE row[b].status \in Pending
      <3>1. Save(b, r)
        BY <1>2, <1>16, <2>1, <2>2 DEF SaveSelection
      <3>2. /\ r.pay = "PAID" /\ r.partner = row[b].partner /\ r.otp = row[b].otp
            /\ r.notes = seen.notes /\ r.status = row[b].status
        BY <1>3 DEF Row
      <3> HIDE DEF r
      <3>3. /\ call[s].at \in Writers /\ r.status \notin Searching \cup Started
            /\ r.status = "OTP_GENERATED" => r.otp = "sent"
            /\ money[b].payouts > 0 => codes[b] = {"start", "done"}
        BY <1>2, <2>1, <2>2, <3>2 DEF At, Writers, Searching, Started, Pending, RowTells
      <3> QED BY <1>2, <2>1, <3>1, <3>2, <3>3, NotesWritten
    <2>3. CASE UNCHANGED row
      BY <1>2, <2>1, <2>3, QuietReturn, NoWrite
    <2> QED BY <1>2, <1>16, <2>2, <2>3 DEF SaveSelection
  <1> QED BY <1>4, <1>5, <1>6, <1>8, <1>9, <1>10, <1>11, <1>12, <1>13, <1>14, <1>15, <1>16
     DEF JobStep

LEMMA BackgroundStages ==
  ASSUME TypeOK, Stages, Kept, NEW b \in Bookings, AdminUpi(b) \/ CodeLapses(b) \/ Tick(b)
  PROVE  Stages'
  <1>1. row[b] \in Row /\ RowTells(b)
    BY DEF Stages, TypeOK
  <1>2. ASSUME NEW u \in Claims, RejectUpi(b, u) \/ RequestUpiInfo(b, u)
        PROVE  Stages'
    <2> DEFINE r == [row[b] EXCEPT !.pay = "REJECTED"]
    <2>1. /\ upi[b][u] # "NONE" /\ UNCHANGED <<money, call, codes>>
          /\ upi' = [upi EXCEPT ![b][u] = "REJECTED"] \/ upi' = [upi EXCEPT ![b][u] = "REQUEST_INFO"]
          /\ UNCHANGED row \/ Save(b, r)
      BY <1>2 DEF RejectUpi, RequestUpiInfo
    <2>2. Exists(b) /\ ~Settled(b)
      BY <1>1, <2>1 DEF RowTells, Settled
    <2>3. /\ r.pay = "REJECTED" /\ r.status = row[b].status /\ r.notes = row[b].notes
          /\ r.otp = row[b].otp
      BY <1>1 DEF Row
    <2> HIDE DEF r
    <2>4. /\ \A c \in Bookings \ {b} : row'[c] = row[c] /\ upi'[c] = upi[c]
          /\ row'[b] \in {row[b], r}
      BY <2>1 DEF TypeOK, Save
    <2>5. \A t \in Slots, c \in Bookings : ~Submits(t, c) => ~Submits(t, c)'
      BY <2>1 DEF Submits, At
    <2> HIDE DEF Settled
    <2> QED BY <2>1, <2>2, <2>3, <2>4, <2>5, UpiWritten
  <1>3. CASE CodeLapses(b)
    <2>1. /\ UNCHANGED <<upi, money, call, codes>>
          /\ row[b].notes.start = "live" \/ row[b].notes.done = "live"
          /\ \/ Save(b, [row[b] EXCEPT !.notes.start = "none"])
             \/ Save(b, [row[b] EXCEPT !.notes.done = "none"])
      BY <1>3 DEF CodeLapses
    <2>2. PICK r : /\ Save(b, r) /\ r.status = row[b].status /\ r.pay = row[b].pay
                   /\ r.partner = row[b].partner /\ r.otp = row[b].otp
                   /\ r.notes.method = row[b].notes.method
      BY <1>1, <2>1 DEF Row, Notes
    <2>3. row'[b] = r /\ \A c \in Bookings \ {b} : row'[c] = row[c]
      BY <2>2 DEF TypeOK, Save
    <2>4. Exists(b)
      BY <1>1, <2>1 DEF RowTells, NoRow, NoNotes
    <2>5. \A c \in Bookings : Settled(c) => Settled(c)'
      BY <2>1, <2>2, <2>3 DEF Settled, Submits, At
    <2>6. RowTells(b)'
      <3> HIDE DEF Settled
      <3> QED BY <1>1, <2>1, <2>2, <2>3, <2>4, <2>5 DEF RowTells, Exists
    <2>7. \A c \in Bookings : (Same(c) \/ RowTells(c)') /\ codes[c] \subseteq codes'[c]
      <3>1. \A c \in Bookings \ {b} : Same(c)
        BY <2>1, <2>3 DEF Same
      <3> HIDE DEF Same, RowTells
      <3> QED BY <2>1, <2>6, <3>1
    <2> QED BY <2>1, <2>5, <2>7, StagesOn
  <1>4. CASE Tick(b)
    BY <1>4, Unmoved DEF Tick
  <1> QED BY <1>2, <1>3, <1>4 DEF AdminUpi

LEMMA SweepAndCrashStages ==
  ASSUME TypeOK, Stages, Kept, LazySweep \/ Crash
  PROVE  Stages'
  <1>1. CASE LazySweep
    <2>1. UNCHANGED <<upi, money, call, codes>> /\ \A b \in Bookings :
            \/ row'[b] = row[b]
            \/ row[b].status = "PARTNER_SEARCHING" /\ row'[b] = [row[b] EXCEPT !.status = "EXPIRED"]
      BY <1>1 DEF LazySweep, Unclaimed
    <2>2. ASSUME NEW b \in Bookings PROVE row'[b].pay = row[b].pay
      <3>1. row[b] \in Row
        BY DEF TypeOK
      <3> QED BY <2>1, <3>1 DEF Row
    <2>3. \A b \in Bookings : Settled(b) => Settled(b)'
      BY <2>1, <2>2 DEF Settled, Submits, At
    <2>4. ASSUME NEW b \in Bookings PROVE Same(b) \/ RowTells(b)'
      <3>1. CASE row'[b] = row[b]
        BY <2>1, <3>1 DEF Same
      <3>2. CASE row[b].status = "PARTNER_SEARCHING" /\ row'[b] = [row[b] EXCEPT !.status = "EXPIRED"]
        <4>1. RowTells(b) /\ row[b] \in Row
          BY DEF Stages, TypeOK
        <4>2. /\ row'[b].status = "EXPIRED" /\ row'[b].notes = row[b].notes
              /\ row'[b].partner = row[b].partner
          BY <3>2, <4>1 DEF Row
        <4> HIDE DEF Settled
        <4> QED BY <2>1, <2>2, <2>3, <3>2, <4>1, <4>2 DEF RowTells, Exists, Started, Searching
      <3> QED BY <2>1, <3>1, <3>2
    <2> QED BY <2>1, <2>3, <2>4, StagesOn
  <1>2. CASE Crash
    <2>1. UNCHANGED <<row, upi, money, codes>> /\ \A t \in Slots : call'[t].at = "idle"
      BY <1>2 DEF Crash, Idle
    <2>2. \A b \in Bookings : Settled(b) => Settled(b)'
      BY <2>1 DEF Settled, Submits, At
    <2>3. \A b \in Bookings : Same(b) /\ codes[b] \subseteq codes'[b]
      BY <2>1 DEF Same
    <2>4. \A t \in Slots : CallTells(t)'
      BY <2>1 DEF CallTells
    <2> QED BY <2>2, <2>3, <2>4, StagesOn
  <1> QED BY <1>1, <1>2

LEMMA StagesStep ==
  ASSUME TypeOK, Custody, Stages, [Next]_vars
  PROVE  Stages'
  <1>1. Kept
    BY CustodyStep
  <1>2. ASSUME NEW s \in Slots, Step(s) PROVE Stages'
    BY <1>1, <1>2, PaymentStepStages, DispatchStages, JobStepStages DEF Step
  <1>3. ASSUME NEW s \in Slots, NEW b \in Bookings,
               PaymentRequest(s, b) \/ DispatchRequest(s, b) \/ JobRequest(s, b)
        PROVE  Stages'
    BY <1>1, <1>3, PaymentRequestStages, DispatchRequestStages, JobRequestStages
  <1>4. ASSUME NEW b \in Bookings, AdminUpi(b) \/ CodeLapses(b) \/ Tick(b)
        PROVE  Stages'
    BY <1>1, <1>4, BackgroundStages
  <1>5. CASE LazySweep \/ Crash
    BY <1>1, <1>5, SweepAndCrashStages
  <1>6. CASE UNCHANGED vars
    BY <1>6, Unmoved DEF vars
  <1> QED BY <1>2, <1>3, <1>4, <1>5, <1>6 DEF Next, Time

(* The stages are kept by every handler, whatever it remembers of the row. *)
LEMMA StagesInvariant == Spec => []Stages
  <1>1. Init => Custody
    BY DEF Init, Custody, FreshRowsFree, TripsExist, NoRow, Idle
  <1>2. TypeOK /\ Custody /\ [Next]_vars => Custody'
    BY CustodyStep
  <1>3. Init => Stages
    BY DEF Init, Stages, RowTells, CallTells, Exists, NoRow, Idle, Started
  <1>4. TypeOK /\ Custody /\ Stages /\ [Next]_vars => Stages'
    BY StagesStep
  <1> QED BY <1>1, <1>2, <1>3, <1>4, TypeCorrect, PTL DEF Spec

(***************************************************************************)
(* The theorems.                                                           *)
(***************************************************************************)

(* completeBooking pays the partner only for a booking whose start code    *)
(* and whose completion code were both entered, although verifyStartOtp,   *)
(* requestCompletion and mintStartOtp write stages they read earlier.      *)
THEOREM PayoutsFollowCodes == Spec => []PayoutFollowsBothCodes
  <1>1. Stages => PayoutFollowsBothCodes
    BY DEF Stages, RowTells, PayoutFollowsBothCodes
  <1> QED BY <1>1, StagesInvariant, PTL

(* verifyStartOtp is the only way into IN_PROGRESS: startBooking would     *)
(* need a row that waits for its start with its code already checked.      *)
THEOREM StartsByCodeOnly == Spec => []StartVerifyIsOnlyEntry
  <1>1. Stages => StartVerifyIsOnlyEntry
    BY DEF Stages, RowTells, StartVerifyIsOnlyEntry
  <1> QED BY <1>1, StagesInvariant, PTL

(* No claim, settlement or choice of a payment method brings a booking     *)
(* still to be paid in cash together with a partner.                       *)
THEOREM CashStaysFromPartners == Spec => []CashNeverReachesPartner
  <1>1. Stages => CashNeverReachesPartner
    BY DEF Stages, RowTells, CashNeverReachesPartner
  <1> QED BY <1>1, StagesInvariant, PTL
=============================================================================
